------------------------------- MODULE Watcher -------------------------------
(***************************************************************************)
(* The watcher's pass over one network (watcher/single_pass.py) together   *)
(* with the storage operations it is made of (storage/user_store.py,       *)
(* storage/registry.py).  A pass is a chain of awaits: every request to    *)
(* the provider and every database transaction is a step of its own, so    *)
(* that the chain moves, bindings appear and owners' databases fail in     *)
(* between, and a pass may stop after any of them.  A local variable of    *)
(* the pass is reset by the step after which no later step reads it.       *)
(***************************************************************************)
EXTENDS Chain, FiniteSets

CONSTANTS
    Owner,          \* gateway users, each with a database of its own
    Address,        \* the addresses their wallets derive
    OwnerOf,        \* the owner of each address
    Outside,        \* any address that is not the gateway's
    From, To,       \* the two parties of each transfer
    Overlap,        \* watcher.overlap_minutes, in blocks of time
    ScanStart,      \* watcher.scan_start, 0 when unset
    MaxWindow,      \* MAX_TOKEN_MINUTES_PER_PASS, in blocks of time
    MinWindow,      \* MIN_TOKEN_MINUTES_PER_PASS, in blocks of time
    MaxScan,        \* MAX_BLOCKS_PER_PASS
    Stale,          \* how far behind the network the answering node may be
    IndexFaults,    \* may an owner's database be unreadable when a pass starts
    PromptStart     \* is the boundary read before a block mined since can settle

ASSUME WatcherAssumption ==
    /\ OwnerOf \in [Address -> Owner]
    /\ Outside \notin Address
    /\ From \in [Tx -> Address \cup {Outside}]
    /\ To \in [Tx -> Address \cup {Outside}]
    /\ {Overlap, ScanStart, Stale} \subseteq Nat
    /\ {MinWindow, MaxScan} \subseteq Nat \ {0}
    /\ MaxWindow \in Nat /\ MinWindow <= MaxWindow
    /\ {IndexFaults, PromptStart} \subseteq BOOLEAN

Native == Tx \ Token
Direction == {"in", "out"}
Leg == Tx \X Direction

\* The address a leg would be stored under.
AddressOf(l) == IF l[2] = "in" THEN To[l[1]] ELSE From[l[1]]

\* The legs the gateway has a use for, and those in one owner's database.
Tracked == {l \in Leg : AddressOf(l) \in Address}
LegsOf(w) == {l \in Tracked : OwnerOf[AddressOf(l)] = w}

(***************************************************************************)
(* State.                                                                  *)
(***************************************************************************)
VARIABLES
    \* the databases
    bound,      \* user.db bindings: the height at which an address was bound
    rows,       \* user.db transactions, one row per leg
    credit,     \* user.db balances: how many times each leg was folded in
    cursor,     \* registry.db watcher_state of the network
    origin,     \* history: where the first stored cursor started from
    \* the running pass
    pc,         \* the await the pass is suspended at
    started,    \* pass_started
    index,      \* match_index of the network
    boundary,   \* the finality boundary read by this pass
    tip,        \* the head read by this pass
    window,     \* the token window being asked for
    covered,    \* native_covered
    todo,       \* observations fetched and matched, not yet recorded
    failed,     \* failed_engines
    unsettled,  \* owners whose rows are still to be cleaned and applied
    busy        \* the owner cleaned but not yet applied

storeVars == <<bound, rows, credit, cursor, origin>>
passVars == <<pc, started, index, boundary, tip, window, covered, todo, failed,
              unsettled, busy>>
vars == <<chainVars, storeVars, passVars>>

Unbound == -1
NoOwner == "none"
NoCursor == [block |-> -1, time |-> 0]
NoRow == [blk |-> 0, ok |-> FALSE, final |-> FALSE, applied |-> FALSE]

Row == [blk : Block, ok : BOOLEAN, final : BOOLEAN, applied : BOOLEAN]
Observation == [leg : Tracked, blk : Block, ok : BOOLEAN]
Step == {"idle", "boundary", "tip", "tokens", "native", "record", "settle",
         "preview", "previewNative", "previewRecord"}

TypeOK ==
    /\ ChainTypeOK
    /\ bound \in [Address -> {Unbound} \cup Block]
    /\ rows \in [Leg -> Row]
    /\ credit \in [Leg -> Nat]
    /\ cursor \in [block : {-1} \cup Block, time : Int]
    /\ origin \in [block : {-1} \cup Block, time : Int]
    /\ pc \in Step
    /\ started \in Block /\ boundary \in Block /\ tip \in Block
    /\ index \subseteq Address
    /\ window \in 0 .. MaxWindow
    /\ covered \in {-1} \cup Block
    /\ todo \subseteq Observation
    /\ failed \subseteq Owner /\ unsettled \subseteq Owner
    /\ busy \in Owner \cup {NoOwner}

(***************************************************************************)
(* What a pass reads.                                                      *)
(***************************************************************************)
\* The height an answering node reports when the network is at h.
Seen(h) == {n \in Block : h - Stale <= n /\ n <= h}

HasRow(l) == rows[l].blk # 0
Smaller(a, b) == IF a < b THEN a ELSE b
Larger(a, b) == IF a > b THEN a ELSE b

Stored == cursor # NoCursor
SinceDefault == IF ScanStart = 0 THEN started ELSE ScanStart
TokenCursor == IF Stored THEN cursor.time ELSE SinceDefault

\* The bounds of the token request; the upper one is left out once the window
\* reaches the present.
TokenSince == TokenCursor - Overlap
CaughtUp == TokenCursor + window >= started
TokenUntil == TokenCursor + window

\* Defects for the mutant runs are written next to the definition they would
\* spoil, as operators whose names begin with Bad; no action uses them.
BadFinalStart == IF Stored THEN cursor.block + 2 ELSE boundary + 1

\* The range of blocks to scan: from the first one not yet covered, capped.
FinalStart == IF Stored THEN cursor.block + 1 ELSE boundary + 1
BadFinalEnd == FinalStart + MaxScan
FinalEnd == Smaller(boundary, FinalStart + MaxScan)

\* Both legs of each transfer of the answer, kept where the match index knows
\* the address and its owner has not failed in this pass.
Matched(answer) ==
    {[leg |-> l, blk |-> chain[l[1]].at, ok |-> chain[l[1]].ok] :
        l \in {k \in answer \X Direction : /\ AddressOf(k) \in index
                                          /\ OwnerOf[AddressOf(k)] \notin failed}}

\* The transfers of S carried by the blocks from lo to hi.
OnChain(S, lo, hi) == {t \in S : chain[t].at # 0 /\ lo <= chain[t].at /\ chain[t].at <= hi}

(***************************************************************************)
(* Bindings appear at any moment, through the application API.             *)
(***************************************************************************)
Bind(a) ==
    /\ bound[a] = Unbound
    /\ bound' = [bound EXCEPT ![a] = head]
    /\ UNCHANGED <<chainVars, rows, credit, cursor, origin, passVars>>

(***************************************************************************)
(* Phase 1: the authoritative scan.                                        *)
(***************************************************************************)
\* run_pass builds the match index; an owner whose database cannot be read
\* is left out of it.
StartPass ==
    /\ pc = "idle"
    /\ \E readable \in (IF IndexFaults THEN SUBSET Owner ELSE {Owner}) :
          index' = {a \in Address : bound[a] # Unbound /\ OwnerOf[a] \in readable}
    /\ index' # {}
    /\ pc' = "boundary"
    /\ started' = head
    /\ UNCHANGED <<chainVars, storeVars, boundary, tip, window, covered, todo, failed,
                   unsettled, busy>>

ReadBoundary ==
    /\ pc = "boundary"
    /\ boundary' \in Seen(fin)
    /\ pc' = "tip"
    /\ UNCHANGED <<chainVars, storeVars, started, index, tip, window, covered, todo,
                   failed, unsettled, busy>>

ReadTip ==
    /\ pc = "tip"
    /\ tip' \in Seen(head)
    /\ window' = MaxWindow
    /\ pc' = "tokens"
    /\ UNCHANGED <<chainVars, storeVars, started, index, boundary, covered, todo, failed,
                   unsettled, busy>>

ScanTokens ==
    /\ pc = "tokens"
    /\ \E f \in Seen(fin) :
          todo' = Matched(OnChain(Token, TokenSince,
                                  IF CaughtUp THEN f ELSE Smaller(f, TokenUntil)))
    /\ pc' = "native"
    /\ UNCHANGED <<chainVars, storeVars, started, index, boundary, tip, window, covered,
                   failed, unsettled, busy>>

\* RangeTooLargeError: the window is halved, down to the floor.  A refusal at
\* the floor ends the scan of the network: Abandon.
NarrowWindow ==
    /\ pc = "tokens"
    /\ window > MinWindow
    /\ window' = Larger(window \div 2, MinWindow)
    /\ UNCHANGED <<chainVars, storeVars, pc, started, index, boundary, tip, covered, todo,
                   failed, unsettled, busy>>

\* Where the native scan may turn out to be complete: the answer may break off
\* before the end of the range (covered_through), and without a range there is
\* nothing new to cover.
Coverage ==
    IF FinalStart <= FinalEnd THEN FinalStart - 1 .. FinalEnd
                              ELSE {IF Stored THEN cursor.block ELSE boundary}

ScanNative ==
    /\ pc = "native"
    /\ covered' \in Coverage
    /\ todo' = todo \cup Matched(OnChain(Native, FinalStart, Smaller(FinalEnd, covered')))
    /\ pc' = "record"
    /\ UNCHANGED <<chainVars, storeVars, started, index, boundary, tip, window, failed,
                   unsettled, busy>>

\* record_transaction with a finalization marker: insert, or promote the
\* provisional row of the same key, refreshing its block and status.
BadPromoted(r, o) ==
    IF r.blk = 0 THEN [blk |-> o.blk, ok |-> o.ok, final |-> TRUE, applied |-> FALSE]
                 ELSE [r EXCEPT !.final = TRUE]

Promoted(r, o) ==
    IF r.final THEN r
    ELSE [blk |-> o.blk, ok |-> o.ok, final |-> TRUE, applied |-> r.applied]

RecordFinal(o) ==
    /\ pc = "record" /\ o \in todo
    /\ rows' = [rows EXCEPT ![o.leg] = Promoted(@, o)]
    /\ todo' = todo \ {o}
    /\ UNCHANGED <<chainVars, bound, credit, cursor, origin, pc, started, index, boundary,
                   tip, window, covered, failed, unsettled, busy>>

BadOfOthers(w) == {}

\* What is left to record once owner w is out of the pass.
OfOthers(w) == {p \in todo : OwnerOf[AddressOf(p.leg)] # w}

\* The owner's database refuses a write: the owner is out for this pass.
\* Nothing reads failed_engines after the preview is recorded.
RecordFails(o) ==
    /\ pc \in {"record", "previewRecord"} /\ o \in todo
    /\ LET w == OwnerOf[AddressOf(o.leg)] IN
          /\ failed' = IF pc = "record" THEN failed \cup {w} ELSE failed
          /\ todo' = OfOthers(w)
    /\ UNCHANGED <<chainVars, storeVars, pc, started, index, boundary, tip, window, covered,
                   unsettled, busy>>

BeginSettle ==
    /\ pc = "record" /\ todo = {}
    /\ unsettled' = {OwnerOf[a] : a \in index} \ failed
    /\ pc' = "settle"
    /\ UNCHANGED <<chainVars, storeVars, started, index, boundary, tip, window, covered, todo,
                   failed, busy>>

BadRemovable(w) == {l \in LegsOf(w) : HasRow(l) /\ ~rows[l].final /\ rows[l].blk <= covered}

BadRemovableFinal(w) ==
    {l \in LegsOf(w) : HasRow(l) /\ ~rows[l].applied /\ rows[l].blk <= covered
                       /\ (l[1] \in Token => CaughtUp)}

BadRemovableBelow(w) ==
    {l \in LegsOf(w) : HasRow(l) /\ ~rows[l].final /\ rows[l].blk < covered
                       /\ (l[1] \in Token => CaughtUp)}

\* delete_unfinalized: provisional rows of the scanned zone that the scan did
\* not promote; token rows are spared while the token scan catches up.
Removable(w) ==
    {l \in LegsOf(w) : /\ HasRow(l) /\ ~rows[l].final /\ ~rows[l].applied
                       /\ rows[l].blk <= covered
                       /\ l[1] \in Token => CaughtUp}

DeleteUnfinalized(w) ==
    /\ pc = "settle" /\ busy = NoOwner /\ w \in unsettled
    /\ rows' = [l \in Leg |-> IF l \in Removable(w) THEN NoRow ELSE rows[l]]
    /\ busy' = w
    /\ UNCHANGED <<chainVars, bound, credit, cursor, origin, pc, started, index, boundary,
                   tip, window, covered, todo, failed, unsettled>>

BadApplicable(w) == {l \in LegsOf(w) : HasRow(l) /\ rows[l].ok /\ ~rows[l].applied}

\* apply_finalized: the balance and the marker in one database transaction.
Applicable(w) ==
    {l \in LegsOf(w) : rows[l].final /\ rows[l].ok /\ ~rows[l].applied}

ApplyFinalized(w) ==
    /\ pc = "settle" /\ busy = w /\ w \in unsettled
    /\ rows' = [l \in Leg |-> IF l \in Applicable(w) THEN [rows[l] EXCEPT !.applied = TRUE]
                                                     ELSE rows[l]]
    /\ credit' = [l \in Leg |-> IF l \in Applicable(w) THEN credit[l] + 1 ELSE credit[l]]
    /\ unsettled' = unsettled \ {w}
    /\ busy' = NoOwner
    /\ UNCHANGED <<chainVars, bound, cursor, origin, pc, started, index, boundary, tip,
                   window, covered, todo, failed>>

\* Either transaction of the settlement fails and changes nothing.
SettleFails(w) ==
    /\ pc = "settle" /\ w \in unsettled /\ busy \in {NoOwner, w}
    /\ failed' = failed \cup {w}
    /\ unsettled' = unsettled \ {w}
    /\ busy' = NoOwner
    /\ UNCHANGED <<chainVars, storeVars, pc, started, index, boundary, tip, window, covered,
                   todo>>

\* set_watcher_state, unless some owner's rows are not stored.
BadMaySave == TRUE
MaySave == failed = {}
BadNextTime == IF CaughtUp THEN head ELSE TokenUntil
NextTime == IF CaughtUp THEN started ELSE TokenUntil

SaveCursor ==
    /\ pc = "settle" /\ unsettled = {}
    /\ IF MaySave
       THEN /\ cursor' = [block |-> covered, time |-> NextTime]
            /\ origin' = IF Stored THEN origin
                         ELSE [block |-> covered, time |-> TokenSince]
       ELSE UNCHANGED <<cursor, origin>>
    /\ pc' = "preview"
    /\ started' = 0 /\ window' = 0 /\ covered' = -1
    /\ UNCHANGED <<chainVars, bound, rows, credit, index, boundary, tip, todo, failed,
                   unsettled, busy>>

(***************************************************************************)
(* Phase 2: the provisional preview of the zone above the boundary.        *)
(***************************************************************************)
PreviewTokens ==
    /\ pc = "preview"
    /\ \E f \in Seen(fin), h \in Seen(head) : todo' = Matched(OnChain(Token, f + 1, h))
    /\ pc' = "previewNative"
    /\ UNCHANGED <<chainVars, storeVars, started, index, boundary, tip, window, covered,
                   failed, unsettled, busy>>

\* A short answer is taken as it is: completeness of the preview is not needed.
PreviewNative ==
    /\ pc = "previewNative"
    /\ \E h \in boundary .. Larger(boundary, Smaller(tip, boundary + MaxScan)) :
          todo' = todo \cup Matched(OnChain(Native, boundary + 1, h))
    /\ pc' = "previewRecord"
    /\ boundary' = 0 /\ tip' = 0 /\ index' = {} /\ failed' = {}
    /\ UNCHANGED <<chainVars, storeVars, started, window, covered, unsettled, busy>>

\* record_transaction without a marker: an existing row is left as it is.
Previewed(r, o) ==
    IF r.blk # 0 THEN r
    ELSE [blk |-> o.blk, ok |-> o.ok, final |-> FALSE, applied |-> FALSE]

RecordPreview(o) ==
    /\ pc = "previewRecord" /\ o \in todo
    /\ rows' = [rows EXCEPT ![o.leg] = Previewed(@, o)]
    /\ todo' = todo \ {o}
    /\ UNCHANGED <<chainVars, bound, credit, cursor, origin, pc, started, index, boundary,
                   tip, window, covered, failed, unsettled, busy>>

(***************************************************************************)
(* The end of a pass.                                                      *)
(***************************************************************************)
Forget ==
    /\ pc' = "idle" /\ started' = 0 /\ index' = {} /\ boundary' = 0 /\ tip' = 0
    /\ window' = 0 /\ covered' = -1 /\ todo' = {} /\ failed' = {} /\ unsettled' = {}
    /\ busy' = NoOwner

EndPass ==
    /\ pc = "previewRecord" /\ todo = {}
    /\ Forget
    /\ UNCHANGED <<chainVars, storeVars>>

\* A refusal of the provider, a registry failure or the death of the process:
\* what is stored stays stored, what the pass holds in memory is gone.
Abandon ==
    /\ pc # "idle"
    /\ Forget
    /\ UNCHANGED <<chainVars, storeVars>>

(***************************************************************************)
(* Specification.                                                          *)
(***************************************************************************)
Init ==
    /\ ChainInit
    /\ bound = [a \in Address |-> Unbound]
    /\ rows = [l \in Leg |-> NoRow]
    /\ credit = [l \in Leg |-> 0]
    /\ cursor = NoCursor /\ origin = NoCursor
    /\ pc = "idle" /\ started = 0 /\ index = {} /\ boundary = 0 /\ tip = 0
    /\ window = 0 /\ covered = -1 /\ todo = {} /\ failed = {} /\ unsettled = {}
    /\ busy = NoOwner

Network ==
    /\ \/ Mine
       \/ \E t \in Tx : Reorg(t)
       \/ Finalize /\ (PromptStart /\ pc = "boundary" => fin < started)
    /\ UNCHANGED <<storeVars, passVars>>

Progress ==
    \/ StartPass \/ ReadBoundary \/ ReadTip \/ ScanTokens \/ ScanNative
    \/ \E o \in todo : RecordFinal(o) \/ RecordPreview(o)
    \/ BeginSettle
    \/ \E w \in Owner : DeleteUnfinalized(w) \/ ApplyFinalized(w)
    \/ SaveCursor \/ PreviewTokens \/ PreviewNative \/ EndPass

Trouble ==
    \/ NarrowWindow
    \/ \E o \in todo : RecordFails(o)
    \/ \E w \in Owner : SettleFails(w)
    \/ Abandon

Next ==
    \/ Network
    \/ \E a \in Address : Bind(a)
    \/ Progress
    \/ Trouble

Spec == Init /\ [][Next]_vars

(***************************************************************************)
(* Properties.                                                             *)
(***************************************************************************)
\* A leg is folded into the balance exactly as often as its row says, never
\* twice, and only when its transfer succeeded in a block that can no longer
\* be reorganized (apply_finalized; ADR-0021 calls the opposite "the worst
\* error class for a payment gateway").
CreditIsFinal ==
    \A l \in Leg :
        /\ credit[l] = IF rows[l].applied THEN 1 ELSE 0
        /\ credit[l] # 0 => IsFinal(l[1]) /\ chain[l[1]].ok

\* What the finalized marker says is what the chain says: same block, same
\* outcome, although the row may have been stored before a reorganization.
FinalRowIsTrue ==
    \A l \in Leg : rows[l].final =>
        IsFinal(l[1]) /\ rows[l].blk = chain[l[1]].at /\ rows[l].ok = chain[l[1]].ok

\* A leg of an address that was bound before the block was mined.
Due(l) ==
    /\ AddressOf(l) \in Address
    /\ bound[AddressOf(l)] # Unbound
    /\ bound[AddressOf(l)] < chain[l[1]].at

\* A leg the gateway answers for: due, and not older than the tracking of the
\* network, which starts at the boundary of the first completed pass for native
\* transfers and reaches back by the overlap for tokens.
Owed(l) ==
    /\ Stored /\ Due(l)
    /\ IF l[1] \in Token THEN origin.time <= chain[l[1]].at ELSE origin.block < chain[l[1]].at

\* The block cursor marks proven completeness: every native leg owed up to it
\* is stored as final, whatever owners' databases, short answers and
\* interrupted passes did meanwhile.  No later pass asks for these blocks again.
NativeComplete ==
    \A l \in Native \X Direction :
        Owed(l) /\ chain[l[1]].at <= cursor.block => rows[l].final

\* The token cursor with its overlap marks completeness: every token leg owed
\* from a time no later pass will ask for is stored as final.
TokenComplete ==
    \A l \in Token \X Direction :
        Owed(l) /\ chain[l[1]].at < cursor.time - Overlap => rows[l].final

\* A failing owner costs nobody else anything: an owner about to be settled has
\* every native leg of the scanned range stored as final, whoever failed before
\* (ADR-0007: one database does not stop the pass for the others).
OthersAreServed ==
    pc = "settle" =>
        \A w \in unsettled : \A l \in LegsOf(w) :
            (/\ l[1] \in Native /\ AddressOf(l) \in index
             /\ FinalStart <= chain[l[1]].at /\ chain[l[1]].at <= covered)
                => rows[l].final

\* What is stored as final is never deleted, re-dated or judged anew; the one
\* change it may still see is being applied.
FinalIsForever ==
    [][\A l \in Leg : rows[l].final =>
          rows'[l] \in {rows[l], [rows[l] EXCEPT !.applied = TRUE]}]_vars

\* A pending row of an owed transfer that became final in the block the row
\* names is promoted, never cleaned up as the victim of a reorganization.
FinalPaymentNeverVanishes ==
    [][\A l \in Leg :
          (/\ HasRow(l) /\ Owed(l) /\ IsFinal(l[1])
           /\ rows[l].blk = chain[l[1]].at) => rows'[l] # NoRow]_vars

=============================================================================

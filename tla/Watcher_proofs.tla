---------------------------- MODULE Watcher_proofs ----------------------------
(***************************************************************************)
(* Theorems about Watcher, for every set of owners, addresses and          *)
(* transfers and every value of the settings.                              *)
(***************************************************************************)
EXTENDS WatcherLedger, TLAPS

USE ChainAssumption, WatcherAssumption DEF Block

\* A leg names a transfer.
LEMMA LegHasTransfer == \A l \in Leg : l[1] \in Tx /\ l[2] \in Direction
  BY DEF Leg

\* Applying a row touches its marker only.
LEMMA ApplyingRow ==
  ASSUME NEW r \in Row, NEW s, s = [r EXCEPT !.applied = TRUE]
  PROVE  s \in Row /\ s.blk = r.blk /\ s.ok = r.ok /\ s.final = r.final /\ s.applied
BY DEF Row

LEMMA InitType == Init => TypeOK
  BY DEF Init, ChainInit, TypeOK, ChainTypeOK, Place, OffChain, Row, NoRow, NoCursor, Step

\* What the provider's answer is matched to is a set of observations.
LEMMA MatchedType ==
  ASSUME TypeOK, NEW S \in SUBSET Tx
  PROVE  Matched(S) \subseteq Observation
  BY DEF Matched, Observation, Tracked, Leg, TypeOK, ChainTypeOK, Place

LEMMA NetworkType == TypeOK /\ Network => TypeOK'
<1> SUFFICES ASSUME TypeOK, Network PROVE TypeOK'
  OBVIOUS
<1>1. UNCHANGED <<storeVars, passVars>>
  BY DEF Network
<1>2. ChainTypeOK'
  <2> USE DEF TypeOK, ChainTypeOK, Place
  <2>1. CASE Mine
    BY <2>1 DEF Mine
  <2>2. ASSUME NEW t \in Tx, Reorg(t) PROVE ChainTypeOK'
    BY <2>2 DEF Reorg
  <2>3. CASE Finalize
    BY <2>3 DEF Finalize
  <2> QED
    BY <2>1, <2>2, <2>3 DEF Network
<1> QED
  BY <1>1, <1>2 DEF TypeOK, storeVars, passVars

LEMMA PassType ==
  ASSUME TypeOK, UNCHANGED chainVars,
         \/ StartPass \/ ReadBoundary \/ ReadTip \/ NarrowWindow \/ BeginSettle
         \/ EndPass \/ Abandon \/ SaveCursor
  PROVE  TypeOK'
<1> USE DEF TypeOK, ChainTypeOK, chainVars, storeVars, Step
<1>1. CASE StartPass
  BY <1>1 DEF StartPass
<1>2. CASE ReadBoundary
  BY <1>2 DEF ReadBoundary, Seen
<1>3. CASE ReadTip
  BY <1>3 DEF ReadTip, Seen
<1>4. CASE NarrowWindow
  BY <1>4 DEF NarrowWindow, Larger
<1>5. CASE BeginSettle
  BY <1>5 DEF BeginSettle
<1>6. CASE EndPass
  BY <1>6 DEF EndPass, Forget
<1>7. CASE Abandon
  BY <1>7 DEF Abandon, Forget
<1>8. CASE SaveCursor
  BY <1>8 DEF SaveCursor, NextTime, TokenUntil, TokenSince, TokenCursor, SinceDefault
<1> QED
  BY <1>1, <1>2, <1>3, <1>4, <1>5, <1>6, <1>7, <1>8

LEMMA OnChainType ==
  ASSUME NEW S \in SUBSET Tx, NEW lo, NEW hi
  PROVE  OnChain(S, lo, hi) \subseteq S
  BY DEF OnChain

LEMMA ScanType ==
  ASSUME TypeOK, UNCHANGED chainVars,
         ScanTokens \/ ScanNative \/ PreviewTokens \/ PreviewNative
  PROVE  TypeOK'
<1> USE DEF TypeOK, ChainTypeOK, chainVars, storeVars, Step
<1>t. Token \in SUBSET Tx /\ Native \in SUBSET Tx
  BY DEF Native
<1>1. CASE ScanTokens
  <2>1. todo' \subseteq Observation
    BY <1>1, <1>t, MatchedType, OnChainType DEF ScanTokens
  <2> QED
    BY <1>1, <2>1 DEF ScanTokens
<1>2. CASE ScanNative
  <2>1. todo' \subseteq Observation
    BY <1>2, <1>t, MatchedType, OnChainType DEF ScanNative
  <2>2. covered' \in {-1} \cup Block
    BY <1>2 DEF ScanNative, Coverage, FinalStart, FinalEnd, Smaller
  <2> QED
    BY <1>2, <2>1, <2>2 DEF ScanNative
<1>3. CASE PreviewTokens
  <2>1. todo' \subseteq Observation
    BY <1>3, <1>t, MatchedType, OnChainType DEF PreviewTokens
  <2> QED
    BY <1>3, <2>1 DEF PreviewTokens
<1>4. CASE PreviewNative
  <2>1. todo' \subseteq Observation
    BY <1>4, <1>t, MatchedType, OnChainType DEF PreviewNative
  <2> QED
    BY <1>4, <2>1 DEF PreviewNative
<1> QED
  BY <1>1, <1>2, <1>3, <1>4

LEMMA RecordType ==
  ASSUME TypeOK, UNCHANGED chainVars, NEW o \in todo,
         RecordFinal(o) \/ RecordPreview(o) \/ RecordFails(o)
  PROVE  TypeOK'
<1> USE DEF TypeOK, ChainTypeOK, chainVars, storeVars, Step
<1>o. /\ o \in Observation /\ o.leg \in Leg /\ rows[o.leg] \in Row
      /\ OwnerOf[AddressOf(o.leg)] \in Owner
  BY DEF Observation, Tracked
<1>1. CASE RecordFinal(o)
  <2>1. Promoted(rows[o.leg], o) \in Row
    BY <1>o DEF Promoted, Row, Observation
  <2> QED
    BY <1>1, <1>o, <2>1 DEF RecordFinal
<1>2. CASE RecordPreview(o)
  <2>1. Previewed(rows[o.leg], o) \in Row
    BY <1>o DEF Previewed, Row, Observation
  <2> QED
    BY <1>2, <1>o, <2>1 DEF RecordPreview
<1>3. CASE RecordFails(o)
  BY <1>3, <1>o DEF RecordFails, OfOthers
<1> QED
  BY <1>1, <1>2, <1>3

LEMMA SettleType ==
  ASSUME TypeOK, UNCHANGED chainVars, NEW w \in Owner,
         DeleteUnfinalized(w) \/ ApplyFinalized(w) \/ SettleFails(w)
  PROVE  TypeOK'
<1> USE DEF TypeOK, ChainTypeOK, chainVars, storeVars, Step
<1>1. CASE DeleteUnfinalized(w)
  <2>1. rows' \in [Leg -> Row]
    BY <1>1 DEF DeleteUnfinalized, NoRow, Row
  <2> QED
    BY <1>1, <2>1 DEF DeleteUnfinalized
<1>2. CASE ApplyFinalized(w)
  <2>1. rows' \in [Leg -> Row]
    <3>1. /\ rows' = [l \in Leg |-> IF l \in Applicable(w)
                                   THEN [rows[l] EXCEPT !.applied = TRUE] ELSE rows[l]]
          /\ rows \in [Leg -> Row]
      BY <1>2 DEF ApplyFinalized
    <3>2. \A l \in Leg : [rows[l] EXCEPT !.applied = TRUE] \in Row
      BY <3>1, ApplyingRow
    <3> QED
      BY <3>1, <3>2
  <2>2. credit' \in [Leg -> Nat]
    BY <1>2 DEF ApplyFinalized
  <2> QED
    BY <1>2, <2>1, <2>2 DEF ApplyFinalized
<1>3. CASE SettleFails(w)
  BY <1>3 DEF SettleFails
<1> QED
  BY <1>1, <1>2, <1>3

LEMMA StepType == TypeOK /\ [Next]_vars => TypeOK'
<1> SUFFICES ASSUME TypeOK, [Next]_vars PROVE TypeOK'
  OBVIOUS
<1>1. CASE Network
  BY <1>1, NetworkType
<1>2. ASSUME NEW a \in Address, Bind(a) PROVE TypeOK'
  BY <1>2 DEF Bind, TypeOK, ChainTypeOK, chainVars, passVars
<1>3. CASE Progress
  BY <1>3, PassType, ScanType, RecordType, SettleType
     DEF Progress, StartPass, ReadBoundary, ReadTip, ScanTokens, ScanNative, RecordFinal,
         RecordPreview, BeginSettle, DeleteUnfinalized, ApplyFinalized, SaveCursor,
         PreviewTokens, PreviewNative, EndPass
<1>4. CASE Trouble
  BY <1>4, PassType, RecordType, SettleType
     DEF Trouble, NarrowWindow, RecordFails, SettleFails, Abandon
<1>5. CASE UNCHANGED vars
  BY <1>5 DEF vars, chainVars, storeVars, passVars, TypeOK, ChainTypeOK
<1> QED
  BY <1>1, <1>2, <1>3, <1>4, <1>5 DEF Next

\* Every reachable state has the types the storage schema and the pass's own
\* variables are meant to have; in particular the cursor never names a block the
\* network does not have.
THEOREM TypeCorrect == Spec => []TypeOK
<1>1. Init => TypeOK
  BY InitType
<1>2. TypeOK /\ [Next]_vars => TypeOK'
  BY StepType
<1> QED
  BY <1>1, <1>2, PTL DEF Spec

(***************************************************************************)
(* Only what is final is credited.  CreditIsFinal and FinalRowIsTrue are   *)
(* not inductive: they rest on the boundary a pass holds still being final *)
(* and on the answers it has fetched but not yet recorded being true.      *)
(***************************************************************************)
AnswersAreFinal ==
    pc \in {"native", "record"} =>
        \A o \in todo : /\ IsFinal(o.leg[1])
                        /\ o.blk = chain[o.leg[1]].at /\ o.ok = chain[o.leg[1]].ok

AppliedAreFinal == \A l \in Leg : rows[l].applied => rows[l].final /\ rows[l].ok
CreditMatches == \A l \in Leg : credit[l] = IF rows[l].applied THEN 1 ELSE 0

FinalInv ==
    /\ boundary <= fin
    /\ AnswersAreFinal
    /\ FinalRowIsTrue
    /\ AppliedAreFinal
    /\ CreditMatches

\* Whatever the network does, it leaves the final part of the chain alone and
\* adds nothing to it.
LEMMA ChainIsStable ==
  ASSUME TypeOK, Network
  PROVE  /\ fin <= fin' /\ head <= head'
         /\ \A t \in Tx : IsFinal(t) => chain'[t] = chain[t] /\ IsFinal(t)'
         /\ \A t \in Tx : chain'[t].at <= fin => chain'[t] = chain[t] \/ chain'[t].at = 0
<1> USE DEF TypeOK, ChainTypeOK, Place, IsFinal
<1>1. CASE Mine
  BY <1>1 DEF Mine
<1>2. ASSUME NEW t \in Tx, Reorg(t)
      PROVE  /\ fin' = fin /\ head' = head
             /\ \A u \in Tx : IsFinal(u) => chain'[u] = chain[u] /\ IsFinal(u)'
             /\ \A u \in Tx : chain'[u].at <= fin => chain'[u] = chain[u] \/ chain'[u].at = 0
  BY <1>2 DEF Reorg, OffChain
<1>3. CASE Finalize
  BY <1>3 DEF Finalize
<1> QED
  BY <1>1, <1>2, <1>3 DEF Network

\* What the authoritative requests are matched to is true for good.
LEMMA MatchedIsTrue ==
  ASSUME TypeOK, NEW S \in SUBSET Tx, \A t \in S : IsFinal(t)
  PROVE  \A o \in Matched(S) : /\ IsFinal(o.leg[1])
                               /\ o.blk = chain[o.leg[1]].at /\ o.ok = chain[o.leg[1]].ok
  BY DEF Matched

LEMMA InitFinal == Init => FinalInv
  BY DEF Init, ChainInit, FinalInv, AnswersAreFinal, FinalRowIsTrue, AppliedAreFinal,
         CreditMatches, NoRow

\* Storing an answer that is true, or any observation as provisional, keeps what
\* is final true and what is applied final.
LEMMA RecordFinalInv ==
  ASSUME TypeOK, FinalInv, UNCHANGED chainVars, NEW o \in todo,
         RecordFinal(o) \/ RecordPreview(o) \/ RecordFails(o)
  PROVE  FinalInv'
<1> USE DEF TypeOK, ChainTypeOK, chainVars, storeVars, FinalInv, IsFinal
<1>o. /\ o.leg \in Leg /\ rows[o.leg] \in Row
      /\ o.blk \in Block /\ o.ok \in BOOLEAN
  BY DEF Observation, Tracked
<1>1. CASE RecordFinal(o)
  <2>1. /\ rows' = [rows EXCEPT ![o.leg] = Promoted(rows[o.leg], o)]
        /\ todo' \subseteq todo /\ pc = "record"
        /\ UNCHANGED <<chain, fin, boundary, credit, pc>>
    BY <1>1 DEF RecordFinal
  <2>2. IsFinal(o.leg[1]) /\ o.blk = chain[o.leg[1]].at /\ o.ok = chain[o.leg[1]].ok
    BY <2>1 DEF AnswersAreFinal
  <2>3. AnswersAreFinal'
    BY <2>1 DEF AnswersAreFinal
  <2>4. FinalRowIsTrue'
    BY <1>o, <2>1, <2>2 DEF FinalRowIsTrue, Promoted
  <2>5. AppliedAreFinal'
    BY <1>o, <2>1 DEF AppliedAreFinal, Promoted
  <2>6. CreditMatches'
    BY <1>o, <2>1 DEF CreditMatches, Promoted
  <2> QED
    BY <2>1, <2>3, <2>4, <2>5, <2>6
<1>2. CASE RecordPreview(o)
  <2>1. /\ rows' = [rows EXCEPT ![o.leg] = Previewed(rows[o.leg], o)]
        /\ pc' = "previewRecord"
        /\ UNCHANGED <<chain, fin, boundary, credit>>
    BY <1>2 DEF RecordPreview
  <2>2. FinalRowIsTrue'
    BY <1>o, <2>1 DEF FinalRowIsTrue, Previewed
  <2>3. AppliedAreFinal'
    BY <1>o, <2>1 DEF AppliedAreFinal, Previewed
  <2>4. rows[o.leg].applied => rows[o.leg].blk # 0
    BY <1>o DEF AppliedAreFinal, FinalRowIsTrue
  <2>5. CreditMatches'
    BY <1>o, <2>1, <2>4 DEF CreditMatches, Previewed
  <2> QED
    BY <2>1, <2>2, <2>3, <2>5 DEF AnswersAreFinal
<1>3. CASE RecordFails(o)
  BY <1>3 DEF RecordFails, OfOthers, AnswersAreFinal, FinalRowIsTrue, AppliedAreFinal,
              CreditMatches
<1> QED
  BY <1>1, <1>2, <1>3

\* Cleaning spares final and applied rows; applying counts a final row once.
LEMMA SettleFinalInv ==
  ASSUME TypeOK, FinalInv, UNCHANGED chainVars, NEW w \in Owner,
         DeleteUnfinalized(w) \/ ApplyFinalized(w) \/ SettleFails(w)
  PROVE  FinalInv'
<1> USE DEF TypeOK, ChainTypeOK, chainVars, storeVars, FinalInv, IsFinal
<1>0. boundary' <= fin' /\ AnswersAreFinal'
  BY DEF DeleteUnfinalized, ApplyFinalized, SettleFails, AnswersAreFinal
<1>1. CASE DeleteUnfinalized(w)
  <2>1. /\ UNCHANGED <<chain, fin, credit>>
        /\ rows' = [l \in Leg |-> IF l \in Removable(w) THEN NoRow ELSE rows[l]]
    BY <1>1 DEF DeleteUnfinalized
  <2>2. \A l \in Removable(w) : ~rows[l].final /\ ~rows[l].applied
    BY DEF Removable
  <2>3. ASSUME NEW l \in Leg
        PROVE  rows'[l] = rows[l] \/ (rows'[l] = NoRow /\ ~rows[l].final /\ ~rows[l].applied)
    <3>1. CASE l \in Removable(w)
      BY <2>1, <2>2, <3>1
    <3>2. CASE l \notin Removable(w)
      BY <2>1, <3>2
    <3> QED
      BY <3>1, <3>2
  <2> QED
    BY <1>0, <2>1, <2>3 DEF FinalRowIsTrue, AppliedAreFinal, CreditMatches, NoRow
<1>2. CASE ApplyFinalized(w)
  <2>1. /\ UNCHANGED <<chain, fin>>
        /\ rows' = [l \in Leg |-> IF l \in Applicable(w)
                                  THEN [rows[l] EXCEPT !.applied = TRUE] ELSE rows[l]]
        /\ credit' = [l \in Leg |-> IF l \in Applicable(w) THEN credit[l] + 1 ELSE credit[l]]
    BY <1>2 DEF ApplyFinalized
  <2>2. \A l \in Applicable(w) : rows[l].final /\ rows[l].ok /\ ~rows[l].applied
    BY DEF Applicable
  <2>3. \A l \in Leg : /\ rows'[l].blk = rows[l].blk /\ rows'[l].ok = rows[l].ok
                        /\ rows'[l].final = rows[l].final
                        /\ rows'[l].applied = (rows[l].applied \/ l \in Applicable(w))
    <3>1. ASSUME NEW l \in Leg, l \in Applicable(w)
          PROVE  /\ rows'[l].blk = rows[l].blk /\ rows'[l].ok = rows[l].ok
                 /\ rows'[l].final = rows[l].final /\ rows'[l].applied
      BY <2>1, <3>1, ApplyingRow
    <3>2. ASSUME NEW l \in Leg, l \notin Applicable(w)
          PROVE  rows'[l] = rows[l]
      BY <2>1, <3>2
    <3>3. \A l \in Leg : rows[l].applied \in BOOLEAN
      BY DEF Row
    <3> QED
      BY <3>1, <3>2, <3>3
  <2>4. FinalRowIsTrue'
    BY <2>1, <2>3 DEF FinalRowIsTrue
  <2>5. AppliedAreFinal'
    BY <2>2, <2>3 DEF AppliedAreFinal
  <2>6. ASSUME NEW l \in Leg PROVE credit'[l] = IF rows'[l].applied THEN 1 ELSE 0
    <3>1. CASE l \in Applicable(w)
      <4>1. credit'[l] = credit[l] + 1 /\ ~rows[l].applied /\ rows'[l].applied
        BY <2>1, <2>2, <2>3, <3>1
      <4>2. credit[l] = 0
        BY <4>1 DEF CreditMatches
      <4> QED
        BY <4>1, <4>2
    <3>2. CASE l \notin Applicable(w)
      <4>1. rows'[l] = rows[l] /\ credit'[l] = credit[l]
        BY <2>1, <3>2
      <4> QED
        BY <4>1 DEF CreditMatches
    <3> QED
      BY <3>1, <3>2
  <2> QED
    BY <1>0, <2>4, <2>5, <2>6 DEF CreditMatches
<1>3. CASE SettleFails(w)
  BY <1>0, <1>3 DEF SettleFails, FinalRowIsTrue, AppliedAreFinal, CreditMatches
<1> QED
  BY <1>1, <1>2, <1>3

\* The requests: a pass that fetches anything fetches it from the final zone.
LEMMA ScanFinalInv ==
  ASSUME TypeOK, FinalInv, UNCHANGED chainVars,
         ScanTokens \/ ScanNative \/ PreviewTokens \/ PreviewNative
  PROVE  FinalInv'
<1> USE DEF TypeOK, ChainTypeOK, Place, chainVars, storeVars, FinalInv, IsFinal
<1>0. /\ UNCHANGED <<chain, fin, rows, credit>>
      /\ boundary' <= fin'
  BY DEF ScanTokens, ScanNative, PreviewTokens, PreviewNative
<1>r. FinalRowIsTrue' /\ AppliedAreFinal' /\ CreditMatches'
  BY <1>0 DEF FinalRowIsTrue, AppliedAreFinal, CreditMatches
<1>1. CASE ScanTokens
  <2>1. PICK f \in Seen(fin) :
           todo' = Matched(OnChain(Token, TokenSince,
                                   IF CaughtUp THEN f ELSE Smaller(f, TokenUntil)))
    BY <1>1 DEF ScanTokens
  <2> DEFINE S == OnChain(Token, TokenSince, IF CaughtUp THEN f ELSE Smaller(f, TokenUntil))
  <2>2. S \in SUBSET Tx /\ \A t \in S : IsFinal(t)
    BY <2>1 DEF OnChain, Seen, Smaller, TokenUntil, TokenCursor, SinceDefault
  <2> HIDE DEF S
  <2>3. \A o \in todo' : /\ IsFinal(o.leg[1])
                         /\ o.blk = chain[o.leg[1]].at /\ o.ok = chain[o.leg[1]].ok
    BY <2>1, <2>2, MatchedIsTrue DEF S
  <2> QED
    BY <1>0, <1>r, <2>3 DEF AnswersAreFinal
<1>2. CASE ScanNative
  <2> DEFINE S == OnChain(Native, FinalStart, Smaller(FinalEnd, covered'))
  <2>1. todo' = todo \cup Matched(S) /\ pc = "native" /\ covered' \in Coverage
    BY <1>2 DEF ScanNative
  <2>2. S \in SUBSET Tx /\ \A t \in S : IsFinal(t)
    BY <2>1, StepType DEF OnChain, Native, Smaller, FinalEnd, FinalStart, Coverage
  <2> HIDE DEF S
  <2>3. \A o \in todo' : /\ IsFinal(o.leg[1])
                         /\ o.blk = chain[o.leg[1]].at /\ o.ok = chain[o.leg[1]].ok
    BY <2>1, <2>2, MatchedIsTrue DEF AnswersAreFinal
  <2> QED
    BY <1>0, <1>r, <2>3 DEF AnswersAreFinal
<1>3. CASE PreviewTokens \/ PreviewNative
  <2>1. pc' \notin {"native", "record"}
    BY <1>3 DEF PreviewTokens, PreviewNative
  <2> QED
    BY <1>0, <1>r, <2>1 DEF AnswersAreFinal
<1> QED
  BY <1>1, <1>2, <1>3

LEMMA PassFinalInv ==
  ASSUME TypeOK, FinalInv, UNCHANGED chainVars,
         \/ StartPass \/ ReadBoundary \/ ReadTip \/ NarrowWindow \/ BeginSettle
         \/ EndPass \/ Abandon \/ SaveCursor
  PROVE  FinalInv'
<1> USE DEF TypeOK, ChainTypeOK, chainVars, storeVars, FinalInv, IsFinal
<1>1. /\ UNCHANGED <<chain, fin, rows, credit>>
      /\ pc' \notin {"native", "record"}
      /\ boundary' \in {boundary, 0} \cup Seen(fin)
  BY DEF StartPass, ReadBoundary, ReadTip, NarrowWindow, BeginSettle, EndPass, Abandon,
         SaveCursor, Forget
<1>2. boundary' <= fin'
  BY <1>1 DEF Seen
<1> QED
  BY <1>1, <1>2 DEF AnswersAreFinal, FinalRowIsTrue, AppliedAreFinal, CreditMatches

LEMMA NetworkFinalInv == TypeOK /\ FinalInv /\ Network => FinalInv'
<1> SUFFICES ASSUME TypeOK, FinalInv, Network PROVE FinalInv'
  OBVIOUS
<1> USE DEF FinalInv
<1>1. UNCHANGED <<rows, credit, boundary, pc, todo>>
  BY DEF Network, storeVars, passVars
<1>2. boundary' <= fin'
  BY <1>1, ChainIsStable, NetworkType DEF TypeOK, ChainTypeOK
<1>3. AnswersAreFinal'
  BY <1>1, ChainIsStable, LegHasTransfer DEF AnswersAreFinal, TypeOK, Observation, Tracked
<1>4. FinalRowIsTrue'
  BY <1>1, ChainIsStable, LegHasTransfer DEF FinalRowIsTrue
<1> QED
  BY <1>1, <1>2, <1>3, <1>4 DEF AppliedAreFinal, CreditMatches

LEMMA StepFinal == TypeOK /\ FinalInv /\ [Next]_vars => FinalInv'
<1> SUFFICES ASSUME TypeOK, FinalInv, [Next]_vars PROVE FinalInv'
  OBVIOUS
<1>1. CASE Network
  BY <1>1, NetworkFinalInv
<1>2. ASSUME NEW a \in Address, Bind(a) PROVE FinalInv'
  BY <1>2 DEF Bind, chainVars, passVars, FinalInv, AnswersAreFinal, FinalRowIsTrue, IsFinal,
              AppliedAreFinal, CreditMatches
<1>3. CASE Progress
  BY <1>3, PassFinalInv, ScanFinalInv, RecordFinalInv, SettleFinalInv
     DEF Progress, StartPass, ReadBoundary, ReadTip, ScanTokens, ScanNative, RecordFinal,
         RecordPreview, BeginSettle, DeleteUnfinalized, ApplyFinalized, SaveCursor,
         PreviewTokens, PreviewNative, EndPass
<1>4. CASE Trouble
  BY <1>4, PassFinalInv, RecordFinalInv, SettleFinalInv
     DEF Trouble, NarrowWindow, RecordFails, SettleFails, Abandon
<1>5. CASE UNCHANGED vars
  BY <1>5 DEF vars, chainVars, storeVars, passVars, FinalInv, AnswersAreFinal, FinalRowIsTrue,
              IsFinal, AppliedAreFinal, CreditMatches
<1> QED
  BY <1>1, <1>2, <1>3, <1>4, <1>5 DEF Next

LEMMA FinalInvHolds == Spec => [](TypeOK /\ FinalInv)
<1>1. Init => TypeOK /\ FinalInv
  BY InitType, InitFinal
<1>2. TypeOK /\ FinalInv /\ [Next]_vars => (TypeOK /\ FinalInv)'
  BY StepType, StepFinal
<1> QED
  BY <1>1, <1>2, PTL DEF Spec

\* A balance never counts a transfer that is not final and successful, and never
\* counts one twice, whatever is reorganized, interrupted or repeated.
THEOREM OnlyFinalIsCredited == Spec => []CreditIsFinal
<1>1. TypeOK /\ FinalInv => CreditIsFinal
  BY DEF TypeOK, FinalInv, CreditIsFinal, CreditMatches, AppliedAreFinal, FinalRowIsTrue
<1> QED
  BY <1>1, FinalInvHolds, PTL

\* A row marked final says of its transfer what the chain says of it for good.
THEOREM FinalRowsAreTrue == Spec => []FinalRowIsTrue
<1>1. TypeOK /\ FinalInv => FinalRowIsTrue
  BY DEF FinalInv
<1> QED
  BY <1>1, FinalInvHolds, PTL

\* The only steps that touch a final row: recording, cleaning and applying.
LEMMA StepKeepsFinal ==
  ASSUME TypeOK, FinalInv, [Next]_vars, NEW l \in Leg, rows[l].final
  PROVE  rows'[l] \in {rows[l], [rows[l] EXCEPT !.applied = TRUE]}
<1> USE DEF TypeOK
<1>1. ASSUME NEW o \in todo, RecordFinal(o) PROVE rows'[l] = rows[l]
  <2>1. o.leg \in Leg
    BY DEF Observation, Tracked
  <2>2. rows' = [rows EXCEPT ![o.leg] = Promoted(rows[o.leg], o)]
    BY <1>1 DEF RecordFinal
  <2> QED
    BY <2>1, <2>2 DEF Promoted
<1>2. ASSUME NEW o \in todo, RecordPreview(o) PROVE rows'[l] = rows[l]
  <2>1. o.leg \in Leg
    BY DEF Observation, Tracked
  <2>2. rows' = [rows EXCEPT ![o.leg] = Previewed(rows[o.leg], o)]
    BY <1>2 DEF RecordPreview
  <2>3. rows[l].blk # 0
    BY LegHasTransfer DEF FinalInv, FinalRowIsTrue, IsFinal
  <2> QED
    BY <2>1, <2>2, <2>3 DEF Previewed
<1>3. ASSUME NEW w \in Owner, DeleteUnfinalized(w) PROVE rows'[l] = rows[l]
  <2>1. l \notin Removable(w)
    BY DEF Removable
  <2> QED
    BY <1>3, <2>1 DEF DeleteUnfinalized
<1>4. ASSUME NEW w \in Owner, ApplyFinalized(w)
      PROVE  rows'[l] \in {rows[l], [rows[l] EXCEPT !.applied = TRUE]}
  BY <1>4 DEF ApplyFinalized
<1>5. CASE UNCHANGED rows
  BY <1>5
<1> QED
  BY <1>1, <1>2, <1>3, <1>4, <1>5
     DEF Next, vars, storeVars, Network, Bind, Progress, Trouble, StartPass, ReadBoundary,
         ReadTip, ScanTokens, ScanNative, BeginSettle, SaveCursor, PreviewTokens,
         PreviewNative, EndPass, NarrowWindow, RecordFails, SettleFails, Abandon

\* What is stored as final is never deleted, re-dated or judged anew, by whatever
\* interleaving of the pass, the chain and the failures.
THEOREM FinalRowsStay == Spec => FinalIsForever
<1>1. TypeOK /\ FinalInv /\ [Next]_vars =>
        [\A l \in Leg : rows[l].final =>
            rows'[l] \in {rows[l], [rows[l] EXCEPT !.applied = TRUE]}]_vars
  BY StepKeepsFinal
<1> QED
  BY <1>1, FinalInvHolds, PTL DEF Spec, FinalIsForever

(***************************************************************************)
(* Completeness.  What makes a cursor's promise true is settled while the  *)
(* pass is still under way: the index knows every address bound before the *)
(* pass began, the answers of the scanned ranges are on their way into the *)
(* databases, and the range ends where the chain can no longer change.     *)
(***************************************************************************)
\* The awaits of the first phase, and those after the token request.
Scanning == pc \in {"boundary", "tip", "tokens", "native", "record", "settle"}
Holding == pc \in {"native", "record", "settle"}

\* The numbers a pass works with, whatever the settings.
BoundsInv ==
    /\ head <= fin + Lag
    /\ started <= head
    /\ Stored => 0 <= cursor.block /\ cursor.block <= fin /\ cursor.time <= head
    /\ Scanning /\ Stored => cursor.block <= started /\ cursor.time <= started
    /\ pc \in {"record", "settle"} =>
          /\ 0 <= covered
          /\ covered <= boundary \/ (Stored /\ covered = cursor.block)
    /\ unsettled \cap failed = {}
    /\ pc # "settle" => unsettled = {}

\* A leg the pass is responsible for, and one that is stored for good or will be
\* by the time the pass settles.
Wanted(l) == AddressOf(l) \in index /\ OwnerOf[AddressOf(l)] \notin failed
Kept(l) == rows[l].final \/ (pc # "settle" /\ \E o \in todo : o.leg = l)

NativeZone(l) ==
    l[1] \in Native /\ FinalStart <= chain[l[1]].at /\ chain[l[1]].at <= covered
TokenZone(l) ==
    /\ l[1] \in Token /\ chain[l[1]].at # 0
    /\ TokenSince <= chain[l[1]].at /\ chain[l[1]].at < NextTime - Overlap
TokenEdge(l) ==
    /\ l[1] \in Token /\ chain[l[1]].at # 0 /\ CaughtUp
    /\ TokenSince <= chain[l[1]].at
    /\ chain[l[1]].at <= boundary \/ (Stored /\ chain[l[1]].at <= cursor.block)

NativeHeld ==
    pc \in {"record", "settle"} =>
        \A l \in Leg : Wanted(l) /\ NativeZone(l) => Kept(l)
TokenHeld == Holding => \A l \in Leg : Wanted(l) /\ TokenZone(l) => Kept(l)
EdgeHeld == Holding => \A l \in Leg : Wanted(l) /\ TokenEdge(l) => Kept(l)

\* With every owner's database readable at the start of the pass, the addresses
\* the pass does not know were bound since.
IndexInv ==
    Scanning => \A a \in Address :
        bound[a] # Unbound /\ a \notin index => started <= bound[a]

\* With a prompt start nothing mined since the pass began lies below its boundary.
PromptInv ==
    /\ pc = "boundary" => fin <= started
    /\ Scanning /\ pc # "boundary" => boundary <= started

LEMMA InitBounds == Init => BoundsInv
  BY DEF Init, ChainInit, BoundsInv, Stored, Scanning

LEMMA NetworkBounds == TypeOK /\ BoundsInv /\ Network => BoundsInv'
<1> SUFFICES ASSUME TypeOK, BoundsInv, Network PROVE BoundsInv'
  OBVIOUS
<1>1. UNCHANGED <<cursor, pc, started, boundary, covered, failed, unsettled>>
  BY DEF Network, storeVars, passVars
<1>2. /\ fin <= fin' /\ head <= head' /\ head' <= fin' + Lag
      /\ {fin, fin', head, head', started, cursor.block, cursor.time} \subseteq Int
  BY DEF Network, Mine, Reorg, Finalize, TypeOK, ChainTypeOK, BoundsInv
<1>3. (Stored <=> Stored') /\ (Scanning <=> Scanning')
  BY <1>1 DEF Stored, Scanning
<1>4. started <= head /\ (Stored => cursor.block <= fin /\ cursor.time <= head)
  BY DEF BoundsInv
<1>5. started' <= head' /\ (Stored' => cursor'.block <= fin' /\ cursor'.time <= head')
  <2>1. \A x \in Int : (x <= head => x <= head') /\ (x <= fin => x <= fin')
    BY <1>2
  <2> HIDE DEF Block
  <2> QED
    BY <1>1, <1>2, <1>3, <1>4, <2>1
<1> QED
  BY <1>1, <1>2, <1>3, <1>5 DEF BoundsInv

LEMMA PassBounds ==
  ASSUME TypeOK, FinalInv, BoundsInv, UNCHANGED chainVars,
         \/ StartPass \/ ReadBoundary \/ ReadTip \/ NarrowWindow \/ BeginSettle
         \/ EndPass \/ Abandon \/ SaveCursor
  PROVE  BoundsInv'
<1> USE DEF TypeOK, ChainTypeOK, chainVars, storeVars, BoundsInv, Stored, Scanning
<1>1. CASE StartPass
  BY <1>1 DEF StartPass
<1>2. CASE ReadBoundary
  BY <1>2 DEF ReadBoundary
<1>3. CASE ReadTip
  BY <1>3 DEF ReadTip
<1>4. CASE NarrowWindow
  BY <1>4 DEF NarrowWindow
<1>5. CASE BeginSettle
  BY <1>5 DEF BeginSettle
<1>6. CASE EndPass
  BY <1>6 DEF EndPass, Forget
<1>7. CASE Abandon
  BY <1>7 DEF Abandon, Forget
<1>8. CASE SaveCursor
  <2>1. NextTime \in Int /\ NextTime <= started
    BY DEF NextTime, CaughtUp, TokenUntil, TokenCursor, SinceDefault
  <2>2. 0 <= covered /\ covered <= fin
    BY <1>8 DEF SaveCursor, FinalInv
  <2>3. UNCHANGED <<chain, head, fin, failed, unsettled>> /\ pc' = "preview" /\ started' = 0
        /\ unsettled = {}
    BY <1>8 DEF SaveCursor
  <2>4. cursor' = cursor \/ cursor' = [block |-> covered, time |-> NextTime]
    BY <1>8 DEF SaveCursor
  <2> QED
    BY <2>1, <2>2, <2>3, <2>4
<1> QED
  BY <1>1, <1>2, <1>3, <1>4, <1>5, <1>6, <1>7, <1>8

\* The native scan never reports to cover more than the boundary or, without a
\* range, what the cursor says already.
LEMMA CoverageBounds ==
  ASSUME TypeOK, BoundsInv, NEW c \in Coverage
  PROVE  0 <= c /\ (c <= boundary \/ (Stored /\ c = cursor.block))
  BY DEF TypeOK, BoundsInv, Coverage, FinalStart, FinalEnd, Smaller

LEMMA WorkBounds ==
  ASSUME TypeOK, FinalInv, BoundsInv, UNCHANGED chainVars,
         \/ ScanTokens \/ ScanNative \/ PreviewTokens \/ PreviewNative
         \/ \E o \in todo : RecordFinal(o) \/ RecordPreview(o) \/ RecordFails(o)
         \/ \E w \in Owner : DeleteUnfinalized(w) \/ ApplyFinalized(w) \/ SettleFails(w)
  PROVE  BoundsInv'
<1> USE DEF TypeOK, ChainTypeOK, chainVars, storeVars, BoundsInv, Stored, Scanning
<1>1. CASE ScanNative
  <2>1. 0 <= covered' /\ (covered' <= boundary \/ (Stored /\ covered' = cursor.block))
    BY <1>1, CoverageBounds DEF ScanNative
  <2> QED
    BY <1>1, <2>1 DEF ScanNative
<1>2. CASE ScanTokens \/ PreviewTokens \/ PreviewNative
  BY <1>2 DEF ScanTokens, PreviewTokens, PreviewNative
<1>3. CASE \E o \in todo : RecordFinal(o) \/ RecordPreview(o)
  BY <1>3 DEF RecordFinal, RecordPreview
<1>4. ASSUME NEW o \in todo, RecordFails(o) PROVE BoundsInv'
  BY <1>4 DEF RecordFails
<1>5. CASE \E w \in Owner : DeleteUnfinalized(w) \/ ApplyFinalized(w)
  BY <1>5 DEF DeleteUnfinalized, ApplyFinalized
<1>6. ASSUME NEW w \in Owner, SettleFails(w) PROVE BoundsInv'
  BY <1>6 DEF SettleFails
<1> QED
  BY <1>1, <1>2, <1>3, <1>4, <1>5, <1>6

\* Every step is the network's, a binding, a step between two awaits that fetch
\* nothing, one that fetches or stores, or no step at all.
LEMMA StepKinds ==
  ASSUME [Next]_vars
  PROVE  \/ Network
         \/ \E a \in Address : Bind(a)
         \/ UNCHANGED chainVars /\ (\/ StartPass \/ ReadBoundary \/ ReadTip \/ NarrowWindow
                                    \/ BeginSettle \/ EndPass \/ Abandon \/ SaveCursor)
         \/ UNCHANGED chainVars /\
              (\/ ScanTokens \/ ScanNative \/ PreviewTokens \/ PreviewNative
               \/ \E o \in todo : RecordFinal(o) \/ RecordPreview(o) \/ RecordFails(o)
               \/ \E w \in Owner : DeleteUnfinalized(w) \/ ApplyFinalized(w) \/ SettleFails(w))
         \/ UNCHANGED vars
<1>1. CASE Progress
  BY <1>1 DEF Progress, StartPass, ReadBoundary, ReadTip, ScanTokens, ScanNative, RecordFinal,
              RecordPreview, BeginSettle, DeleteUnfinalized, ApplyFinalized, SaveCursor,
              PreviewTokens, PreviewNative, EndPass
<1>2. CASE Trouble
  BY <1>2 DEF Trouble, NarrowWindow, RecordFails, SettleFails, Abandon
<1> QED
  BY <1>1, <1>2 DEF Next

LEMMA StepBounds == TypeOK /\ FinalInv /\ BoundsInv /\ [Next]_vars => BoundsInv'
<1> SUFFICES ASSUME TypeOK, FinalInv, BoundsInv, [Next]_vars PROVE BoundsInv'
  OBVIOUS
<1>1. ASSUME NEW a \in Address, Bind(a) PROVE BoundsInv'
  BY <1>1 DEF Bind, chainVars, passVars, BoundsInv, Stored, Scanning
<1>2. CASE UNCHANGED vars
  BY <1>2 DEF vars, chainVars, storeVars, passVars, BoundsInv, Stored, Scanning
<1> QED
  BY <1>1, <1>2, StepKinds, NetworkBounds, PassBounds, WorkBounds

\* A transfer in a block that is final after a step was in that block before it.
LEMMA FinalWasThere ==
  ASSUME TypeOK, [Next]_vars, NEW t \in Tx, chain'[t].at # 0, chain'[t].at <= fin
  PROVE  chain'[t] = chain[t]
<1>1. CASE Network
  BY <1>1, ChainIsStable
<1>2. CASE ~Network
  BY <1>2, StepKinds DEF Bind, vars, chainVars
<1> QED
  BY <1>1, <1>2

\* From one await after the token request to the next: what the pass reads is
\* fixed, owners only drop out, and what is covered is known from the native scan on.
LEMMA HoldingFrame ==
  ASSUME TypeOK, [Next]_vars, Holding, Holding'
  PROVE  /\ UNCHANGED <<cursor, boundary, started, window, index>>
         /\ failed \subseteq failed'
         /\ ~ScanNative => pc' = pc \/ (pc = "record" /\ pc' = "settle" /\ todo = {})
         /\ ~ScanNative => covered' = covered
<1> USE DEF Holding
<1>1. CASE Network
  BY <1>1 DEF Network, storeVars, passVars
<1>2. CASE \E a \in Address : Bind(a)
  BY <1>2 DEF Bind, passVars
<1>3. CASE \/ StartPass \/ ReadBoundary \/ ReadTip \/ NarrowWindow
           \/ BeginSettle \/ EndPass \/ Abandon \/ SaveCursor
  BY <1>3 DEF StartPass, ReadBoundary, ReadTip, NarrowWindow, BeginSettle, EndPass, Abandon,
              SaveCursor, Forget, storeVars
<1>4. CASE ScanTokens \/ ScanNative \/ PreviewTokens \/ PreviewNative
  BY <1>4 DEF ScanTokens, ScanNative, PreviewTokens, PreviewNative, storeVars
<1>5. CASE \E o \in todo : RecordFinal(o) \/ RecordPreview(o) \/ RecordFails(o)
  BY <1>5 DEF RecordFinal, RecordPreview, RecordFails, storeVars
<1>6. CASE \E w \in Owner : DeleteUnfinalized(w) \/ ApplyFinalized(w) \/ SettleFails(w)
  BY <1>6 DEF DeleteUnfinalized, ApplyFinalized, SettleFails, storeVars
<1>7. CASE UNCHANGED vars
  BY <1>7 DEF vars, storeVars, passVars
<1> QED
  BY <1>1, <1>2, <1>3, <1>4, <1>5, <1>6, <1>7, StepKinds

\* The only ways into the stretch in which answers are held.
LEMMA HoldingEntry ==
  ASSUME TypeOK, [Next]_vars, Holding'
  PROVE  /\ Holding \/ ScanTokens
         /\ pc' \in {"record", "settle"} => pc \in {"record", "settle"} \/ ScanNative
<1> USE DEF Holding
<1>1. CASE Network
  BY <1>1 DEF Network, storeVars, passVars
<1>2. CASE \E a \in Address : Bind(a)
  BY <1>2 DEF Bind, passVars
<1>3. CASE \/ StartPass \/ ReadBoundary \/ ReadTip \/ NarrowWindow
           \/ BeginSettle \/ EndPass \/ Abandon \/ SaveCursor
  BY <1>3 DEF StartPass, ReadBoundary, ReadTip, NarrowWindow, BeginSettle, EndPass, Abandon,
              SaveCursor, Forget, storeVars
<1>4. CASE ScanTokens \/ ScanNative \/ PreviewTokens \/ PreviewNative
  BY <1>4 DEF ScanTokens, ScanNative, PreviewTokens, PreviewNative, storeVars
<1>5. CASE \E o \in todo : RecordFinal(o) \/ RecordPreview(o) \/ RecordFails(o)
  BY <1>5 DEF RecordFinal, RecordPreview, RecordFails, storeVars
<1>6. CASE \E w \in Owner : DeleteUnfinalized(w) \/ ApplyFinalized(w) \/ SettleFails(w)
  BY <1>6 DEF DeleteUnfinalized, ApplyFinalized, SettleFails, storeVars
<1>7. CASE UNCHANGED vars
  BY <1>7 DEF vars, storeVars, passVars
<1> QED
  BY <1>1, <1>2, <1>3, <1>4, <1>5, <1>6, <1>7, StepKinds

\* What is stored for good stays so; an answer on its way is stored, unless its
\* owner drops out.
LEMMA KeptStays ==
  ASSUME TypeOK, FinalInv, [Next]_vars, Holding, Holding',
         NEW l \in Leg, Wanted(l)', Kept(l)
  PROVE  Kept(l)'
<1>1. ASSUME rows[l].final PROVE Kept(l)'
  <2>1. rows'[l] \in {rows[l], [rows[l] EXCEPT !.applied = TRUE]} /\ rows[l] \in Row
    BY <1>1, StepKeepsFinal DEF TypeOK
  <2> QED
    BY <1>1, <2>1, ApplyingRow DEF Kept
<1>2. ASSUME pc # "settle", NEW o \in todo, o.leg = l PROVE Kept(l)'
  <2>1. ASSUME NEW p \in todo, RecordFinal(p) PROVE Kept(l)'
    <3>1. CASE p = o
      <4>1. rows' = [rows EXCEPT ![l] = Promoted(rows[l], o)]
        BY <1>2, <2>1, <3>1 DEF RecordFinal
      <4>2. rows'[l] = Promoted(rows[l], o)
        BY <4>1 DEF TypeOK
      <4>3. Promoted(rows[l], o).final
        BY DEF Promoted
      <4> QED
        BY <4>2, <4>3 DEF Kept
    <3>2. CASE p # o
      <4>1. o \in todo' /\ pc' # "settle"
        BY <2>1, <3>2 DEF RecordFinal
      <4> QED
        BY <4>1, <1>2 DEF Kept
    <3> QED
      BY <3>1, <3>2
  <2>2. ASSUME NEW p \in todo, RecordFails(p) PROVE Kept(l)'
    <3>1. failed' = failed \cup {OwnerOf[AddressOf(p.leg)]} /\ pc' = pc
          /\ todo' = OfOthers(OwnerOf[AddressOf(p.leg)])
      BY <2>2 DEF RecordFails, Holding
    <3>2. OwnerOf[AddressOf(l)] # OwnerOf[AddressOf(p.leg)]
      BY <3>1 DEF Wanted, AddressOf
    <3> QED
      BY <1>2, <3>1, <3>2 DEF OfOthers, Kept
  <2>3. ASSUME todo \subseteq todo', pc' = pc \/ ScanNative PROVE Kept(l)'
    BY <1>2, <2>3 DEF Kept, ScanNative
  <2>4. CASE \/ StartPass \/ ReadBoundary \/ ReadTip \/ BeginSettle
             \/ EndPass \/ Abandon \/ SaveCursor
    BY <1>2, <2>4 DEF Holding, StartPass, ReadBoundary, ReadTip, BeginSettle, EndPass,
                      Abandon, SaveCursor, Forget
  <2>5. CASE ScanNative
    BY <2>3, <2>5 DEF ScanNative
  <2>6. CASE \/ ScanTokens \/ PreviewTokens \/ PreviewNative
             \/ \E p \in todo : RecordPreview(p)
    BY <2>6 DEF Holding, ScanTokens, PreviewTokens, PreviewNative, RecordPreview
  <2>7. CASE \/ Network \/ NarrowWindow \/ UNCHANGED vars
             \/ \E a \in Address : Bind(a)
             \/ \E w \in Owner : DeleteUnfinalized(w) \/ ApplyFinalized(w) \/ SettleFails(w)
    BY <2>3, <2>7 DEF Network, NarrowWindow, vars, passVars, Bind, DeleteUnfinalized,
                      ApplyFinalized, SettleFails
  <2> QED
    BY <2>1, <2>2, <2>4, <2>5, <2>6, <2>7, StepKinds
<1> QED
  BY <1>1, <1>2 DEF Kept

\* The answer to a request is held for every leg it is about.
LEMMA AnswerIsHeld ==
  ASSUME NEW S \in SUBSET Tx, NEW l \in Leg, l[1] \in S, Wanted(l)
  PROVE  \E o \in Matched(S) : o.leg = l
<1> DEFINE o == [leg |-> l, blk |-> chain[l[1]].at, ok |-> chain[l[1]].ok]
<1>1. l \in S \X Direction /\ l = <<l[1], l[2]>>
  BY DEF Leg
<1>2. o \in Matched(S)
  BY <1>1 DEF Matched, Wanted
<1> QED
  BY <1>2

LEMMA InitHeld == Init => NativeHeld /\ TokenHeld /\ EdgeHeld
  BY DEF Init, NativeHeld, TokenHeld, EdgeHeld, Holding

LEMMA StepNativeHeld ==
  ASSUME TypeOK, FinalInv, BoundsInv, NativeHeld, [Next]_vars
  PROVE  NativeHeld'
<1> SUFFICES ASSUME pc' \in {"record", "settle"}, NEW l \in Leg, Wanted(l)', NativeZone(l)'
             PROVE  Kept(l)'
  BY DEF NativeHeld
<1>0. Holding /\ Holding'
  BY HoldingEntry DEF Holding, ScanNative
<1>f. UNCHANGED <<cursor, boundary, started, window, index>> /\ failed \subseteq failed'
  BY <1>0, HoldingFrame
<1>w. Wanted(l)
  BY <1>f DEF Wanted, AddressOf
<1>t. l[1] \in Tx
  BY LegHasTransfer
<1>1. CASE ScanNative
  <2> DEFINE S == OnChain(Native, FinalStart, Smaller(FinalEnd, covered'))
  <2>1. /\ todo' = todo \cup Matched(S) /\ covered' \in Coverage /\ pc' = "record"
        /\ chain' = chain
    BY <1>1 DEF ScanNative, chainVars
  <2>2. FinalStart' = FinalStart
    BY <1>f DEF FinalStart, Stored
  <2>3. l[1] \in Native /\ FinalStart <= chain[l[1]].at /\ chain[l[1]].at <= covered'
    BY <2>1, <2>2 DEF NativeZone
  <2>4. chain[l[1]].at # 0 /\ chain[l[1]].at \in Int
    BY <1>t, <2>3 DEF TypeOK, ChainTypeOK, Place, BoundsInv, FinalStart
  <2>5. chain[l[1]].at <= Smaller(FinalEnd, covered')
    BY <2>1, <2>3, <2>4 DEF Coverage, Smaller, FinalStart, FinalEnd, TypeOK
  <2>6. l[1] \in S /\ S \in SUBSET Tx
    BY <2>3, <2>4, <2>5 DEF OnChain, Native
  <2> HIDE DEF S
  <2>7. \E o \in Matched(S) : o.leg = l
    BY <1>w, <2>6, AnswerIsHeld
  <2> QED
    BY <2>1, <2>7 DEF Kept
<1>2. CASE ~ScanNative
  <2>1. pc \in {"record", "settle"} /\ covered' = covered
    BY <1>0, <1>2, HoldingEntry, HoldingFrame
  <2>2. FinalStart' = FinalStart
    BY <1>f DEF FinalStart, Stored
  <2>3. covered <= fin /\ 1 <= FinalStart /\ {covered, fin, FinalStart} \subseteq Int
    BY <2>1 DEF BoundsInv, FinalInv, TypeOK, ChainTypeOK, FinalStart
  <2>n. chain'[l[1]].at \in Int
    BY <1>t, StepType DEF TypeOK, ChainTypeOK, Place
  <2>z. FinalStart <= chain'[l[1]].at /\ chain'[l[1]].at <= covered
    BY <2>1, <2>2 DEF NativeZone
  <2>4. chain'[l[1]] = chain[l[1]]
    <3>1. chain'[l[1]].at # 0 /\ chain'[l[1]].at <= fin
      BY <2>3, <2>n, <2>z
    <3> QED
      BY <1>t, <3>1, FinalWasThere
  <2>5. NativeZone(l)
    BY <2>1, <2>2, <2>4 DEF NativeZone
  <2> QED
    BY <1>0, <1>w, <2>1, <2>5, KeptStays DEF NativeHeld
<1> QED
  BY <1>1, <1>2

\* The token request answers for everything of its window that is as old as what
\* the answering node has finalized.
LEMMA TokensAnswered ==
  ASSUME TypeOK, ScanTokens, NEW l \in Leg, Wanted(l), l[1] \in Token,
         chain[l[1]].at # 0, TokenSince <= chain[l[1]].at,
         chain[l[1]].at <= fin - Stale, CaughtUp \/ chain[l[1]].at <= TokenUntil
  PROVE  \E o \in todo' : o.leg = l
<1>1. PICK f \in Seen(fin) :
         todo' = Matched(OnChain(Token, TokenSince,
                                 IF CaughtUp THEN f ELSE Smaller(f, TokenUntil)))
  BY DEF ScanTokens
<1> DEFINE S == OnChain(Token, TokenSince, IF CaughtUp THEN f ELSE Smaller(f, TokenUntil))
<1>2. /\ {f, fin, Stale, TokenUntil, chain[l[1]].at} \subseteq Int
      /\ fin - Stale <= f
  BY <1>1, LegHasTransfer
     DEF Seen, TypeOK, ChainTypeOK, Place, TokenUntil, TokenCursor, SinceDefault
<1>3. chain[l[1]].at <= f
  BY <1>2
<1>4. S \in SUBSET Tx /\ l[1] \in S
  BY <1>2, <1>3 DEF OnChain, Smaller
<1> HIDE DEF S
<1>5. todo' = Matched(S)
  BY <1>1 DEF S
<1> QED
  BY <1>4, <1>5, AnswerIsHeld

\* The window of the token scan ends at the start of the pass at the latest.
LEMMA NextTimeBounds ==
  ASSUME TypeOK
  PROVE  /\ NextTime \in Int /\ NextTime <= started /\ TokenSince \in Int
         /\ CaughtUp \/ NextTime = TokenUntil
  BY DEF TypeOK, NextTime, CaughtUp, TokenUntil, TokenSince, TokenCursor, SinceDefault

LEMMA StepTokenHeld ==
  ASSUME Lag + Stale <= Overlap + 1,
         TypeOK, FinalInv, BoundsInv, TokenHeld, [Next]_vars
  PROVE  TokenHeld'
<1> SUFFICES ASSUME Holding', NEW l \in Leg, Wanted(l)', TokenZone(l)'
             PROVE  Kept(l)'
  BY DEF TokenHeld
<1>t. l[1] \in Tx
  BY LegHasTransfer
<1>n. /\ {NextTime, started, head, fin, Overlap, Lag, Stale, chain[l[1]].at} \subseteq Int
      /\ NextTime <= started /\ started <= head /\ head <= fin + Lag
      /\ 0 <= Stale /\ 0 <= Overlap
  BY <1>t, NextTimeBounds DEF TypeOK, ChainTypeOK, Place, BoundsInv
<1>b. \A n \in Int : n < NextTime - Overlap => n <= fin - Stale /\ n <= fin
  <2> HIDE DEF Block
  <2> QED
    BY <1>n
<1>1. CASE Holding
  <2>f. UNCHANGED <<cursor, boundary, started, window, index>> /\ failed \subseteq failed'
    BY <1>1, HoldingFrame
  <2>w. Wanted(l)
    BY <2>f DEF Wanted, AddressOf
  <2>1. TokenSince' = TokenSince /\ NextTime' = NextTime
    BY <2>f DEF NextTime, CaughtUp, TokenUntil, TokenSince, TokenCursor, SinceDefault, Stored
  <2>2. chain'[l[1]].at \in Int
    BY <1>t, StepType DEF TypeOK, ChainTypeOK, Place
  <2>3. /\ l[1] \in Token /\ chain'[l[1]].at # 0
        /\ TokenSince <= chain'[l[1]].at /\ chain'[l[1]].at < NextTime - Overlap
    BY <2>1 DEF TokenZone
  <2>4. chain'[l[1]] = chain[l[1]]
    BY <1>t, <1>b, <2>2, <2>3, FinalWasThere
  <2>5. TokenZone(l)
    BY <2>3, <2>4 DEF TokenZone
  <2> QED
    BY <1>1, <2>w, <2>5, KeptStays DEF TokenHeld
<1>2. CASE ScanTokens
  <2>1. /\ UNCHANGED <<chain, cursor, started, window, index, failed>>
        /\ pc' = "native"
    BY <1>2 DEF ScanTokens, chainVars, storeVars
  <2>2. Wanted(l)
    BY <2>1 DEF Wanted, AddressOf
  <2>3. TokenZone(l)
    BY <2>1 DEF TokenZone, NextTime, CaughtUp, TokenUntil, TokenSince, TokenCursor,
                SinceDefault, Stored
  <2>4. chain[l[1]].at <= fin - Stale
    BY <1>n, <1>b, <2>3 DEF TokenZone
  <2>5. CaughtUp \/ chain[l[1]].at <= TokenUntil
    BY <1>n, <2>3, NextTimeBounds DEF TokenZone
  <2>6. \E o \in todo' : o.leg = l
    BY <1>2, <2>2, <2>3, <2>4, <2>5, TokensAnswered DEF TokenZone
  <2> QED
    BY <2>1, <2>6 DEF Kept
<1> QED
  BY <1>1, <1>2, HoldingEntry

LEMMA StepEdgeHeld ==
  ASSUME Stale = 0,
         TypeOK, FinalInv, BoundsInv, EdgeHeld, [Next]_vars
  PROVE  EdgeHeld'
<1> SUFFICES ASSUME Holding', NEW l \in Leg, Wanted(l)', TokenEdge(l)'
             PROVE  Kept(l)'
  BY DEF EdgeHeld
<1>t. l[1] \in Tx
  BY LegHasTransfer
<1>n. /\ {fin, boundary, cursor.block, chain[l[1]].at} \subseteq Int
      /\ boundary <= fin /\ (Stored => cursor.block <= fin)
  BY <1>t DEF TypeOK, ChainTypeOK, Place, BoundsInv, FinalInv
<1>b. \A n \in Int : n <= boundary \/ (Stored /\ n <= cursor.block) => n <= fin
  <2> HIDE DEF Block
  <2> QED
    BY <1>n
<1>1. CASE Holding
  <2>f. UNCHANGED <<cursor, boundary, started, window, index>> /\ failed \subseteq failed'
    BY <1>1, HoldingFrame
  <2>w. Wanted(l)
    BY <2>f DEF Wanted, AddressOf
  <2>1. TokenSince' = TokenSince /\ CaughtUp' = CaughtUp /\ Stored' = Stored
    BY <2>f DEF CaughtUp, TokenSince, TokenCursor, SinceDefault, Stored
  <2>2. chain'[l[1]].at \in Int
    BY <1>t, StepType DEF TypeOK, ChainTypeOK, Place
  <2>3. /\ l[1] \in Token /\ chain'[l[1]].at # 0 /\ CaughtUp
        /\ TokenSince <= chain'[l[1]].at
        /\ chain'[l[1]].at <= boundary \/ (Stored /\ chain'[l[1]].at <= cursor.block)
    BY <2>1, <2>f DEF TokenEdge
  <2>4. chain'[l[1]] = chain[l[1]]
    BY <1>t, <1>b, <2>2, <2>3, FinalWasThere
  <2>5. TokenEdge(l)
    BY <2>3, <2>4 DEF TokenEdge
  <2> QED
    BY <1>1, <2>w, <2>5, KeptStays DEF EdgeHeld
<1>2. CASE ScanTokens
  <2>1. /\ UNCHANGED <<chain, cursor, started, boundary, window, index, failed>>
        /\ pc' = "native"
    BY <1>2 DEF ScanTokens, chainVars, storeVars
  <2>2. Wanted(l)
    BY <2>1 DEF Wanted, AddressOf
  <2>3. TokenEdge(l)
    BY <2>1 DEF TokenEdge, CaughtUp, TokenSince, TokenCursor, SinceDefault, Stored
  <2>4. chain[l[1]].at <= fin - Stale
    BY <1>n, <1>b, <2>3 DEF TokenEdge
  <2>5. \E o \in todo' : o.leg = l
    BY <1>2, <2>2, <2>3, <2>4, TokensAnswered DEF TokenEdge
  <2> QED
    BY <2>1, <2>5 DEF Kept
<1> QED
  BY <1>1, <1>2, HoldingEntry

LEMMA InitIndex == Init => IndexInv /\ PromptInv
  BY DEF Init, ChainInit, IndexInv, PromptInv, Scanning

LEMMA StepIndex ==
  ASSUME ~IndexFaults, TypeOK, BoundsInv, IndexInv, [Next]_vars
  PROVE  IndexInv'
<1> SUFFICES ASSUME Scanning', NEW a \in Address, bound'[a] # Unbound, a \notin index'
             PROVE  started' <= bound'[a]
  BY DEF IndexInv
<1>1. CASE StartPass
  <2>1. index' = {b \in Address : bound[b] # Unbound /\ OwnerOf[b] \in Owner} /\ bound' = bound
    BY <1>1 DEF StartPass, storeVars
  <2> QED
    BY <2>1
<1>2. ASSUME NEW b \in Address, Bind(b) PROVE started' <= bound'[a]
  <2>1. /\ bound' = [bound EXCEPT ![b] = head]
        /\ started' = started /\ index' = index /\ Scanning
    BY <1>2 DEF Bind, passVars, Scanning
  <2> QED
    BY <2>1 DEF IndexInv, TypeOK, BoundsInv
<1>3. CASE UNCHANGED <<bound, started, index>> /\ Scanning
  BY <1>3 DEF IndexInv
<1>4. CASE Network \/ UNCHANGED vars
  BY <1>3, <1>4 DEF Network, vars, storeVars, passVars, Scanning
<1>5. CASE \/ ReadBoundary \/ ReadTip \/ NarrowWindow \/ BeginSettle \/ EndPass \/ Abandon
           \/ SaveCursor
  BY <1>3, <1>5 DEF ReadBoundary, ReadTip, NarrowWindow, BeginSettle, EndPass, Abandon,
                    SaveCursor, Forget, storeVars, Scanning
<1>6. CASE ScanTokens \/ ScanNative \/ PreviewTokens \/ PreviewNative
  BY <1>3, <1>6 DEF ScanTokens, ScanNative, PreviewTokens, PreviewNative, storeVars, Scanning
<1>7. CASE \/ \E o \in todo : RecordFinal(o) \/ RecordPreview(o) \/ RecordFails(o)
           \/ \E w \in Owner : DeleteUnfinalized(w) \/ ApplyFinalized(w) \/ SettleFails(w)
  BY <1>3, <1>7 DEF RecordFinal, RecordPreview, RecordFails, DeleteUnfinalized,
                    ApplyFinalized, SettleFails, storeVars, Scanning
<1> QED
  BY <1>1, <1>2, <1>4, <1>5, <1>6, <1>7, StepKinds

LEMMA StepPrompt ==
  ASSUME PromptStart, TypeOK, BoundsInv, PromptInv, [Next]_vars
  PROVE  PromptInv'
<1> USE DEF PromptInv, Scanning
<1>1. CASE Network
  <2>1. UNCHANGED <<pc, started, boundary>>
    BY <1>1 DEF Network, passVars
  <2>2. ASSUME pc = "boundary" PROVE fin' <= started
    BY <1>1, <2>2 DEF Network, Mine, Reorg, Finalize, TypeOK, ChainTypeOK
  <2> QED
    BY <2>1, <2>2
<1>2. CASE StartPass
  BY <1>2 DEF StartPass, chainVars, TypeOK, ChainTypeOK
<1>3. CASE ReadBoundary
  BY <1>3 DEF ReadBoundary, chainVars, TypeOK, ChainTypeOK, Seen
<1>4. CASE \/ ReadTip \/ NarrowWindow \/ BeginSettle \/ EndPass \/ Abandon \/ SaveCursor
  BY <1>4 DEF ReadTip, NarrowWindow, BeginSettle, EndPass, Abandon, SaveCursor, Forget,
              storeVars, chainVars
<1>5. CASE ScanTokens \/ ScanNative \/ PreviewTokens \/ PreviewNative
  BY <1>5 DEF ScanTokens, ScanNative, PreviewTokens, PreviewNative, chainVars
<1>6. CASE \/ \E o \in todo : RecordFinal(o) \/ RecordPreview(o) \/ RecordFails(o)
           \/ \E w \in Owner : DeleteUnfinalized(w) \/ ApplyFinalized(w) \/ SettleFails(w)
  BY <1>6 DEF RecordFinal, RecordPreview, RecordFails, DeleteUnfinalized, ApplyFinalized,
              SettleFails, chainVars
<1>7. CASE UNCHANGED vars \/ \E a \in Address : Bind(a)
  BY <1>7 DEF vars, Bind, passVars, chainVars
<1> QED
  BY <1>1, <1>2, <1>3, <1>4, <1>5, <1>6, <1>7, StepKinds

\* Only the end of the first phase moves the cursor, and only if no owner failed.
LEMMA CursorSteps ==
  ASSUME [Next]_vars
  PROVE  \/ UNCHANGED <<cursor, origin>>
         \/ /\ SaveCursor /\ failed = {}
            /\ cursor' = [block |-> covered, time |-> NextTime]
            /\ origin' = IF Stored THEN origin ELSE [block |-> covered, time |-> TokenSince]
<1>1. CASE SaveCursor
  BY <1>1 DEF SaveCursor, MaySave
<1>2. CASE ~SaveCursor
  BY <1>2, StepKinds
     DEF Network, Bind, StartPass, ReadBoundary, ReadTip, NarrowWindow, BeginSettle, EndPass,
         Abandon, ScanTokens, ScanNative, PreviewTokens, PreviewNative, RecordFinal,
         RecordPreview, RecordFails, DeleteUnfinalized, ApplyFinalized, SettleFails,
         vars, storeVars
<1> QED
  BY <1>1, <1>2

LEMMA BoundStays ==
  ASSUME TypeOK, [Next]_vars, NEW a \in Address
  PROVE  bound'[a] = bound[a] \/ (bound'[a] = head /\ UNCHANGED <<cursor, origin>>)
<1>1. ASSUME NEW b \in Address, Bind(b)
      PROVE  bound'[a] = bound[a] \/ (bound'[a] = head /\ UNCHANGED <<cursor, origin>>)
  BY <1>1 DEF Bind, TypeOK
<1>2. CASE UNCHANGED bound
  BY <1>2
<1> QED
  BY <1>1, <1>2, StepKinds
     DEF Network, StartPass, ReadBoundary, ReadTip, NarrowWindow, BeginSettle, EndPass,
         Abandon, SaveCursor, ScanTokens, ScanNative, PreviewTokens, PreviewNative,
         RecordFinal, RecordPreview, RecordFails, DeleteUnfinalized, ApplyFinalized,
         SettleFails, vars, storeVars

\* A leg that is due was carried by a block; what is due now and long final was
\* due before the step.
LEMMA DueWasDue ==
  ASSUME TypeOK, [Next]_vars, NEW l \in Leg, Due(l)', chain'[l[1]].at <= fin
  PROVE  Due(l) /\ chain'[l[1]] = chain[l[1]] /\ chain[l[1]].at # 0
<1> DEFINE a == AddressOf(l)
<1>a. a' = a
  BY DEF AddressOf
<1>1. /\ a \in Address /\ bound'[a] # Unbound /\ bound'[a] < chain'[l[1]].at
  BY <1>a DEF Due
<1>2. /\ bound'[a] \in Block /\ chain'[l[1]].at \in Block
      /\ bound[a] \in Block \cup {Unbound} /\ head \in Block /\ fin <= head /\ fin \in Int
  BY <1>1, StepType, LegHasTransfer DEF TypeOK, ChainTypeOK, Place
<1>3. chain'[l[1]] = chain[l[1]] /\ chain'[l[1]].at # 0
  <2>1. chain'[l[1]].at # 0
    BY <1>1, <1>2
  <2> QED
    BY <2>1, LegHasTransfer, FinalWasThere
<1>4. bound'[a] # head
  BY <1>1, <1>2
<1>5. bound'[a] = bound[a]
  BY <1>1, <1>4, BoundStays
<1> QED
  BY <1>1, <1>3, <1>5 DEF Due

LEMMA OwedWasOwed ==
  ASSUME TypeOK, [Next]_vars, UNCHANGED <<cursor, origin>>,
         NEW l \in Leg, Owed(l)', chain'[l[1]].at <= fin
  PROVE  Owed(l) /\ chain'[l[1]] = chain[l[1]] /\ chain[l[1]].at # 0
  BY DueWasDue DEF Owed, Stored

\* An address bound before a block that was there when the pass began is known to
\* the pass.
LEMMA DueIsKnown ==
  ASSUME TypeOK, IndexInv, Scanning, NEW l \in Leg, Due(l), chain[l[1]].at <= started
  PROVE  AddressOf(l) \in index
<1>1. AddressOf(l) \in Address /\ bound[AddressOf(l)] # Unbound
      /\ bound[AddressOf(l)] < chain[l[1]].at
  BY DEF Due
<1>2. bound[AddressOf(l)] \in Int /\ chain[l[1]].at \in Int /\ started \in Int
  BY <1>1, LegHasTransfer DEF TypeOK, ChainTypeOK, Place, Unbound
<1>3. ~(started <= bound[AddressOf(l)])
  BY <1>1, <1>2
<1> QED
  BY <1>1, <1>3 DEF IndexInv

LEMMA NativeLeg == Native \X Direction \subseteq Leg /\ Token \X Direction \subseteq Leg
  BY DEF Native, Leg

LEMMA SettledRange ==
  ASSUME TypeOK, FinalInv, BoundsInv, PromptInv, pc = "settle"
  PROVE  covered <= started /\ covered <= fin /\ 0 <= covered /\ covered \in Int
  BY DEF TypeOK, ChainTypeOK, FinalInv, BoundsInv, PromptInv, Scanning

LEMMA StepNativeComplete ==
  ASSUME ~IndexFaults, PromptStart, TypeOK, FinalInv, BoundsInv, NativeHeld, IndexInv,
         PromptInv, NativeComplete, [Next]_vars
  PROVE  NativeComplete'
<1> SUFFICES ASSUME NEW l \in Native \X Direction, Owed(l)', chain'[l[1]].at <= cursor'.block
             PROVE  rows'[l].final
  BY DEF NativeComplete
<1>l. l \in Leg /\ l[1] \in Native /\ l[1] \in Tx /\ l[1] \notin Token
  BY NativeLeg DEF Native
<1>n. {chain'[l[1]].at, fin, covered, cursor.block} \subseteq Int
  BY <1>l, StepType DEF TypeOK, ChainTypeOK, Place
<1>k. rows[l].final => rows'[l].final
  <2>1. rows[l] \in Row
    BY <1>l DEF TypeOK
  <2> QED
    BY <1>l, <2>1, StepKeepsFinal, ApplyingRow
<1>1. CASE UNCHANGED <<cursor, origin>>
  <2>1. Stored /\ chain'[l[1]].at <= cursor.block
    BY <1>1 DEF Owed, Stored
  <2>2. chain'[l[1]].at <= fin
    BY <1>n, <2>1 DEF BoundsInv
  <2>3. Owed(l) /\ chain[l[1]].at <= cursor.block
    BY <1>1, <1>l, <2>1, <2>2, OwedWasOwed
  <2> QED
    BY <1>k, <2>3 DEF NativeComplete
<1>2. CASE SaveCursor /\ failed = {} /\ cursor' = [block |-> covered, time |-> NextTime]
           /\ origin' = IF Stored THEN origin ELSE [block |-> covered, time |-> TokenSince]
  <2>1. pc = "settle" /\ chain'[l[1]].at <= covered /\ bound' = bound
    BY <1>2 DEF SaveCursor
  <2>2. chain'[l[1]].at <= fin /\ chain'[l[1]].at <= started
    BY <1>n, <2>1, SettledRange DEF TypeOK
  <2>3. Due(l) /\ chain'[l[1]] = chain[l[1]] /\ chain[l[1]].at # 0
    BY <1>l, <2>2, DueWasDue DEF Owed
  <2>4. origin'.block < chain[l[1]].at
    BY <1>l, <2>3 DEF Owed
  <2>5. Stored
    BY <1>2, <1>n, <2>1, <2>3, <2>4
  <2>6. CASE chain[l[1]].at <= cursor.block
    <3>1. Owed(l)
      BY <1>2, <1>l, <2>3, <2>4, <2>5 DEF Owed
    <3> QED
      BY <1>k, <2>6, <3>1 DEF NativeComplete
  <2>7. CASE ~(chain[l[1]].at <= cursor.block)
    <3>1. NativeZone(l)
      BY <1>l, <1>n, <2>1, <2>3, <2>5, <2>7 DEF NativeZone, FinalStart
    <3>2. Wanted(l)
      BY <1>l, <1>2, <2>1, <2>2, <2>3, DueIsKnown DEF Wanted, Scanning
    <3>3. rows[l].final
      BY <1>l, <2>1, <3>1, <3>2 DEF NativeHeld, Kept
    <3> QED
      BY <1>k, <3>3
  <2> QED
    BY <2>6, <2>7
<1> QED
  BY <1>1, <1>2, CursorSteps

LEMMA InitComplete == Init => NativeComplete /\ TokenComplete
  BY DEF Init, NativeComplete, TokenComplete, Owed, Stored

LEMMA StepTokenComplete ==
  ASSUME ~IndexFaults, Lag + Stale <= Overlap + 1, TypeOK, FinalInv, BoundsInv, TokenHeld,
         IndexInv, TokenComplete, [Next]_vars
  PROVE  TokenComplete'
<1> SUFFICES ASSUME NEW l \in Token \X Direction, Owed(l)',
                    chain'[l[1]].at < cursor'.time - Overlap
             PROVE  rows'[l].final
  BY DEF TokenComplete
<1>l. l \in Leg /\ l[1] \in Token /\ l[1] \in Tx
  BY NativeLeg
<1>n. /\ {chain'[l[1]].at, fin, head, started, cursor.time, NextTime, Overlap, Lag, Stale}
             \subseteq Int
      /\ head <= fin + Lag /\ 0 <= Stale /\ 0 <= Overlap
      /\ started <= head /\ NextTime <= started /\ (Stored => cursor.time <= head)
  BY <1>l, StepType, NextTimeBounds DEF TypeOK, ChainTypeOK, Place, BoundsInv
<1>b. \A n \in Int, t \in Int : n < t - Overlap /\ t <= head => n <= fin
  <2> HIDE DEF Block
  <2> QED
    BY <1>n
<1>k. rows[l].final => rows'[l].final
  <2>1. rows[l] \in Row
    BY <1>l DEF TypeOK
  <2> QED
    BY <1>l, <2>1, StepKeepsFinal, ApplyingRow
<1>1. CASE UNCHANGED <<cursor, origin>>
  <2>1. Stored /\ chain'[l[1]].at < cursor.time - Overlap
    BY <1>1 DEF Owed, Stored
  <2>2. chain'[l[1]].at <= fin
    BY <1>n, <1>b, <2>1
  <2>3. Owed(l) /\ chain[l[1]].at < cursor.time - Overlap
    BY <1>1, <1>l, <2>1, <2>2, OwedWasOwed
  <2> QED
    BY <1>k, <2>3 DEF TokenComplete
<1>2. CASE SaveCursor /\ failed = {} /\ cursor' = [block |-> covered, time |-> NextTime]
           /\ origin' = IF Stored THEN origin ELSE [block |-> covered, time |-> TokenSince]
  <2>1. pc = "settle" /\ chain'[l[1]].at < NextTime - Overlap
    BY <1>2 DEF SaveCursor
  <2>2. chain'[l[1]].at <= fin /\ chain'[l[1]].at <= started
    <3> HIDE DEF Block
    <3> QED
      BY <1>n, <1>b, <2>1
  <2>3. Due(l) /\ chain'[l[1]] = chain[l[1]] /\ chain[l[1]].at # 0
    BY <1>l, <2>2, DueWasDue DEF Owed
  <2>4. origin'.time <= chain[l[1]].at
    BY <1>l, <2>3 DEF Owed
  <2>6. CASE Stored /\ chain[l[1]].at < cursor.time - Overlap
    <3>1. Owed(l)
      BY <1>2, <1>l, <2>3, <2>4, <2>6 DEF Owed
    <3> QED
      BY <1>k, <2>6, <3>1 DEF TokenComplete
  <2>7. CASE ~(Stored /\ chain[l[1]].at < cursor.time - Overlap)
    <3>0. TokenSince <= chain[l[1]].at
      BY <1>2, <1>n, <2>3, <2>4, <2>7 DEF TokenSince, TokenCursor
    <3>1. TokenZone(l)
      BY <1>l, <2>1, <2>3, <3>0 DEF TokenZone
    <3>2. Wanted(l)
      BY <1>l, <1>2, <2>1, <2>2, <2>3, DueIsKnown DEF Wanted, Scanning
    <3>3. rows[l].final
      BY <1>l, <2>1, <3>1, <3>2 DEF TokenHeld, Holding, Kept
    <3> QED
      BY <1>k, <3>3
  <2> QED
    BY <2>6, <2>7
<1> QED
  BY <1>1, <1>2, CursorSteps

LEMMA PassInvHolds == Spec => [](TypeOK /\ FinalInv /\ BoundsInv /\ NativeHeld)
<1>1. Init => TypeOK /\ FinalInv /\ BoundsInv /\ NativeHeld
  BY InitType, InitFinal, InitBounds, InitHeld
<1>2. TypeOK /\ FinalInv /\ BoundsInv /\ NativeHeld /\ [Next]_vars
        => (TypeOK /\ FinalInv /\ BoundsInv /\ NativeHeld)'
  BY StepType, StepFinal, StepBounds, StepNativeHeld
<1> QED
  BY <1>1, <1>2, PTL DEF Spec

\* Whatever fails for some owners, an owner whose turn it is to be settled has every
\* native leg of the scanned range stored as final.  No hypothesis on the settings.
THEOREM NobodyPaysForOthers == Spec => []OthersAreServed
<1>1. TypeOK /\ BoundsInv /\ NativeHeld => OthersAreServed
  <2> SUFFICES ASSUME TypeOK, BoundsInv, NativeHeld, pc = "settle",
                      NEW w \in unsettled, NEW l \in LegsOf(w),
                      l[1] \in Native, AddressOf(l) \in index,
                      FinalStart <= chain[l[1]].at, chain[l[1]].at <= covered
               PROVE  rows[l].final
    BY DEF OthersAreServed
  <2>1. l \in Leg /\ OwnerOf[AddressOf(l)] = w
    BY DEF LegsOf, Tracked
  <2>2. Wanted(l) /\ NativeZone(l)
    BY <2>1 DEF Wanted, NativeZone, BoundsInv
  <2> QED
    BY <2>1, <2>2 DEF NativeHeld, Kept
<1> QED
  BY <1>1, PassInvHolds, PTL

\* If every owner's database can be read when a pass begins, and no block mined since
\* settles before the pass reads its boundary, the block cursor never passes over a
\* native transfer to an address bound before its block: short answers, lagging nodes,
\* failing owners, reorganizations and interrupted passes do not change that.
THEOREM NativeCursorIsComplete ==
  ASSUME ~IndexFaults, PromptStart
  PROVE  Spec => []NativeComplete
<1> DEFINE Inv == /\ TypeOK /\ FinalInv /\ BoundsInv /\ NativeHeld
                  /\ IndexInv /\ PromptInv /\ NativeComplete
<1>1. Init => Inv
  BY InitType, InitFinal, InitBounds, InitHeld, InitIndex, InitComplete
<1>2. Inv /\ [Next]_vars => Inv'
  BY StepType, StepFinal, StepBounds, StepNativeHeld, StepIndex, StepPrompt,
     StepNativeComplete
<1>3. Inv => NativeComplete
  OBVIOUS
<1> HIDE DEF Inv
<1> QED
  BY <1>1, <1>2, <1>3, PTL DEF Spec

\* If every owner's database can be read when a pass begins, an overlap of the lag of
\* finality and of the answering node, less one block, is enough for the token cursor:
\* it never passes over a token transfer to an address bound before its block.
THEOREM TokenCursorIsComplete ==
  ASSUME ~IndexFaults, Lag + Stale <= Overlap + 1
  PROVE  Spec => []TokenComplete
<1> DEFINE Inv == /\ TypeOK /\ FinalInv /\ BoundsInv /\ TokenHeld
                  /\ IndexInv /\ TokenComplete
<1>1. Init => Inv
  BY InitType, InitFinal, InitBounds, InitHeld, InitIndex, InitComplete
<1>2. Inv /\ [Next]_vars => Inv'
  BY StepType, StepFinal, StepBounds, StepTokenHeld, StepIndex, StepTokenComplete
<1>3. Inv => TokenComplete
  OBVIOUS
<1> HIDE DEF Inv
<1> QED
  BY <1>1, <1>2, <1>3, PTL DEF Spec

LEMMA CompleteInvHolds ==
  ASSUME ~IndexFaults, PromptStart, Stale = 0, Lag <= Overlap + 1
  PROVE  Spec => [](/\ TypeOK /\ FinalInv /\ BoundsInv /\ NativeHeld /\ TokenHeld /\ EdgeHeld
                    /\ IndexInv /\ PromptInv /\ NativeComplete /\ TokenComplete)
<1> DEFINE Inv == /\ TypeOK /\ FinalInv /\ BoundsInv /\ NativeHeld /\ TokenHeld /\ EdgeHeld
                  /\ IndexInv /\ PromptInv /\ NativeComplete /\ TokenComplete
<1>0. Lag + Stale <= Overlap + 1
  OBVIOUS
<1>1. Init => Inv
  BY InitType, InitFinal, InitBounds, InitHeld, InitIndex, InitComplete
<1>2. Inv /\ [Next]_vars => Inv'
  BY <1>0, StepType, StepFinal, StepBounds, StepNativeHeld, StepTokenHeld, StepEdgeHeld,
     StepIndex, StepPrompt, StepNativeComplete, StepTokenComplete
<1> HIDE DEF Inv
<1>3. Spec => []Inv
  BY <1>1, <1>2, PTL DEF Spec
<1> QED
  BY <1>3 DEF Inv

\* The cleaning does not reach a row of an owed transfer that became final in the
\* block the row names.
LEMMA NotRemovable ==
  ASSUME TypeOK, FinalInv, BoundsInv, NativeHeld, EdgeHeld, IndexInv, PromptInv,
         NativeComplete, TokenComplete, pc = "settle",
         NEW w \in unsettled, NEW l \in Removable(w),
         Owed(l), IsFinal(l[1]), rows[l].blk = chain[l[1]].at
  PROVE  FALSE
<1>1. /\ l \in Leg /\ OwnerOf[AddressOf(l)] = w
      /\ ~rows[l].final /\ chain[l[1]].at <= covered
      /\ l[1] \in Token => CaughtUp
  BY DEF Removable, LegsOf, Tracked
<1>2. {chain[l[1]].at, covered, started, cursor.block, boundary, cursor.time} \subseteq Int
      /\ chain[l[1]].at # 0
  BY <1>1, LegHasTransfer DEF TypeOK, ChainTypeOK, Place, IsFinal
<1>3. Wanted(l)
  <2>1. AddressOf(l) \in index
    BY <1>1, <1>2, SettledRange, DueIsKnown DEF Owed, Scanning
  <2> QED
    BY <1>1, <2>1 DEF Wanted, BoundsInv
<1>4. Stored
  BY DEF Owed
<1>5. CASE l[1] \in Native
  <2>1. l \in Native \X Direction
    BY <1>1, <1>5 DEF Leg
  <2>2. ~(chain[l[1]].at <= cursor.block)
    BY <1>1, <2>1 DEF NativeComplete
  <2>3. NativeZone(l)
    BY <1>1, <1>2, <1>4, <1>5, <2>2 DEF NativeZone, FinalStart
  <2> QED
    BY <1>1, <1>3, <2>3 DEF NativeHeld, Kept
<1>6. CASE l[1] \in Token
  <2>1. l \in Token \X Direction
    BY <1>1, <1>6 DEF Leg
  <2>2. ~(chain[l[1]].at < cursor.time - Overlap)
    BY <1>1, <2>1 DEF TokenComplete
  <2>3. TokenSince <= chain[l[1]].at
    BY <1>2, <1>4, <2>2 DEF TokenSince, TokenCursor
  <2>4. chain[l[1]].at <= boundary \/ (Stored /\ chain[l[1]].at <= cursor.block)
    BY <1>1, <1>2 DEF BoundsInv
  <2>5. TokenEdge(l)
    BY <1>1, <1>2, <1>6, <2>3, <2>4 DEF TokenEdge
  <2> QED
    BY <1>1, <1>3, <2>5 DEF EdgeHeld, Holding, Kept
<1> QED
  BY <1>1, <1>5, <1>6, LegHasTransfer DEF Native

LEMMA StepKeepsPayment ==
  ASSUME TypeOK, FinalInv, BoundsInv, NativeHeld, EdgeHeld, IndexInv, PromptInv,
         NativeComplete, TokenComplete, [Next]_vars,
         NEW l \in Leg, HasRow(l), Owed(l), IsFinal(l[1]), rows[l].blk = chain[l[1]].at
  PROVE  rows'[l] # NoRow
<1> USE DEF HasRow
<1>0. rows[l] # NoRow /\ rows \in [Leg -> Row] /\ rows[l] \in Row
  BY DEF NoRow, TypeOK
<1>1. ASSUME NEW o \in todo, RecordFinal(o) PROVE rows'[l] # NoRow
  <2>1. rows' = [rows EXCEPT ![o.leg] = Promoted(rows[o.leg], o)]
    BY <1>1 DEF RecordFinal
  <2>2. Promoted(rows[o.leg], o).final
    BY DEF Promoted
  <2>3. Promoted(rows[o.leg], o) # NoRow
    BY <2>2 DEF NoRow
  <2> QED
    BY <1>0, <2>1, <2>3
<1>2. ASSUME NEW o \in todo, RecordPreview(o) PROVE rows'[l] # NoRow
  BY <1>0, <1>2 DEF RecordPreview, Previewed
<1>3. ASSUME NEW w \in Owner, DeleteUnfinalized(w) PROVE rows'[l] # NoRow
  <2>1. /\ pc = "settle" /\ w \in unsettled
        /\ rows' = [k \in Leg |-> IF k \in Removable(w) THEN NoRow ELSE rows[k]]
    BY <1>3 DEF DeleteUnfinalized
  <2>2. l \notin Removable(w)
    BY <2>1, NotRemovable
  <2> QED
    BY <1>0, <2>1, <2>2
<1>4. ASSUME NEW w \in Owner, ApplyFinalized(w) PROVE rows'[l] # NoRow
  <2>1. rows'[l] = rows[l] \/ rows'[l] = [rows[l] EXCEPT !.applied = TRUE]
    BY <1>4 DEF ApplyFinalized
  <2> QED
    BY <1>0, <2>1, ApplyingRow DEF NoRow
<1>5. CASE UNCHANGED rows
  BY <1>0, <1>5
<1> QED
  BY <1>1, <1>2, <1>3, <1>4, <1>5, StepKinds
     DEF Network, Bind, StartPass, ReadBoundary, ReadTip, NarrowWindow, BeginSettle, EndPass,
         Abandon, SaveCursor, ScanTokens, ScanNative, PreviewTokens, PreviewNative,
         RecordFails, SettleFails, vars, storeVars

\* Under the same hypotheses, and with a node that answers for what it has finalized, a
\* pending row of an owed transfer that settled in the block the row names is never
\* cleaned up as the victim of a reorganization.
THEOREM PaymentsDoNotVanish ==
  ASSUME ~IndexFaults, PromptStart, Stale = 0, Lag <= Overlap + 1
  PROVE  Spec => FinalPaymentNeverVanishes
<1> DEFINE Inv == /\ TypeOK /\ FinalInv /\ BoundsInv /\ NativeHeld /\ TokenHeld /\ EdgeHeld
                  /\ IndexInv /\ PromptInv /\ NativeComplete /\ TokenComplete
<1>1. Spec => []Inv
  BY CompleteInvHolds
<1>2. Inv /\ [Next]_vars =>
        [\A l \in Leg :
          (/\ HasRow(l) /\ Owed(l) /\ IsFinal(l[1])
           /\ rows[l].blk = chain[l[1]].at) => rows'[l] # NoRow]_vars
  BY StepKeepsPayment
<1> HIDE DEF Inv
<1> QED
  BY <1>1, <1>2, PTL DEF Spec, FinalPaymentNeverVanishes

(***************************************************************************)
(* The watcher implements the Ledger.  Status is a function of the row,    *)
(* the verdict a function of the chain: what the network does is a         *)
(* decision, recording and cleaning are observations, applying confirms.   *)
(***************************************************************************)
LEMMA StatusOfRow ==
  ASSUME NEW r \in Row
  PROVE  /\ Classify(r) \in Promise!Status
         /\ Classify(r) = "confirmed" <=> r.blk # 0 /\ r.ok /\ r.applied
         /\ r.blk # 0 /\ r.ok /\ ~r.applied => Classify(r) = "pending"
  BY DEF Classify, Row, Promise!Status

LEMMA InitLedger == Init => Promise!Init
<1> SUFFICES ASSUME Init PROVE Promise!Init
  OBVIOUS
<1>1. \A t \in Tx : Judged(t) = "open"
  <2>1. \A t \in Tx : chain[t].at = 0
    BY DEF Init, ChainInit, OffChain
  <2>2. \A n \in Int : 0 \notin 1 .. n
    OBVIOUS
  <2>3. fin \in Int
    BY DEF Init, ChainInit
  <2>4. \A t \in Tx : ~IsFinal(t)
    BY <2>1, <2>2, <2>3 DEF IsFinal
  <2> QED
    BY <2>4 DEF Judged
<1>2. \A l \in Leg : Classify(rows[l]) = "absent"
  BY DEF Init, Classify, NoRow
<1> QED
  BY <1>1, <1>2 DEF Promise!Init, Init

\* The network decides.
LEMMA NetworkLedger ==
  ASSUME TypeOK, Network
  PROVE  Promise!Next
<1>1. rows' = rows /\ credit' = credit
  BY DEF Network, storeVars
<1>2. \A t \in Tx : Judged(t)' \in Promise!Verdict
  BY DEF Judged, Promise!Verdict
<1>3. ASSUME NEW t \in Tx, Judged(t) # "open" PROVE Judged(t)' = Judged(t)
  BY <1>3, ChainIsStable DEF Judged
<1>4. Promise!Decide
  BY <1>1, <1>2, <1>3 DEF Promise!Decide
<1> QED
  BY <1>4 DEF Promise!Next

\* A step that leaves the chain, the balance and every confirmed row alone and
\* confirms nothing is an observation.
LEMMA RowsLedger ==
  ASSUME TypeOK, TypeOK', UNCHANGED <<chain, fin, credit>>,
         \A l \in Leg : rows'[l] = rows[l] \/ (~rows[l].applied /\ ~rows'[l].applied)
  PROVE  Promise!Next
<1>1. \A t \in Tx : Judged(t)' = Judged(t)
  BY DEF Judged, IsFinal
<1>2. \A l \in Leg : rows[l] \in Row /\ rows'[l] \in Row
  BY DEF TypeOK
<1>3. \A l \in Leg : Classify(rows'[l]) \in Promise!Status
  BY <1>2, StatusOfRow
<1>4. ASSUME NEW l \in Leg, Classify(rows'[l]) # Classify(rows[l])
      PROVE  "confirmed" \notin {Classify(rows[l]), Classify(rows'[l])}
  BY <1>2, <1>4, StatusOfRow
<1>5. Promise!Observe
  BY <1>1, <1>3, <1>4 DEF Promise!Observe
<1> QED
  BY <1>5 DEF Promise!Next

\* Applying the final rows of an owner confirms them and counts them at once.
LEMMA ApplyLedger ==
  ASSUME TypeOK, FinalInv, NEW w \in Owner, ApplyFinalized(w)
  PROVE  Promise!Next
<1>1. /\ UNCHANGED <<chain, fin>>
      /\ rows' = [l \in Leg |-> IF l \in Applicable(w)
                                THEN [rows[l] EXCEPT !.applied = TRUE] ELSE rows[l]]
      /\ credit' = [l \in Leg |-> IF l \in Applicable(w) THEN credit[l] + 1 ELSE credit[l]]
  BY DEF ApplyFinalized, chainVars
<1>2. Applicable(w) \subseteq Leg
  BY DEF Applicable, LegsOf, Tracked
<1>3. \A t \in Tx : Judged(t)' = Judged(t)
  BY <1>1 DEF Judged, IsFinal
<1>4. ASSUME NEW l \in Applicable(w)
      PROVE  /\ Classify(rows[l]) = "pending" /\ Classify(rows'[l]) = "confirmed"
             /\ Judged(l[1]) = "success"
  <2>1. l \in Leg /\ rows[l] \in Row /\ rows[l].final /\ rows[l].ok /\ ~rows[l].applied
    BY <1>2 DEF Applicable, TypeOK
  <2>2. IsFinal(l[1]) /\ rows[l].blk = chain[l[1]].at /\ chain[l[1]].ok
    BY <2>1 DEF FinalInv, FinalRowIsTrue
  <2>3. rows[l].blk # 0
    BY <2>2 DEF IsFinal, TypeOK, ChainTypeOK
  <2>4. rows'[l] = [rows[l] EXCEPT !.applied = TRUE]
    BY <1>1, <2>1
  <2>5. rows'[l] \in Row /\ rows'[l].blk # 0 /\ rows'[l].ok /\ rows'[l].applied
    BY <2>1, <2>3, <2>4, ApplyingRow
  <2> QED
    BY <2>1, <2>2, <2>3, <2>5, StatusOfRow DEF Judged
<1>5. Promise!Confirm
  <2> DEFINE S == Applicable(w)
             view == [l \in Leg |-> Classify(rows[l])]
             verdict == [t \in Tx |-> Judged(t)]
  <2>1. \A l \in S : view[l] = "pending" /\ verdict[[k \in Leg |-> k[1]][l]] = "success"
    BY <1>2, <1>4, LegHasTransfer
  <2>2. view' = [l \in Leg |-> IF l \in S THEN "confirmed" ELSE view[l]]
    BY <1>1, <1>2, <1>4
  <2>3. verdict' = verdict
    BY <1>3
  <2>4. credit' = [l \in Leg |-> IF l \in S THEN credit[l] + 1 ELSE credit[l]]
    BY <1>1
  <2>5. S \in SUBSET Leg
    BY <1>2
  <2> HIDE DEF S
  <2> QED
    BY <2>1, <2>2, <2>3, <2>4, <2>5 DEF Promise!Confirm
<1> QED
  BY <1>5 DEF Promise!Next

LEMMA StepLedger ==
  ASSUME TypeOK, FinalInv, [Next]_vars
  PROVE  [Promise!Next]_Promise!ledgerVars
<1>0. TypeOK' /\ (\A l \in Leg : rows[l] \in Row)
  BY StepType DEF TypeOK
<1>1. ASSUME NEW o \in todo, RecordFinal(o) PROVE Promise!Next
  <2>1. /\ rows' = [rows EXCEPT ![o.leg] = Promoted(rows[o.leg], o)]
        /\ o.leg \in Leg /\ UNCHANGED <<chain, fin, credit>>
    BY <1>1 DEF RecordFinal, chainVars, TypeOK, Observation, Tracked
  <2>2. \A l \in Leg : rows'[l] = rows[l] \/ (~rows[l].applied /\ ~rows'[l].applied)
    BY <1>0, <2>1 DEF TypeOK, Promoted, FinalInv, AppliedAreFinal
  <2> QED
    BY <1>0, <2>1, <2>2, RowsLedger
<1>2. ASSUME NEW o \in todo, RecordPreview(o) PROVE Promise!Next
  <2>1. /\ rows' = [rows EXCEPT ![o.leg] = Previewed(rows[o.leg], o)]
        /\ o.leg \in Leg /\ UNCHANGED <<chain, fin, credit>>
    BY <1>2 DEF RecordPreview, chainVars, TypeOK, Observation, Tracked
  <2>2. rows[o.leg].applied => rows[o.leg].blk # 0
    BY <2>1, LegHasTransfer
       DEF TypeOK, ChainTypeOK, FinalInv, AppliedAreFinal, FinalRowIsTrue, IsFinal
  <2>3. \A l \in Leg : rows'[l] = rows[l] \/ (~rows[l].applied /\ ~rows'[l].applied)
    BY <1>0, <2>1, <2>2 DEF TypeOK, Previewed
  <2> QED
    BY <1>0, <2>1, <2>3, RowsLedger
<1>3. ASSUME NEW w \in Owner, DeleteUnfinalized(w) PROVE Promise!Next
  <2>1. /\ rows' = [l \in Leg |-> IF l \in Removable(w) THEN NoRow ELSE rows[l]]
        /\ UNCHANGED <<chain, fin, credit>>
    BY <1>3 DEF DeleteUnfinalized, chainVars
  <2>2. \A l \in Leg : rows'[l] = rows[l] \/ (~rows[l].applied /\ ~rows'[l].applied)
    BY <1>0, <2>1 DEF Removable, NoRow
  <2> QED
    BY <1>0, <2>1, <2>2, RowsLedger
<1>4. ASSUME NEW w \in Owner, ApplyFinalized(w) PROVE Promise!Next
  BY <1>4, ApplyLedger
<1>5. ASSUME UNCHANGED <<chain, fin, rows, credit>> PROVE UNCHANGED Promise!ledgerVars
  BY <1>5 DEF Promise!ledgerVars, Judged, IsFinal
<1>6. CASE Network
  BY <1>6, NetworkLedger
<1> QED
  BY <1>1, <1>2, <1>3, <1>4, <1>5, <1>6, StepKinds
     DEF Bind, StartPass, ReadBoundary, ReadTip, NarrowWindow, BeginSettle, EndPass,
         Abandon, SaveCursor, ScanTokens, ScanNative, PreviewTokens, PreviewNative,
         RecordFails, SettleFails, vars, storeVars, chainVars

\* The watcher keeps what the Ledger promises, on every network and under every
\* setting: a leg is confirmed only once its transfer has succeeded for good, is counted
\* in the same step, and neither is ever taken back.
THEOREM WatcherImplementsLedger == Spec => ImplementsLedger
<1>1. Init => Promise!Init
  BY InitLedger
<1>2. TypeOK /\ FinalInv /\ [Next]_vars => [Promise!Next]_Promise!ledgerVars
  BY StepLedger
<1> QED
  BY <1>1, <1>2, FinalInvHolds, PTL DEF Spec, ImplementsLedger, Promise!Spec

=============================================================================

----------------------------- MODULE WatcherLive -----------------------------
(***************************************************************************)
(* Watcher under the fairness the service gives it.  run_forever starts a  *)
(* pass after every pass, whatever became of it, and each await of a pass  *)
(* returns; the network keeps mining and settling.  What no fairness can   *)
(* promise is that the provider and the databases stop failing, so the     *)
(* number of failures is bounded by MaxFaults and everything after the     *)
(* last of them is required to come right.                                 *)
(***************************************************************************)
EXTENDS Watcher

CONSTANT MaxFaults      \* bound: failures, refusals, short answers and deaths

ASSUME LiveAssumption == MaxFaults \in Nat

VARIABLE faults         \* how many there have been

liveVars == <<vars, faults>>

\* The provider broke off before the end of the requested range.
ShortAnswer == pc = "native" /\ FinalStart <= FinalEnd /\ covered' < FinalEnd

Fault ==
    /\ faults < MaxFaults
    /\ Trouble \/ (Progress /\ ShortAnswer)
    /\ faults' = faults + 1

Sound == Progress /\ ~ShortAnswer /\ UNCHANGED faults

LiveInit == Init /\ faults = 0

LiveNext ==
    \/ Network /\ UNCHANGED faults
    \/ \E a \in Address : Bind(a) /\ UNCHANGED faults
    \/ Sound
    \/ Fault

Grows == Mine /\ UNCHANGED <<storeVars, passVars, faults>>
Settles == Network /\ fin' # fin /\ UNCHANGED faults

LiveSpec ==
    /\ LiveInit
    /\ [][LiveNext]_liveVars
    /\ WF_liveVars(Sound)
    /\ SF_liveVars(Grows)
    /\ SF_liveVars(Settles)

\* A payment that is final on the chain is credited in the end, if the gateway
\* answers for it.  Neither an interrupted pass nor an owner's failing database,
\* neither a short answer nor a catch-up window loses it.  The block cursor, below
\* which no native payment is missing (NativeComplete), reaches the boundary too.
FinalPaymentIsCredited ==
    /\ \A w \in Owner : \A l \in LegsOf(w) :
          (Owed(l) /\ IsFinal(l[1]) /\ chain[l[1]].ok) ~> (credit[l] = 1)
    /\ (Stored /\ fin = MaxBlock) ~> (cursor.block = MaxBlock)

\* A pending row whose transaction the chain discarded does not stay: it is
\* removed, unless the transaction comes back.
DiscardedRowGoes ==
    \A w \in Owner : \A l \in LegsOf(w) :
        (HasRow(l) /\ ~rows[l].final /\ chain[l[1]].at = 0)
            ~> (~HasRow(l) \/ chain[l[1]].at # 0)

=============================================================================

------------------------------ MODULE Supervisor ------------------------------
(***************************************************************************)
(* The gateway process (orchestrator/supervisor.py): the API server and    *)
(* the background activities, each under a loop that starts it anew after  *)
(* a failure (_supervised), and the end of them all on a signal (run).     *)
(* The doors of the API live as long as the process, not the server: the   *)
(* application is made once.                                               *)
(***************************************************************************)
EXTENDS Doors

CONSTANTS
    Component,  \* the supervised activities: the server and the background loops
    Server,
    MaxCrashes  \* bound: failures of components

ASSUME SupervisorAssumption == Server \in Component /\ MaxCrashes \in Nat

VARIABLES
    stopping,   \* the stop event
    state,      \* the loop of each component
    exiting,    \* should_exit of the server that is running
    cancelled,  \* components whose task was asked to cancel
    main,       \* run
    crashes

process == <<stopping, state, exiting, cancelled, main, crashes>>
vars == <<doors, process>>

Background == Component \ {Server}

TypeOK ==
    /\ DoorsTypeOK
    /\ stopping \in BOOLEAN /\ exiting \in BOOLEAN /\ cancelled \subseteq Background
    /\ state \in [Component -> {"loop", "running", "pause", "ended"}]
    /\ main \in {"waiting", "gathering", "stopped"}
    /\ crashes \in 0 .. MaxCrashes
    /\ main # "waiting" => stopping
    /\ main = "stopped" => \A c \in Component : state[c] = "ended"

Busy == \E r \in Request : ~At(r, "idle")

(***************************************************************************)
(* _supervised                                                             *)
(***************************************************************************)
BadGoesOn(c) == state[c] \in {"loop", "pause"}
GoesOn(c) == state[c] \in {"loop", "pause"} /\ ~stopping

\* A new attempt; a server that has served cannot serve again, so a new one is made.
Start(c) ==
    /\ GoesOn(c)
    /\ state' = [state EXCEPT ![c] = "running"]
    /\ exiting' = IF c = Server THEN FALSE ELSE exiting
    /\ UNCHANGED <<doors, stopping, cancelled, main, crashes>>

\* The loop ends before the next attempt; the stop event cuts the pause short.
EndLoop(c) ==
    /\ state[c] \in {"loop", "pause"} /\ ~GoesOn(c)
    /\ state' = [state EXCEPT ![c] = "ended"]
    /\ UNCHANGED <<doors, stopping, exiting, cancelled, main, crashes>>

\* An exception, an exit, or a return nobody asked for.  Of the requests a server
\* was handling some may still be answered.
Crash(c) ==
    /\ state[c] = "running" /\ crashes < MaxCrashes
    /\ crashes' = crashes + 1
    /\ state' = [state EXCEPT ![c] = "pause"]
    /\ \E lost \in SUBSET Request :
           /\ c # Server => lost = {}
           /\ job' = [r \in Request |-> IF r \in lost THEN Idle ELSE job[r]]
    /\ UNCHANGED <<load, attempts, left, used, histories, stopping, exiting, cancelled, main>>

\* A cancelled task ends at the await it is at, the pause included.
Cancel(c) ==
    /\ c \in cancelled /\ state[c] # "ended"
    /\ state' = [state EXCEPT ![c] = "ended"]
    /\ UNCHANGED <<doors, stopping, exiting, cancelled, main, crashes>>

\* The server returns when its connections are done.
Return ==
    /\ state[Server] = "running" /\ exiting /\ ~Busy
    /\ state' = [state EXCEPT ![Server] = IF stopping THEN "ended" ELSE "pause"]
    /\ UNCHANGED <<doors, stopping, exiting, cancelled, main, crashes>>

(***************************************************************************)
(* run                                                                     *)
(***************************************************************************)
Signal ==
    /\ ~stopping /\ stopping' = TRUE
    /\ UNCHANGED <<doors, state, exiting, cancelled, main, crashes>>

\* There may be no server, or one that serves no longer.
Stop ==
    /\ main = "waiting" /\ stopping
    /\ exiting' = (state[Server] = "running" \/ exiting)
    /\ cancelled' = Background
    /\ main' = "gathering"
    /\ UNCHANGED <<doors, stopping, state, crashes>>

Gathered ==
    /\ main = "gathering" /\ \A c \in Component : state[c] = "ended"
    /\ main' = "stopped"
    /\ UNCHANGED <<doors, stopping, state, exiting, cancelled, crashes>>

\* What a request needs is a server that takes it.
Serving == state[Server] = "running" /\ ~exiting

(***************************************************************************)
(* Specification.                                                          *)
(***************************************************************************)
Init ==
    /\ DoorsInit
    /\ stopping = FALSE /\ exiting = FALSE /\ cancelled = {}
    /\ state = [c \in Component |-> "loop"]
    /\ main = "waiting" /\ crashes = 0

Requests ==
    /\ \/ \E r \in Request, k \in load.keys, c \in load.solutions \cup {NoChallenge} :
              Serving /\ Arrive(r, k, c)
       \/ \E c \in load.solutions : Serving /\ Issue(c)
       \/ \E r \in Request : Serve(r)
       \/ Tick
    /\ UNCHANGED process

Steps(c) == Start(c) \/ EndLoop(c) \/ Cancel(c)

Next ==
    \/ Requests
    \/ \E c \in Component : Steps(c) \/ Crash(c)
    \/ Return \/ Signal \/ Stop \/ Gathered

\* The event loop gets to every task that can go on, and every request comes to its
\* answer: the server waits for it without a limit.
Fairness ==
    /\ \A c \in Component : WF_vars(Steps(c))
    /\ \A r \in Request : WF_vars(Serve(r) /\ UNCHANGED process)
    /\ WF_vars(Return) /\ WF_vars(Stop) /\ WF_vars(Gathered)

Spec == Init /\ [][Next]_vars /\ Fairness

(***************************************************************************)
(* Properties.                                                             *)
(***************************************************************************)
\* A stop ends everything, wherever it meets the components: between two attempts,
\* while the server is being created or while it answers ("a stop signal shuts the
\* whole gateway down gracefully").
StopEndsEverything == stopping ~> main = "stopped"

=============================================================================

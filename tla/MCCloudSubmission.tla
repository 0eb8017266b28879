---- MODULE MCCloudSubmission ----
(* An Attempt with an Action that was renewed while a request is about to
   execute it, an Attempt that is renewed again and again, or an Action
   that owns a job which two requests refresh and cancel. *)
EXTENDS CloudSubmission, TLC

CONSTANTS c1, c2, j1, a1, a2, a3

VARIABLE scenario

mcVars == <<vars, scenario>>

MCCallers == {c1, c2}
OneRequest == {c1}
MCJobs == {j1}
TwoStates == {"QUEUED", "CANCELLED"}
ThreeStates == TwoStates \cup {"RUNNING"}
ThreeActions == {a1, a2, a3}
MCCommands == AllCommands
ExecutingCommands == {"Execute", "Reconcile", "Refresh", "Cancel"}
RenewingCommands == {"Renew", "Execute", "Reconcile"}
ObservingCommands == {"Refresh", "Cancel"}

(* A renewal of a1 while request c1, which read its clock before the gate
   of a1 expired, still waits to execute a1. *)
RenewedInit ==
    /\ OutboxInit
    /\ status = [a \in Actions |-> IF a = a3 THEN "NONE" ELSE "PREPARED"]
    /\ result = [a \in Actions |-> None]
    /\ expired = {a1}
    /\ slot = a2
    /\ origin = [a \in Actions |-> IF a = a2 THEN a1 ELSE None]
    /\ successor = [a \in Actions |-> IF a = a1 THEN a2 ELSE None]
    /\ lock = None
    /\ thread = [r \in Callers |-> IF r = c1
                  THEN [NoThread EXCEPT !.step = "arrived", !.command = "Execute", !.action = a1]
                  ELSE NoThread]

\* The job of a1 was seen while it was queued.
OwnedInit ==
    /\ entry = [NoEntry EXCEPT !.exists = TRUE, !.started = TRUE, !.handle = j1, !.observation = "QUEUED"]
    /\ outboxLock = None
    /\ op = [c \in Callers |-> NoOp]
    /\ provider = [j \in Jobs |-> "QUEUED"]
    /\ posts = {}
    /\ sent = [create |-> 1, stop |-> 0]
    /\ status = [a \in Actions |-> IF a = a1 THEN "VERIFIED" ELSE "NONE"]
    /\ result = [a \in Actions |-> IF a = a1 THEN j1 ELSE None]
    /\ expired = {a1}
    /\ slot = a1
    /\ origin = [a \in Actions |-> None]
    /\ successor = [a \in Actions |-> None]
    /\ lock = None
    /\ thread = [r \in Callers |-> NoThread]

MCInit ==
    \/ scenario = "execute" /\ RenewedInit
    \/ scenario = "renewals" /\ Init /\ slot = a1
    \/ scenario = "observe" /\ OwnedInit

\* A job is seen while it runs in the third scenario only, which keeps the others small.
Passes(states) == \A j \in Jobs : provider'[j] \in states \cup {None}

Offered(callers, commands) ==
    \A r \in Callers : thread'[r] # NoThread => r \in callers /\ thread'[r].command \in commands

MCNext ==
    /\ UNCHANGED scenario
    /\ \/ scenario = "execute" /\ Next /\ Offered(MCCallers, ExecutingCommands) /\ Passes(TwoStates)
       \/ scenario = "renewals" /\ Next /\ Offered(OneRequest, RenewingCommands) /\ Passes(TwoStates)
       \/ scenario = "observe" /\ Next /\ Offered(MCCallers, ObservingCommands)
MCSpec == MCInit /\ [][MCNext]_mcVars

RenewalSpec == scenario = "renewals" /\ Init /\ [][MCNext]_mcVars
====

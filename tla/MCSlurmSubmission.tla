---- MODULE MCSlurmSubmission ----
(* One Attempt over one gateway scope.  A behaviour begins in one of two
   ways.  "prepared": nothing is there, and one request at a time prepares
   the Action, renews it up to twice and executes.  "renewed": the Action
   a1 has been renewed by a2, and two requests at a time, with two calls,
   execute and reconcile them. *)
EXTENDS SlurmSubmission, Naturals, FiniteSets, TLC

CONSTANTS s1, i1, j1, j2, a1, a2, a3, r1, r2, w1, w2, p1, p2

VARIABLE scenario

MCScopes == {s1}
MCIntents == {i1}
MCScopeOf == [i \in MCIntents |-> s1]
TwoJobs == {j1, j2}
ThreeActions == {a1, a2, a3}
TwoThreads == {r1, r2}
TwoRenewals == {w1, w2}
TwoCalls == {p1, p2}
MCOperations == {"Prepare", "Submit", "Inspect", "ObserveJob"}
AllCommandsOffered == AllCommands
CallJobSymmetry == Permutations(Invocations) \cup Permutations(Jobs)

(* A renewal of a1 while request r1, which read its clock before the gate
   of a1 expired, still waits to execute a1. *)
RenewedInit ==
    /\ GatewayInit
    /\ status = [a \in Actions |-> IF a = a3 THEN "NONE" ELSE "PREPARED"]
    /\ result = [a \in Actions |-> None]
    /\ expired = {a1}
    /\ slot = a2
    /\ archived = {a1, a2}
    /\ records = [w \in Renewals |-> IF w = w1 THEN [original |-> a1, replacement |-> a2]
                                     ELSE NoRecord]
    /\ successor = [a \in Actions |-> IF a = a1 THEN a2 ELSE None]
    /\ lock = None
    /\ thread = [r \in Threads |-> IF r = r1
                  THEN [NoThread EXCEPT !.step = "arrived", !.command = "Execute", !.action = a1]
                  ELSE NoThread]

\* One request and one call; a second renewal only while no call is under way.
OneAtATime ==
    LET called == {p \in Invocations : call'[p] # Unsent}
    IN /\ thread'[r2] = NoThread /\ thread'[r1].command # "Reconcile"
       /\ Cardinality(called) <= 1
       /\ called = {} \/ status'[a3] = "NONE"
Executed ==
    \A r \in Threads : thread'[r] # NoThread =>
        thread'[r].command \in {"Execute", "Reconcile"} /\ thread'[r].action # a3

MCInit == (scenario = "prepared" /\ Init) \/ (scenario = "renewed" /\ RenewedInit)
MCNext ==
    /\ UNCHANGED scenario
    /\ Next
    /\ scenario = "prepared" => OneAtATime
    /\ scenario = "renewed" => Executed
MCSpec == MCInit /\ [][MCNext]_<<vars, scenario>>
====

---- MODULE MCSlurmLedger ----
(* One scope claimed by either of two intents, a handful of SSH calls.
   A behaviour is about the submission, or about the job of one that
   succeeded: it then begins with the state that a PREPARE and a SUBMIT of
   i1 leave behind, and its calls observe and cancel. *)
EXTENDS SlurmLedger, TLC

CONSTANTS s1, i1, i2, j1, j2, p1, p2, p3, p4

VARIABLE scenario

MCScopes == {s1}
TwoIntents == {i1, i2}
ScopeOfTwo == [i \in TwoIntents |-> s1]
TwoJobs == {j1, j2}
FourCalls == {p1, p2, p3, p4}
MCOperations == AllOperations
MCSymmetry == Permutations(FourCalls) \cup Permutations(TwoIntents) \cup Permutations(TwoJobs)

SubmittedInit ==
    /\ claims = [s \in Scopes |-> i1]
    /\ ledger = [s \in Scopes |->
         [files |-> Files \ {"cancel.start", "cancel.state"}, phase |-> "SUBMITTED",
          head |-> j1, receipt |-> j1, cancel |-> "NONE", result |-> "NONE"]]
    /\ staging = [s \in Scopes |-> "SEALED"]
    /\ flock = None
    /\ helper = [p \in Invocations |-> Unsent]
    /\ sbatches = [s \in Scopes |-> 1]
    /\ inflight = {}
    /\ jobs = [j \in Jobs |-> IF j = j1
                THEN [intent |-> i1, state |-> "QUEUED", past |-> {"QUEUED"}] ELSE Unborn]
    /\ scancels = [j \in Jobs |-> 0]
    /\ cancelling = {}

\* The calls of a scenario; a control call is for the one claimed intent,
\* and there are three of them.
SubmitSends ==
    \E p \in Invocations, op \in {"Prepare", "Submit", "Inspect"}, i \in Intents : Send(p, op, i, None)
ControlSends ==
    /\ Cardinality({p \in Invocations : helper[p] # Unsent}) < 3
    /\ \E p \in Invocations, op \in {"ObserveJob", "CancelJob"}, j \in Jobs, i \in Intents \ {None} :
          claims[ScopeOf[i]] = i /\ Send(p, op, i, j)

MCInit == \/ scenario = "submit" /\ Init
          \/ scenario = "control" /\ SubmittedInit
MCNext ==
    /\ UNCHANGED scenario
    /\ \/ HelperNext
       \/ scenario = "submit" /\ SubmitSends
       \/ scenario = "control" /\ ControlSends
MCSpec == MCInit /\ [][MCNext]_<<vars, scenario>>
ControlSpec == SubmittedInit /\ scenario = "control" /\ [][MCNext]_<<vars, scenario>>
====

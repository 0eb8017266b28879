---------------------------- MODULE ProviderJobs ----------------------------
(* The jobs that go through an outbox, as the other parts of the cloud
   backend use them: a slot per job, whose entry is prepared, marked and
   posted once (CloudOutbox shows how).  A post may be executed later than
   its answer was given up on, and a read of the provider may fail. *)
EXTENDS Naturals

CONSTANTS Slots, \* the jobs the instance may ask for
          Limits \* the resource limits a configuration may give

VARIABLES
    slot, \* the outbox entry of each job
    pjob, \* its job at the provider
    limit \* the limits of the configuration

jobVars == <<slot, pjob, limit>>

Unrecorded == 0
NoSlot == [entry |-> "none", limits |-> Unrecorded]
Final == {"succeeded", "failed"}

JobsInit ==
    /\ slot = [s \in Slots |-> NoSlot]
    /\ pjob = [s \in Slots |-> "none"]
    /\ limit \in Limits

------------
\* Mutant: the configuration decides again.
ConfiguredLimits(s) == limit

(* with_result_limits: a job that is recorded keeps its limits. *)
LimitsFor(s) == IF slot[s].limits = Unrecorded THEN limit ELSE slot[s].limits

(* submit_once_or_reconcile: prepare, refused when the entry is of another
   job; then the mark and the POST, once. *)
SameLimits(s, limits) == slot[s].limits \in {Unrecorded, limits}
Submitted(s, limits) ==
    [slot EXCEPT ![s] = [entry |-> "started", limits |-> limits]]

\* The process stops between the record and the mark.
OnlyPrepared(s, limits) ==
    [slot EXCEPT ![s] = [entry |-> IF @.entry = "started" THEN @.entry ELSE "prepared",
                         limits |-> limits]]

(* proven_terminal: what a fresh read proves of a job. *)
Proven(s) == IF slot[s].entry = "started" /\ pjob[s] \in Final THEN pjob[s] ELSE "nothing"

\* The provider executes a POST, once, and runs the job to an end.
Accept(s) ==
    /\ slot[s].entry = "started" /\ pjob[s] = "none"
    /\ pjob' = [pjob EXCEPT ![s] = "running"]
    /\ UNCHANGED <<slot, limit>>
EndJob(s) ==
    /\ pjob[s] = "running"
    /\ \E end \in Final : pjob' = [pjob EXCEPT ![s] = end]
    /\ UNCHANGED <<slot, limit>>

\* The server restarts with another configuration.
Reconfigure ==
    /\ limit' \in Limits \ {limit}
    /\ UNCHANGED <<slot, pjob>>

JobsNext == (\E s \in Slots : Accept(s) \/ EndJob(s)) \/ Reconfigure

\* A job that is or may still be at work.
Alive(s) == slot[s].entry = "started" /\ pjob[s] \notin Final
=============================================================================

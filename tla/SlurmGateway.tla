---------------------------- MODULE SlurmGateway ----------------------------
(* What the Slurm helper promises its callers, with its files abstracted
   to one gate per submission scope: a scope is claimed by one intent,
   prepared, started and submitted in that order and never twice; a call
   may take effect at any time after it was sent, or never; and an answer
   is evidence of the gate at the moment it was given. *)
CONSTANTS Scopes, Intents, ScopeOf, Invocations, Operations, Jobs, None

ASSUME GatewayAssumption ==
    /\ ScopeOf \in [Intents -> Scopes]
    /\ None \notin Intents \cup Jobs
    /\ Operations \subseteq {"Prepare", "Submit", "Inspect", "ObserveJob", "CancelJob"}

VARIABLES
    gate,      \* per scope: its claim, its phase and the recorded job
    call,      \* per invocation: the request, its progress and its answer
    inflight,  \* intents whose sbatch may still reach the scheduler
    jobs       \* the intent each scheduler job was created for

gatewayVars == <<gate, call, inflight, jobs>>

Gates == [claim : Intents \cup {None},
          phase : {"FREE", "CLAIMED", "PREPARED", "STARTED", "SUBMITTED"},
          job : Jobs \cup {None}]

JobOperations == {"ObserveJob", "CancelJob"}
LedgerOperations == {"Prepare", "Submit", "Inspect"}

NoAnswer == [kind |-> "NONE", job |-> None]
Refused == [kind |-> "REFUSED", job |-> None]
Prepared == [kind |-> "PREPARED", job |-> None]
Submitted(j) == [kind |-> "SUBMITTED", job |-> j]
Observed(j) == [kind |-> "JOB_OBSERVED", job |-> j]

Unsent == [step |-> "unsent", op |-> "Inspect", intent |-> None, job |-> None,
           reply |-> NoAnswer]

CallSteps == {"unsent", "sent", "preparing", "starting", "sbatched", "recorded", "done"}
Replies == [kind : {"NONE", "REFUSED", "PREPARED", "SUBMITTED", "JOB_OBSERVED"},
            job : Jobs \cup {None}]
Requests == [step : CallSteps, op : JobOperations \cup LedgerOperations,
             intent : Intents \cup {None}, job : Jobs \cup {None}, reply : Replies]

GatewayInit ==
    /\ gate = [s \in Scopes |-> [claim |-> None, phase |-> "FREE", job |-> None]]
    /\ call = [p \in Invocations |-> Unsent]
    /\ inflight = {}
    /\ jobs = [j \in Jobs |-> None]

Gate(p) == gate[ScopeOf[call[p].intent]]
Holds(p, phase) == Gate(p).claim = call[p].intent /\ Gate(p).phase = phase
Move(p, phase) == gate' = [gate EXCEPT ![ScopeOf[call[p].intent]].phase = phase]
Go(p, step) == call' = [call EXCEPT ![p].step = step]
Reply(p, reply) == call' = [call EXCEPT ![p].step = "done", ![p].reply = reply]

------------
Send(p, op, i, j) ==
    /\ call[p] = Unsent
    /\ op \in JobOperations <=> j # None
    /\ call' = [call EXCEPT ![p] =
                  [step |-> "sent", op |-> op, intent |-> i, job |-> j, reply |-> NoAnswer]]
    /\ UNCHANGED <<gate, inflight, jobs>>

(* Everything a request can truthfully be told without changing the gate. *)
Evidence(p) ==
    {Refused}
    \cup {Submitted(j) : j \in {k \in Jobs : /\ call[p].op \in LedgerOperations
                                             /\ Holds(p, "SUBMITTED") /\ Gate(p).job = k}}
    \cup {a \in {Prepared} : call[p].op \in {"Prepare", "Inspect"} /\ Holds(p, "PREPARED")}
    \cup {Observed(j) : j \in {k \in Jobs : /\ call[p].op \in JobOperations
                                            /\ Holds(p, "SUBMITTED")
                                            /\ k = call[p].job /\ k = Gate(p).job}}

Answer(p) ==
    /\ call[p].step = "sent"
    /\ \E reply \in Evidence(p) : Reply(p, reply)
    /\ UNCHANGED <<gate, inflight, jobs>>

Claim(p) ==
    /\ call[p].step = "sent" /\ call[p].op = "Prepare" /\ Gate(p).claim = None
    /\ gate' = [gate EXCEPT ![ScopeOf[call[p].intent]] =
                  [claim |-> call[p].intent, phase |-> "CLAIMED", job |-> None]]
    /\ Go(p, "preparing")
    /\ UNCHANGED <<inflight, jobs>>

FinishPrepare(p) ==
    /\ call[p].step = "preparing" /\ Holds(p, "CLAIMED")
    /\ Move(p, "PREPARED")
    /\ \E reply \in {Prepared, Refused} : Reply(p, reply)
    /\ UNCHANGED <<inflight, jobs>>

\* Mutant: a started submission may be started again.
RestartsUnanswered(p) ==
    /\ call[p].step = "sent" /\ call[p].op = "Submit"
    /\ Holds(p, "PREPARED") \/ Holds(p, "STARTED")
    /\ Move(p, "STARTED")
    /\ Go(p, "starting")
    /\ UNCHANGED <<inflight, jobs>>

Start(p) ==
    /\ call[p].step = "sent" /\ call[p].op = "Submit" /\ Holds(p, "PREPARED")
    /\ Move(p, "STARTED")
    /\ Go(p, "starting")
    /\ UNCHANGED <<inflight, jobs>>

Sbatch(p) ==
    /\ call[p].step = "starting"
    /\ inflight' = inflight \cup {call[p].intent}
    /\ Go(p, "sbatched")
    /\ UNCHANGED <<gate, jobs>>

Record(p) ==
    /\ call[p].step = "sbatched"
    /\ \E j \in Jobs :
         /\ jobs[j] = call[p].intent
         /\ gate' = [gate EXCEPT ![ScopeOf[call[p].intent]].phase = "SUBMITTED",
                                 ![ScopeOf[call[p].intent]].job = j]
    /\ Go(p, "recorded")
    /\ UNCHANGED <<inflight, jobs>>

FinishSubmit(p) ==
    /\ call[p].step = "recorded"
    /\ Reply(p, Submitted(Gate(p).job))
    /\ UNCHANGED <<gate, inflight, jobs>>

(* The helper fails, is killed or finds its work undone: whatever it wrote
   stays, and its caller learns nothing. *)
Abandon(p) ==
    /\ call[p].step \notin {"unsent", "sent", "done"}
    /\ Reply(p, Refused)
    /\ UNCHANGED <<gate, inflight, jobs>>

(* The answer was read, or nobody is left to read it. *)
Forget(p) ==
    /\ call[p].step = "done"
    /\ call' = [call EXCEPT ![p] = Unsent]
    /\ UNCHANGED <<gate, inflight, jobs>>

CreateJob(i, j) ==
    /\ i \in inflight /\ jobs[j] = None
    /\ jobs' = [jobs EXCEPT ![j] = i]
    /\ inflight' = inflight \ {i}
    /\ UNCHANGED <<gate, call>>

RefuseJob(i) ==
    /\ i \in inflight
    /\ inflight' = inflight \ {i}
    /\ UNCHANGED <<gate, call, jobs>>

Serve(p) ==
    \/ Answer(p) \/ Claim(p) \/ FinishPrepare(p)
    \/ Start(p) \/ Sbatch(p) \/ Record(p) \/ FinishSubmit(p) \/ Abandon(p)

GatewayStep ==
    \/ \E p \in Invocations : Serve(p)
    \/ \E i \in Intents, j \in Jobs : CreateJob(i, j)
    \/ \E i \in Intents : RefuseJob(i)

GatewayNext ==
    \/ GatewayStep
    \/ \E p \in Invocations : Forget(p)
    \/ \E p \in Invocations, op \in Operations, i \in Intents, j \in Jobs \cup {None} :
         Send(p, op, i, j)

GatewaySpec == GatewayInit /\ [][GatewayNext]_gatewayVars

------------
(* Type invariant of the gateway's gates, calls and jobs. *)
GatewayTypeOK ==
    /\ gate \in [Scopes -> Gates]
    /\ call \in [Invocations -> Requests]
    /\ \A p \in Invocations : call[p].step # "unsent" => call[p].intent \in Intents
    /\ inflight \subseteq Intents
    /\ jobs \in [Jobs -> Intents \cup {None}]
=============================================================================

----------------------------- MODULE ActionStore -----------------------------
(* The authoritative Action storage of the server: immutable plans and
   private provider requests in files, executions and audit events in one
   SQLite database, every operation under the file lock .actions.lock.
   The callers are server operations (HTTP handlers, background work) that
   may run concurrently and may crash between any two durable writes.

   A caller goes through the store the way a provider runner does: it
   publishes a plan, later binds the request, claims the execution, makes
   the one provider call and commits what it learnt under the revision it
   saw when it claimed.  Calls on the same Action interleave freely here:
   no service lock is assumed, so what is shown rests on the store alone. *)
EXTENDS Integers, Sequences

CONSTANTS
    Callers,      \* server operations in flight
    Actions,      \* Action identities
    Digests,      \* request digests, one per plan content
    Ready,        \* the digests of plans that passed every gate
    Jobs,         \* provider job identities
    NoPlan, NoJob, Nobody,
    MaxRevision   \* bound on revisions: reconciliation stops there

ASSUME StoreAssumption ==
    /\ Ready \subseteq Digests
    /\ NoPlan \notin Digests
    /\ NoJob \notin Jobs
    /\ Nobody \notin Callers
    /\ MaxRevision \in Nat

VARIABLES
    plan,       \* plan.json: the digest of the published plan
    bound,      \* whether the private provider request was published
    row,        \* the executions row; revision 0 is "no row"
    events,     \* the audit events of the Action, in revision order
    lock,       \* the holder of .actions.lock
    call,       \* what each caller is doing
    expired,    \* the gate of the Action has expired
    dispatched  \* how many provider calls were made for the Action

vars == <<plan, bound, row, events, lock, call, expired, dispatched>>

------------
Status == {"PREPARED", "BLOCKED", "EXECUTING", "RECONCILE_REQUIRED", "VERIFIED"}
EventNames == {"action_prepared", "execution_started", "execution_interrupted_by_restart",
               "submission_verified", "submission_uncertain"}

NoRow == [revision |-> 0, status |-> "ABSENT", job |-> NoJob]
Rows == [revision : Nat, status : Status \cup {"ABSENT"}, job : Jobs \cup {NoJob}]
Events == [revision : Nat, event : EventNames, status : Status, job : Jobs \cup {NoJob}]

\* What the provider call, or a later inspection of it, told the runner.
Outcomes == [verified : BOOLEAN, job : Jobs \cup {NoJob}]

Steps == {"idle",
          "bootstrap",   \* holds the lock, plan published, the row may be missing
          "bind",        \* admitted the execution, about to bind the request
          "claim",       \* request bound, about to claim
          "decide",      \* holds the lock, the row exists, about to decide the claim
          "dispatch",    \* owns the claim, the provider call not yet made
          "answer",      \* waiting for evidence
          "finish",      \* has the outcome, about to commit it
          "interrupt"}   \* saw EXECUTING, about to record the interruption

NoOutcome == [verified |-> FALSE, job |-> NoJob]
Began(step, a, timely, seen) ==
    [step |-> step, action |-> a, then |-> "idle", timely |-> timely,
     seen |-> seen, outcome |-> NoOutcome]
Idle == Began("idle", NoPlan, FALSE, NoRow)

Init ==
    /\ plan = [a \in Actions |-> NoPlan]
    /\ bound = [a \in Actions |-> FALSE]
    /\ row = [a \in Actions |-> NoRow]
    /\ events = [a \in Actions |-> <<>>]
    /\ lock = Nobody
    /\ call = [c \in Callers |-> Idle]
    /\ expired = [a \in Actions |-> FALSE]
    /\ dispatched = [a \in Actions |-> 0]

------------
(* One database transaction: compare the expected status and the revision
   the proposal was made from, then write the row and its audit event. *)

\* Mutant: the revision is not compared.
CommitsStaleRevision(a, from, expected) ==
    expected # "ANY" => row[a].status = expected

CanCommit(a, from, expected) ==
    /\ expected # "ANY" => row[a].status = expected
    /\ row[a].revision = from.revision

Commit(a, from, status, job, event) ==
    /\ row' = [row EXCEPT ![a] =
                 [revision |-> from.revision + 1, status |-> status, job |-> job]]
    /\ events' = [events EXCEPT ![a] = Append(@,
                 [revision |-> from.revision + 1, event |-> event,
                  status |-> status, job |-> job])]

Goto(c, step) == call' = [call EXCEPT ![c].step = step]
Return(c) == call' = [call EXCEPT ![c] = Idle]

InitialStatus(a) == IF plan[a] \in Ready THEN "PREPARED" ELSE "BLOCKED"

------------
(* save_plan: publish plan.json unless it is there, refuse another content
   under the same identity, then make sure the row exists. *)
SavePlan(c, a, d) ==
    /\ call[c].step = "idle" /\ lock = Nobody
    /\ plan[a] \in {NoPlan, d}
    /\ plan' = [plan EXCEPT ![a] = d]
    /\ lock' = c
    /\ call' = [call EXCEPT ![c] = Began("bootstrap", a, FALSE, NoRow)]
    /\ UNCHANGED <<bound, row, events, expired, dispatched>>

(* execution(): the row is committed from the plan when it is missing,
   which a crash after publishing plan.json leaves to the next operation. *)
Bootstrap(c) ==
    LET a == call[c].action IN
    /\ call[c].step = "bootstrap"
    /\ IF row[a] = NoRow
         THEN Commit(a, NoRow, InitialStatus(a), NoJob, "action_prepared")
         ELSE UNCHANGED <<row, events>>
    /\ IF call[c].then = "idle"
         THEN Return(c) /\ lock' = Nobody
         ELSE Goto(c, call[c].then) /\ UNCHANGED lock
    /\ UNCHANGED <<plan, bound, expired, dispatched>>

(* snapshot and list: any reader of a published plan completes the row. *)
Snapshot(c, a) ==
    /\ call[c].step = "idle" /\ lock = Nobody /\ plan[a] # NoPlan
    /\ lock' = c
    /\ call' = [call EXCEPT ![c] = Began("bootstrap", a, FALSE, NoRow)]
    /\ UNCHANGED <<plan, bound, row, events, expired, dispatched>>

(* The runner's admission: observe refuses an Action whose row was not
   committed.  The command's clock reading is taken here, before the
   claim waits for the lock. *)
BeginExecute(c, a) ==
    /\ call[c].step = "idle" /\ lock = Nobody
    /\ row[a] # NoRow /\ plan[a] # NoPlan
    /\ call' = [call EXCEPT ![c] = Began("bind", a, ~ expired[a], NoRow)]
    /\ UNCHANGED <<plan, bound, row, events, lock, expired, dispatched>>

\* Mutant: the caller loses track of the Action it bound.
BindForgets(c) ==
    LET a == call[c].action IN
    /\ call[c].step = "bind" /\ lock = Nobody
    /\ bound[a] \/ row[a].status = "PREPARED"
    /\ bound' = [bound EXCEPT ![a] = TRUE]
    /\ call' = [call EXCEPT ![c] = Began("claim", NoPlan, FALSE, NoRow)]
    /\ UNCHANGED <<plan, row, events, lock, expired, dispatched>>

(* bind_*_request: an existing request must be the same one (the plan's
   digests admit only one); a missing one is published for PREPARED only. *)
Bind(c) ==
    LET a == call[c].action IN
    /\ call[c].step = "bind" /\ lock = Nobody
    /\ IF bound[a] \/ row[a].status = "PREPARED"
         THEN bound' = [bound EXCEPT ![a] = TRUE] /\ Goto(c, "claim")
         ELSE Return(c) /\ UNCHANGED bound
    /\ UNCHANGED <<plan, row, events, lock, expired, dispatched>>

(* claim, first half: take the lock and bootstrap the row if need be. *)
BeginClaim(c) ==
    /\ call[c].step = "claim" /\ lock = Nobody
    /\ lock' = c
    /\ call' = [call EXCEPT ![c].step = "bootstrap", ![c].then = "decide"]
    /\ UNCHANGED <<plan, bound, row, events, expired, dispatched>>

(* operations::claim: only a ready PREPARED Action whose command was
   issued before the gate expired. *)
MayClaim(a, timely) ==
    /\ row[a].status = "PREPARED"
    /\ plan[a] \in Ready
    /\ timely

(* Mutant: an Action that is already EXECUTING is handed out again. *)
ClaimsAgain(c) ==
    LET a == call[c].action IN
    /\ call[c].step = "decide"
    /\ lock' = Nobody
    /\ IF row[a].status = "EXECUTING"
         THEN /\ call' = [call EXCEPT ![c].step = "dispatch", ![c].seen = row[a]]
              /\ UNCHANGED <<row, events>>
         ELSE IF MayClaim(a, call[c].timely)
         THEN /\ Commit(a, row[a], "EXECUTING", row[a].job, "execution_started")
              /\ call' = [call EXCEPT ![c].step = "dispatch", ![c].seen = row'[a]]
         ELSE Return(c) /\ UNCHANGED <<row, events>>
    /\ UNCHANGED <<plan, bound, expired, dispatched>>

(* claim, second half: commit the claim and return the dispatch right to
   this caller alone; VERIFIED and every refusal return without it. *)
DecideClaim(c) ==
    LET a == call[c].action IN
    /\ call[c].step = "decide"
    /\ lock' = Nobody
    /\ IF MayClaim(a, call[c].timely)
         THEN /\ CanCommit(a, row[a], "PREPARED")
              /\ Commit(a, row[a], "EXECUTING", row[a].job, "execution_started")
              /\ call' = [call EXCEPT ![c].step = "dispatch", ![c].seen = row'[a]]
         ELSE Return(c) /\ UNCHANGED <<row, events>>
    /\ UNCHANGED <<plan, bound, expired, dispatched>>

(* The one provider call of this claim.  The guard may refuse it, which
   leaves the outcome uncertain without a call. *)
Dispatch(c) ==
    LET a == call[c].action IN
    /\ call[c].step = "dispatch"
    /\ \E made \in {0, 1} : dispatched' = [dispatched EXCEPT ![a] = @ + made]
    /\ Goto(c, "answer")
    /\ UNCHANGED <<plan, bound, row, events, lock, expired>>

(* Mutant: an uncertain submission is retried instead of inspected. *)
RetriesUncertain(c, a) ==
    /\ call[c].step = "idle" /\ lock = Nobody
    /\ bound[a] /\ row[a].status = "RECONCILE_REQUIRED"
    /\ call' = [call EXCEPT ![c] = Began("dispatch", a, FALSE, row[a])]
    /\ UNCHANGED <<plan, bound, row, events, lock, expired, dispatched>>

(* reconcile: only RECONCILE_REQUIRED with its bound request is inspected. *)
BeginReconcile(c, a) ==
    /\ call[c].step = "idle" /\ lock = Nobody
    /\ bound[a] /\ row[a].status = "RECONCILE_REQUIRED"
    /\ row[a].revision < MaxRevision
    /\ call' = [call EXCEPT ![c] = Began("answer", a, FALSE, row[a])]
    /\ UNCHANGED <<plan, bound, row, events, lock, expired, dispatched>>

(* Evidence arrives: an owned job, a job whose ownership is unproven, or
   nothing.  No assumption is made on which job the provider names. *)
Answer(c) ==
    /\ call[c].step = "answer"
    /\ \E o \in Outcomes :
         /\ o.verified => o.job # NoJob
         /\ call' = [call EXCEPT ![c].step = "finish", ![c].outcome = o]
    /\ UNCHANGED <<plan, bound, row, events, lock, expired, dispatched>>

(* finish + commit: reduce the outcome over the execution the caller saw.
   A job other than the recorded one is refused; a changed row is a
   conflict and the outcome is lost. *)
Resolved(c) ==
    LET known == call[c].seen.job
        named == call[c].outcome.job
    IN IF named = NoJob THEN known ELSE named

\* Mutant: evidence naming another job replaces the recorded one.
FinishesAnyJob(c) ==
    LET a == call[c].action
        seen == call[c].seen
    IN /\ seen.status \in {"EXECUTING", "RECONCILE_REQUIRED"}
       /\ CanCommit(a, seen, seen.status)

MayFinish(c) ==
    LET a == call[c].action
        seen == call[c].seen
    IN /\ seen.status \in {"EXECUTING", "RECONCILE_REQUIRED"}
       /\ seen.job \in {NoJob, Resolved(c)}
       /\ CanCommit(a, seen, seen.status)

Finish(c) ==
    LET a == call[c].action
        verified == call[c].outcome.verified
    IN
    /\ call[c].step = "finish" /\ lock = Nobody
    /\ IF MayFinish(c)
         THEN Commit(a, call[c].seen, IF verified THEN "VERIFIED" ELSE "RECONCILE_REQUIRED",
                     Resolved(c),
                     IF verified THEN "submission_verified" ELSE "submission_uncertain")
         ELSE UNCHANGED <<row, events>>
    /\ Return(c)
    /\ UNCHANGED <<plan, bound, lock, expired, dispatched>>

(* recover_interrupted: record that an EXECUTING claim lost its executor. *)
BeginInterrupt(c, a) ==
    /\ call[c].step = "idle" /\ lock = Nobody
    /\ row[a].status = "EXECUTING"
    /\ call' = [call EXCEPT ![c] = Began("interrupt", a, FALSE, row[a])]
    /\ UNCHANGED <<plan, bound, row, events, lock, expired, dispatched>>

\* Mutant: an interrupted execution goes back to PREPARED.
InterruptRequeues(c) ==
    LET a == call[c].action IN
    /\ call[c].step = "interrupt" /\ lock = Nobody
    /\ IF CanCommit(a, call[c].seen, "EXECUTING")
         THEN Commit(a, call[c].seen, "PREPARED", call[c].seen.job,
                     "execution_interrupted_by_restart")
         ELSE UNCHANGED <<row, events>>
    /\ Return(c)
    /\ UNCHANGED <<plan, bound, lock, expired, dispatched>>

Interrupt(c) ==
    LET a == call[c].action IN
    /\ call[c].step = "interrupt" /\ lock = Nobody
    /\ IF CanCommit(a, call[c].seen, "EXECUTING")
         THEN Commit(a, call[c].seen, "RECONCILE_REQUIRED", call[c].seen.job,
                     "execution_interrupted_by_restart")
         ELSE UNCHANGED <<row, events>>
    /\ Return(c)
    /\ UNCHANGED <<plan, bound, lock, expired, dispatched>>

(* A caller dies between two steps; the kernel drops its file lock. *)
Crash(c) ==
    /\ call[c].step # "idle"
    /\ Return(c)
    /\ lock' = IF lock = c THEN Nobody ELSE lock
    /\ UNCHANGED <<plan, bound, row, events, expired, dispatched>>

Expire(a) ==
    /\ ~ expired[a]
    /\ expired' = [expired EXCEPT ![a] = TRUE]
    /\ UNCHANGED <<plan, bound, row, events, lock, call, dispatched>>

Work(c) ==
    \/ Bootstrap(c) \/ Bind(c) \/ BeginClaim(c) \/ DecideClaim(c) \/ Dispatch(c)
    \/ Answer(c) \/ Finish(c) \/ Interrupt(c)

Begin(c, a) ==
    \/ \E d \in Digests : SavePlan(c, a, d)
    \/ Snapshot(c, a) \/ BeginExecute(c, a) \/ BeginReconcile(c, a) \/ BeginInterrupt(c, a)

Next ==
    \/ \E c \in Callers : Work(c) \/ Crash(c)
    \/ \E c \in Callers, a \in Actions : Begin(c, a)
    \/ \E a \in Actions : Expire(a)

Spec == Init /\ [][Next]_vars

------------
Calls == [step : Steps, action : Actions \cup {NoPlan}, then : {"idle", "decide"},
          timely : BOOLEAN, seen : Rows, outcome : Outcomes]

(* Type invariant of the store's files, tables and callers. *)
TypeOK ==
    /\ plan \in [Actions -> Digests \cup {NoPlan}]
    /\ bound \in [Actions -> BOOLEAN]
    /\ row \in [Actions -> Rows]
    /\ events \in [Actions -> Seq(Events)]
    /\ lock \in Callers \cup {Nobody}
    /\ call \in [Callers -> Calls]
    /\ \A c \in Callers : call[c].step # "idle" => call[c].action \in Actions
    /\ expired \in [Actions -> BOOLEAN]
    /\ dispatched \in [Actions -> Nat]

Started(a) == row[a].status \in {"EXECUTING", "RECONCILE_REQUIRED", "VERIFIED"}

(* At most one provider call is ever made for an Action, whatever callers
   race, crash, retry or recover it, and never before the claim, the plan
   and the private request are durable ("claim" and "bind_slurm_request"). *)
OneCall ==
    \A a \in Actions :
        /\ dispatched[a] \in {0, 1}
        /\ dispatched[a] = 1 => Started(a) /\ bound[a] /\ plan[a] \in Ready

(* The audit events explain the row: one event per revision without a gap,
   the last one carries the row's status and job, and each follows its
   predecessor legally ("state+audit atomicity" of Database::commit). *)
Follows(e, f) ==
    /\ f.revision = e.revision + 1
    /\ e.job # NoJob => f.job = e.job
    /\ \/ e.status = "PREPARED" /\ f.event = "execution_started"
       \/ e.status = "EXECUTING" /\ f.event \in {"execution_interrupted_by_restart",
                                                 "submission_verified", "submission_uncertain"}
       \/ e.status = "RECONCILE_REQUIRED" /\ f.event \in {"submission_verified",
                                                          "submission_uncertain"}

AuditExplains ==
    \A a \in Actions :
        /\ Len(events[a]) = row[a].revision
        /\ \A i \in 1..Len(events[a]) :
             /\ events[a][i].event = "action_prepared" <=> i = 1
             /\ i > 1 => Follows(events[a][i - 1], events[a][i])
        /\ row[a].revision > 0 =>
             LET last == events[a][Len(events[a])]
             IN last = [revision |-> row[a].revision, event |-> last.event,
                        status |-> row[a].status, job |-> row[a].job]

(* A caller that still owns the dispatch right is the only one, and the
   call was not made yet: two callers can never both be told to execute. *)
OneDispatcher ==
    \A c, d \in Callers :
        call[c].step = "dispatch" =>
            /\ dispatched[call[c].action] = 0
            /\ call[d].step = "dispatch" /\ call[d].action = call[c].action => c = d

(* What a step may never do: take back VERIFIED, change a known job, or
   replace a published plan. *)
NeverTakenBack ==
    [][\A a \in Actions :
         /\ row[a].status = "VERIFIED" => row'[a] = row[a]
         /\ row[a].job # NoJob => row'[a].job = row[a].job
         /\ plan[a] # NoPlan => plan'[a] = plan[a]]_vars

(* The store implements the life cycle it promises its callers. *)
Lifecycle == INSTANCE ActionLifecycle WITH
    status <- [a \in Actions |-> row[a].status],
    job <- [a \in Actions |-> row[a].job],
    dispatched <- {a \in Actions : dispatched[a] > 0}

ImplementsLifecycle == Lifecycle!Spec

(* One caller at a time is between the claim of an Action and its answer,
   and the audit trail explains the row. *)
CallsAreExplained == TypeOK /\ OneDispatcher /\ AuditExplains
=============================================================================

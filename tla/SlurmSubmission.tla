-------------------------- MODULE SlurmSubmission --------------------------
(* The Slurm service over the gateway: HTTP requests that prepare, renew,
   execute and reconcile the submission of one Attempt under one
   non-blocking service lock, while their SSH calls are lost, delayed or
   outlive the request and the server that made them.  An original Action
   and its renewals share one frozen intent and one submission token. *)
EXTENDS SlurmGateway

CONSTANTS
    Actions,   \* Actions of the Attempt: the prepared one and its renewals
    Frozen,    \* the intent they all submit
    Commands,  \* the requests this instance offers
    Threads,   \* HTTP requests the server works on at the same time
    Renewals   \* identities of renewal requests

ASSUME SubmissionAssumption ==
    /\ Frozen \in Intents
    /\ Commands \subseteq {"Prepare", "Renew", "Execute", "Reconcile"}
    /\ {"Prepare", "Submit", "Inspect", "ObserveJob"} \subseteq Operations
    /\ None \notin Actions \cup Jobs \cup Invocations \cup Threads

VARIABLES
    status,    \* the execution status of each Action
    result,    \* the job recorded in its result
    expired,   \* Actions whose gate has expired
    slot,      \* the Action of the Attempt's preparation slot
    archived,  \* Actions with an archived preparation
    records,   \* renewal request -> the Action it renews and the replacement
    successor, \* renewal-next links
    lock,      \* the holder of .submissions.lock
    thread     \* the requests being worked on

saved == <<status, result, slot, archived, records, successor>>
serverVars == <<saved, expired, lock, thread>>
vars == <<gatewayVars, serverVars>>

Statuses == {"NONE", "PREPARED", "EXECUTING", "RECONCILE_REQUIRED", "VERIFIED"}
AllCommands == {"Prepare", "Renew", "Execute", "Reconcile"}

NoRecord == [original |-> None, replacement |-> None]
NoThread == [step |-> "idle", command |-> "Prepare", action |-> None, late |-> FALSE,
             renewal |-> None, other |-> None, call |-> None, job |-> None]

Init ==
    /\ GatewayInit
    /\ status = [a \in Actions |-> "NONE"]
    /\ result = [a \in Actions |-> None]
    /\ expired = {}
    /\ slot = None
    /\ archived = {}
    /\ records = [w \in Renewals |-> NoRecord]
    /\ successor = [a \in Actions |-> None]
    /\ lock = None
    /\ thread = [r \in Threads |-> NoThread]

Action(r) == thread[r].action
Fresh(a) == /\ status[a] = "NONE" /\ a \notin archived \cup {slot}
            /\ \A w \in Renewals : records[w].replacement # a

\* load: the archive of the Action, or the slot if it is the Action's.
Loadable(a) == a \in archived \/ slot = a

------------
(* A request arrives.  Its clock is read now, before any lock: late tells
   whether the gate of its Action had expired by then. *)
Arrive(r, command, a, w) ==
    /\ thread[r] = NoThread
    /\ command = "Prepare" <=> a = None
    /\ command = "Renew" <=> w # None
    /\ a # None => status[a] # "NONE"
    /\ thread' = [thread EXCEPT ![r] = [NoThread EXCEPT
                    !.step = "arrived", !.command = command, !.action = a,
                    !.late = command \in {"Renew", "Execute"} /\ a \in expired,
                    !.renewal = w]]
    /\ UNCHANGED <<gatewayVars, saved, expired, lock>>

(* Busy, disabled, or refused by the Run's facts: nothing has changed. *)
Refuse(r) ==
    /\ thread[r].step = "arrived"
    /\ thread' = [thread EXCEPT ![r] = NoThread]
    /\ UNCHANGED <<gatewayVars, saved, expired, lock>>

Locks(r, command) == thread[r].step = "arrived" /\ thread[r].command = command /\ lock = None
Admitted(r, command) == Locks(r, command) /\ Loadable(Action(r))
Enter(r, changed) == lock' = r /\ thread' = [thread EXCEPT ![r] = changed]
Continue(r, step) == thread' = [thread EXCEPT ![r].step = step] /\ UNCHANGED lock
Leave(r) == thread' = [thread EXCEPT ![r] = NoThread] /\ lock' = None
At(r, step) == thread[r].step = step

\* The status a request that makes calls committed before its first one.
Claimed(r) == IF thread[r].command = "Execute" THEN "EXECUTING" ELSE "RECONCILE_REQUIRED"
Calls(r) == thread[r].step \in Operations \cup {"owned", "uncertain"}

(* prepare: reuse the immutable slot, or publish a new one. *)
BeginPrepare(r) ==
    /\ Locks(r, "Prepare")
    /\ \E a \in Actions :
         /\ IF slot = None THEN Fresh(a) ELSE a = slot
         /\ slot' = a
         /\ Enter(r, [thread[r] EXCEPT !.step = "plan", !.action = a])
    /\ UNCHANGED <<gatewayVars, status, result, expired, archived, records, successor>>

(* renew: the recorded candidate of a repeated request, or a new one for
   an expired Action that never started and still owns the slot. *)
BeginRenew(r) ==
    LET a == Action(r)
        record == records[thread[r].renewal]
    IN /\ Admitted(r, "Renew")
       /\ \E b \in Actions :
            /\ \/ record = [original |-> a, replacement |-> b]
               \/ /\ record = NoRecord /\ slot = a /\ Fresh(b)
                  /\ thread[r].late /\ status[a] = "PREPARED"
            /\ Enter(r, [thread[r] EXCEPT !.step = "archive", !.other = b])
       /\ UNCHANGED <<gatewayVars, saved, expired>>

\* Mutant: only the replacement is archived.
ArchivesReplacement(r) ==
    /\ At(r, "archive")
    /\ archived' = archived \cup {thread[r].other}
    /\ Continue(r, "record")
    /\ UNCHANGED <<gatewayVars, status, result, expired, slot, records, successor>>

\* Mutant: the archive is named by the request, not by the Action.
ArchivesRequest(r) ==
    /\ At(r, "archive")
    /\ archived' = archived \cup {thread[r].renewal}
    /\ Continue(r, "record")
    /\ UNCHANGED <<gatewayVars, status, result, expired, slot, records, successor>>

Archive(r) ==
    /\ At(r, "archive")
    /\ IF Action(r) \in archived
         THEN archived' = archived \cup {thread[r].other} /\ Continue(r, "record")
         ELSE archived' = archived \cup {Action(r)} /\ Continue(r, "archive")
    /\ UNCHANGED <<gatewayVars, status, result, expired, slot, records, successor>>

RetainRecord(r) ==
    /\ At(r, "record")
    /\ records' = [records EXCEPT ![thread[r].renewal] =
                     [original |-> Action(r), replacement |-> thread[r].other]]
    /\ Continue(r, "plan")
    /\ UNCHANGED <<gatewayVars, status, result, expired, slot, archived, successor>>

(* save_plan and bind_slurm_request, both idempotent. *)
SavePlan(r) ==
    LET a == IF thread[r].command = "Renew" THEN thread[r].other ELSE Action(r)
    IN /\ At(r, "plan")
       /\ status' = IF status[a] = "NONE" THEN [status EXCEPT ![a] = "PREPARED"] ELSE status
       /\ IF thread[r].command = "Renew" THEN Continue(r, "link") ELSE Leave(r)
       /\ UNCHANGED <<gatewayVars, result, expired, slot, archived, records, successor>>

(* The link of the original is immutable: a second replacement, planned
   after a crash of the first renewal, stops here. *)
Link(r) ==
    /\ At(r, "link")
    /\ IF successor[Action(r)] \in {None, thread[r].other}
         THEN /\ successor' = [successor EXCEPT ![Action(r)] = thread[r].other]
              /\ Continue(r, "slot")
         ELSE Leave(r) /\ UNCHANGED successor
    /\ UNCHANGED <<gatewayVars, status, result, expired, slot, archived, records>>

ReplaceSlot(r) ==
    /\ At(r, "slot")
    /\ slot' = IF slot = Action(r) THEN thread[r].other ELSE slot
    /\ Leave(r)
    /\ UNCHANGED <<gatewayVars, status, result, expired, archived, records, successor>>

------------
\* Mutant: the first call is made before the claim is durable.
CallsFirst(r) ==
    /\ Admitted(r, "Execute")
    /\ status[Action(r)] = "PREPARED" /\ ~ thread[r].late
    /\ Enter(r, [thread[r] EXCEPT !.step = "Prepare"])
    /\ UNCHANGED <<gatewayVars, saved, expired>>

(* Runner.execute: the claim is durable before the first call.  Whether
   the gate expired is judged by the clock the request arrived with. *)
BeginExecute(r) ==
    /\ Admitted(r, "Execute")
    /\ status[Action(r)] = "PREPARED" /\ ~ thread[r].late
    /\ status' = [status EXCEPT ![Action(r)] = "EXECUTING"]
    /\ Enter(r, [thread[r] EXCEPT !.step = "Prepare"])
    /\ UNCHANGED <<gatewayVars, result, expired, slot, archived, records, successor>>

\* Mutant: reconcile does not take the service lock.
ReconcilesUnlocked(r) ==
    LET a == Action(r)
    IN /\ At(r, "arrived") /\ thread[r].command = "Reconcile" /\ Loadable(a)
       /\ status[a] \in {"EXECUTING", "RECONCILE_REQUIRED"}
       /\ status' = [status EXCEPT ![a] = "RECONCILE_REQUIRED"]
       /\ Continue(r, "Inspect")
       /\ UNCHANGED <<gatewayVars, result, expired, slot, archived, records, successor>>

(* reconcile: whoever claimed the Action is dead if the lock is free. *)
BeginReconcile(r) ==
    LET a == Action(r)
    IN /\ Admitted(r, "Reconcile")
       /\ status[a] \in {"EXECUTING", "RECONCILE_REQUIRED"}
       /\ status' = [status EXCEPT ![a] = "RECONCILE_REQUIRED"]
       /\ Enter(r, [thread[r] EXCEPT !.step = "Inspect"])
       /\ UNCHANGED <<gatewayVars, result, expired, slot, archived, records, successor>>

(* rpc: one SSH call per step; none is made once the guard fails or the
   deadline has passed. *)
Rpc(r) ==
    /\ thread[r].step \in Operations /\ thread[r].call = None
    /\ \E p \in Invocations :
         /\ Send(p, thread[r].step, Frozen, thread[r].job)
         /\ thread' = [thread EXCEPT ![r].call = p]
    /\ UNCHANGED <<saved, expired, lock>>

AfterReply(r, reply) ==
    IF thread[r].step = "Prepare" /\ reply.kind = "PREPARED"
      THEN [thread[r] EXCEPT !.step = "Submit", !.call = None]
    ELSE IF thread[r].step \in LedgerOperations /\ reply.kind = "SUBMITTED"
      THEN [thread[r] EXCEPT !.step = "ObserveJob", !.call = None, !.job = reply.job]
    ELSE IF thread[r].step = "ObserveJob" /\ reply.kind = "JOB_OBSERVED"
      THEN [thread[r] EXCEPT !.step = "owned", !.call = None]
    ELSE [thread[r] EXCEPT !.step = "uncertain", !.call = None]

Receive(r) ==
    LET p == thread[r].call
    IN /\ thread[r].step \in Operations /\ p # None /\ call[p].step = "done"
       /\ thread' = [thread EXCEPT ![r] = AfterReply(r, call[p].reply)]
       /\ Forget(p)
       /\ UNCHANGED <<saved, expired, lock>>

\* Mutant: only a call that was never made is given up.
WaitsForCall(r) ==
    /\ thread[r].step \in Operations /\ thread[r].call = None
    /\ thread' = [thread EXCEPT ![r].step = "uncertain"]
    /\ UNCHANGED <<gatewayVars, saved, expired, lock>>

(* The deadline passes, the connection breaks, or the guard fails before
   or after the call, which may still be executed. *)
GiveUp(r) ==
    /\ thread[r].step \in Operations
    /\ thread' = [thread EXCEPT ![r].step = "uncertain", ![r].call = None]
    /\ UNCHANGED <<gatewayVars, saved, expired, lock>>

\* Mutant: an uncertain outcome overwrites the job known before.
FinishForgets(r) ==
    LET a == Action(r)
    IN /\ thread[r].step \in {"owned", "uncertain"}
       /\ status[a] = Claimed(r)
       /\ result' = [result EXCEPT ![a] = thread[r].job]
       /\ status' = [status EXCEPT ![a] = IF thread[r].step = "owned" THEN "VERIFIED"
                                           ELSE "RECONCILE_REQUIRED"]
       /\ Leave(r)
       /\ UNCHANGED <<gatewayVars, expired, slot, archived, records, successor>>

\* finish: only an owned job is VERIFIED, and only while the guard holds.
Resolved(r) ==
    {"RECONCILE_REQUIRED"} \cup {v \in {"VERIFIED"} : thread[r].step = "owned"}

(* persist and finish: a job already recorded is never exchanged, and
   nothing is committed over a status that is not the request's own. *)
Finish(r) ==
    LET a == Action(r)
        known == IF thread[r].job # None THEN thread[r].job ELSE result[a]
    IN /\ thread[r].step \in {"owned", "uncertain"}
       /\ IF status[a] = Claimed(r) /\ result[a] \in {None, known}
            THEN /\ result' = [result EXCEPT ![a] = known]
                 /\ \E to \in Resolved(r) : status' = [status EXCEPT ![a] = to]
            ELSE UNCHANGED <<status, result>>
       /\ Leave(r)
       /\ UNCHANGED <<gatewayVars, expired, slot, archived, records, successor>>

------------
(* The server stops: its requests end, its lock is released, its calls run
   on at the gateway. *)
Crash ==
    /\ \E r \in Threads : thread[r] # NoThread
    /\ thread' = [r \in Threads |-> NoThread]
    /\ lock' = None
    /\ UNCHANGED <<gatewayVars, saved, expired>>

Expire(a) ==
    /\ status[a] # "NONE" /\ a \notin expired
    /\ expired' = expired \cup {a}
    /\ UNCHANGED <<gatewayVars, saved, lock, thread>>

\* An SSH call outlives its request; its answer is read by nobody.
ForgetOrphan(p) ==
    /\ \A r \in Threads : thread[r].call # p
    /\ Forget(p)
    /\ UNCHANGED serverVars

Work(r) ==
    \/ BeginPrepare(r) \/ BeginRenew(r) \/ BeginExecute(r) \/ BeginReconcile(r)
    \/ Archive(r) \/ RetainRecord(r) \/ SavePlan(r) \/ Link(r) \/ ReplaceSlot(r)
    \/ Rpc(r) \/ Receive(r) \/ GiveUp(r) \/ Finish(r)

Next ==
    \/ \E r \in Threads, command \in Commands, a \in Actions \cup {None},
          w \in Renewals \cup {None} : Arrive(r, command, a, w)
    \/ \E r \in Threads : Refuse(r) \/ Work(r)
    \/ Crash
    \/ \E a \in Actions : Expire(a)
    \/ GatewayStep /\ UNCHANGED serverVars
    \/ \E p \in Invocations : ForgetOrphan(p)

(* A request that holds the lock runs on: every wait has a deadline. *)
Fairness == \A r \in Threads : WF_vars(lock = r /\ Work(r))

Spec == Init /\ [][Next]_vars /\ Fairness

------------
ThreadSteps == {"idle", "arrived", "plan", "archive", "record", "link", "slot",
                "owned", "uncertain"} \cup Operations

ThreadStates ==
    [step : ThreadSteps, command : AllCommands, action : Actions \cup {None}, late : BOOLEAN,
     renewal : Renewals \cup {None}, other : Actions \cup {None},
     call : Invocations \cup {None}, job : Jobs \cup {None}]

(* Type invariant of the service's files, its lock and its requests. *)
TypeOK ==
    /\ GatewayTypeOK
    /\ status \in [Actions -> Statuses]
    /\ result \in [Actions -> Jobs \cup {None}]
    /\ expired \subseteq Actions /\ archived \subseteq Actions
    /\ slot \in Actions \cup {None}
    /\ records \in [Renewals -> [original : Actions \cup {None},
                                 replacement : Actions \cup {None}]]
    /\ successor \in [Actions -> Actions \cup {None}]
    /\ lock \in Threads \cup {None}
    /\ thread \in [Threads -> ThreadStates]

(* However often an Attempt is executed, renewed, reconciled and repeated,
   by whatever Actions, the scheduler sees one job at most, and every
   Action that names a job names that one: it exists and is the one the
   gateway's receipt is for. *)
OneJobPerAttempt ==
    /\ \A j, k \in Jobs : jobs[j] = Frozen /\ jobs[k] = Frozen => j = k
    /\ Frozen \in inflight => \A j \in Jobs : jobs[j] # Frozen
    /\ \A a \in Actions : result[a] # None =>
         jobs[result[a]] = Frozen /\ gate[ScopeOf[Frozen]].job = result[a]
    /\ \A a \in Actions : status[a] = "VERIFIED" => result[a] # None

(* Nothing is asked of the gateway for an Action that was not durably
   claimed first ("A successful claim is durably committed before the
   first RPC"). *)
ClaimedBeforeCalled ==
    /\ \A p \in Invocations :
         call[p].op \in {"Prepare", "Submit"} /\ call[p].step # "unsent" =>
            \E a \in Actions : status[a] \notin {"NONE", "PREPARED"}
    /\ \A a \in Actions : status[a] \in {"NONE", "PREPARED"} => result[a] = None

(* The service lock tells an executor in flight from a dead claimant: what
   a live executor or reconciler will commit on top of is still there. *)
ClaimantIsUndisturbed ==
    \A r \in Threads : Calls(r) => status[Action(r)] = Claimed(r)

(* Every Action that was ever planned can still be loaded, and so executed
   or reconciled, whatever renewals did to the slot before they crashed. *)
PlannedIsLoadable ==
    \A a \in Actions : status[a] # "NONE" => Loadable(a)

(* What is known of a submission is kept: a recorded job is never replaced
   and VERIFIED is final, whichever request or server commits next. *)
KnownIsKept ==
    [][\A a \in Actions :
         /\ result[a] # None => result'[a] = result[a]
         /\ status[a] = "VERIFIED" => status'[a] = "VERIFIED"
         /\ status[a] \in {"EXECUTING", "RECONCILE_REQUIRED"} =>
              status'[a] \notin {"NONE", "PREPARED"}]_vars

(* The service lock is always released, also when helpers hang or die. *)
LockIsReleased ==
    \A r \in Threads : lock = r ~> lock # r

(* Who claims an Action can load its plan, claims it before the helper is
   called, and is not disturbed until its answer is saved. *)
ClaimsAreHonoured == TypeOK /\ PlannedIsLoadable /\ ClaimedBeforeCalled /\ ClaimantIsUndisturbed
=============================================================================

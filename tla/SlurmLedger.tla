----------------------------- MODULE SlurmLedger -----------------------------
(* The Slurm gateway helper: one process per SSH call, over a ledger of
   files per submission scope (project, run, attempt) under one flock.
   Every file is published or replaced atomically, a helper may die
   between any two of them, and sbatch and scancel act on a scheduler
   whose effects may outlive the process that asked for them. *)
EXTENDS Integers, FiniteSets

CONSTANTS
    Scopes,        \* project/run/attempt identities
    Intents,       \* frozen intents: manifest, script, submission token
    ScopeOf,       \* the scope an intent is frozen for
    Invocations,   \* helper processes, one per SSH call
    Operations,    \* the operations this instance of the protocol uses
    Jobs,          \* scheduler job identities
    None

AllOperations == {"Prepare", "Submit", "Inspect", "ObserveJob", "CancelJob"}

ASSUME LedgerAssumption ==
    /\ ScopeOf \in [Intents -> Scopes]
    /\ Operations \subseteq AllOperations
    /\ None \notin Intents \cup Jobs \cup Invocations

VARIABLES
    claims,     \* registry.json: the intent that claimed each scope
    ledger,     \* the files of .submission-<attempt> and their contents
    staging,    \* the shared run directory of the scope
    flock,      \* the holder of .slurm-helper.lock
    helper,     \* the helper processes
    sbatches,   \* how many times sbatch was run for the scope
    inflight,   \* intents whose sbatch may still reach the scheduler
    jobs,       \* the scheduler's jobs
    scancels,   \* how many times scancel was run for the job
    cancelling  \* jobs whose scancel may still reach the scheduler

storage == <<claims, ledger, staging>>
scheduler == <<sbatches, inflight, jobs, scancels, cancelling>>
vars == <<storage, flock, helper, scheduler>>

------------
Files == {"claim", "intent", "manifest", "script", "state", "start", "receipt",
          "cancel.start", "cancel.state"}
Phases == {"NONE", "PREPARED", "SUBMIT_STARTED", "SUBMITTED"}
Terminal == {"SUCCEEDED", "CANCELLED"}
JobStates == {"QUEUED", "RUNNING"} \cup Terminal

EmptyLedger == [files |-> {}, phase |-> "NONE", head |-> None, receipt |-> None,
                cancel |-> "NONE", result |-> "NONE"]
Unborn == [intent |-> None, state |-> "QUEUED", past |-> {}]

NoReply == [kind |-> "NONE", job |-> None, state |-> "NONE"]
Reply(kind, job) == [NoReply EXCEPT !.kind = kind, !.job = job]
Unknown == Reply("UNKNOWN", None)
Rejected == Reply("REJECTED", None)
Failed == Reply("ERROR", None)
TimedOut == Reply("TIMEOUT", None)
JobObserved(j, state) == [kind |-> "JOB_OBSERVED", job |-> j, state |-> state]
CancelPending(j) == Reply("CANCEL_PENDING", j)

Unsent == [step |-> "unsent", op |-> "Inspect", intent |-> None, job |-> None,
           reply |-> NoReply]

Init ==
    /\ claims = [s \in Scopes |-> None]
    /\ ledger = [s \in Scopes |-> EmptyLedger]
    /\ staging = [s \in Scopes |-> "ABSENT"]
    /\ flock = None
    /\ helper = [p \in Invocations |-> Unsent]
    /\ sbatches = [s \in Scopes |-> 0]
    /\ inflight = {}
    /\ jobs = [j \in Jobs |-> Unborn]
    /\ scancels = [j \in Jobs |-> 0]
    /\ cancelling = {}

Intent(p) == helper[p].intent
Scope(p) == ScopeOf[helper[p].intent]
Ledger(p) == ledger[Scope(p)]
Has(L, file) == file \in L.files

------------
(* read_ledger: what the files say of an intent. *)
View(i) ==
    LET s == ScopeOf[i]
        L == ledger[s]
    IN CASE claims[s] \notin {None, i}                 -> "CONFLICT"
         [] ~ Has(L, "claim") /\ claims[s] = None      -> "MISSING"
         [] ~ Has(L, "claim") /\ claims[s] = i         -> "UNKNOWN"
         [] claims[s] = None \/ ~ Has(L, "state")      -> "UNKNOWN"
         [] ~ Has(L, "start") /\ staging[s] # "SEALED" -> "UNKNOWN"
         [] Has(L, "receipt") /\ (~ Has(L, "start") \/ L.phase = "PREPARED") -> "UNKNOWN"
         [] L.phase = "SUBMITTED" /\ L.head # L.receipt -> "UNKNOWN"
         [] OTHER                                      -> "FOUND"

\* Mutant: only the replaced head is consulted, never the receipt.
HeadOutcome(L) ==
    IF L.phase = "SUBMITTED" THEN Reply("SUBMITTED", L.head)
    ELSE IF L.phase = "PREPARED" /\ ~ Has(L, "start") THEN Reply("PREPARED", None)
    ELSE Unknown

(* ledger_outcome: a receipt answers for a head that was not replaced yet. *)
LedgerOutcome(L) ==
    IF Has(L, "receipt") THEN Reply("SUBMITTED", L.receipt)
    ELSE IF L.phase = "PREPARED" /\ ~ Has(L, "start") THEN Reply("PREPARED", None)
    ELSE Unknown

Observed(i) ==
    CASE View(i) = "FOUND"    -> LedgerOutcome(ledger[ScopeOf[i]])
      [] View(i) = "CONFLICT" -> Rejected
      [] OTHER                -> Unknown

\* Mutant: a submission without a receipt is submitted again.
StartUntilReceipt(L) == ~ Has(L, "receipt")

\* submission_gate: the only state a job may be submitted from.
StartOnce(L) == L.phase = "PREPARED" /\ ~ Has(L, "start")

------------
Step(p, step) == helper' = [helper EXCEPT ![p].step = step]
Answer(p, reply) == helper' = [helper EXCEPT ![p].step = "done", ![p].reply = reply]
Write(p, file) == ledger' = [ledger EXCEPT ![Scope(p)].files = @ \cup {file}]
At(p, step) == helper[p].step = step /\ flock = p

(* An SSH call is made; the helper it starts may run much later, or never. *)
Send(p, op, i, j) ==
    /\ helper[p] = Unsent
    /\ op \in {"ObserveJob", "CancelJob"} <=> j # None
    /\ helper' = [helper EXCEPT ![p] =
                    [step |-> "sent", op |-> op, intent |-> i, job |-> j, reply |-> NoReply]]
    /\ UNCHANGED <<storage, flock, scheduler>>

(* handle: take the flock, read the ledger and answer what needs no write. *)
Free(p) == helper[p].step = "sent" /\ flock = None

HandleInspect(p) ==
    /\ Free(p)
    /\ \/ helper[p].op = "Inspect"
       \/ helper[p].op = "Prepare" /\ View(Intent(p)) # "MISSING"
    /\ Answer(p, Observed(Intent(p)))
    /\ UNCHANGED <<storage, flock, scheduler>>

\* Mutant: a conflicting claim of the scope is taken over.
PrepareTakesOver(p) ==
    /\ Free(p) /\ helper[p].op = "Prepare" /\ View(Intent(p)) \in {"MISSING", "CONFLICT"}
    /\ flock' = p /\ Step(p, "register")
    /\ UNCHANGED <<storage, scheduler>>

HandlePrepare(p) ==
    /\ Free(p) /\ helper[p].op = "Prepare" /\ View(Intent(p)) = "MISSING"
    /\ flock' = p /\ Step(p, "register")
    /\ UNCHANGED <<storage, scheduler>>

HandleSubmit(p) ==
    /\ Free(p) /\ helper[p].op = "Submit"
    /\ IF View(Intent(p)) = "FOUND" /\ ~ Has(Ledger(p), "receipt") /\ StartOnce(Ledger(p))
         THEN flock' = p /\ Step(p, "start")
         ELSE /\ Answer(p, IF View(Intent(p)) = "MISSING" THEN Rejected
                           ELSE Observed(Intent(p)))
              /\ UNCHANGED flock
    /\ UNCHANGED <<storage, scheduler>>

\* The lock is not acquired in time, at first or after staging.
LockTimeout(p) ==
    /\ helper[p].step \in {"sent", "relock"} /\ flock # None
    /\ Answer(p, TimedOut)
    /\ UNCHANGED <<storage, flock, scheduler>>

\* Mutant: key and value of the registry entry are confused.
RegistersScope(p) ==
    /\ At(p, "register")
    /\ claims' = [claims EXCEPT ![Scope(p)] = Scope(p)]
    /\ Step(p, "claim")
    /\ UNCHANGED <<ledger, staging, flock, scheduler>>

(* prepare: claim the scope in the registry (or find the registry full),
   write the immutable files, and let go of the lock while the shared
   directory is staged. *)
Register(p) ==
    /\ At(p, "register")
    /\ \/ claims' = [claims EXCEPT ![Scope(p)] = Intent(p)] /\ Step(p, "claim") /\ UNCHANGED flock
       \/ Answer(p, Rejected) /\ flock' = None /\ UNCHANGED claims
    /\ UNCHANGED <<ledger, staging, scheduler>>

OpenClaim(p) ==
    /\ At(p, "claim")
    /\ IF Has(Ledger(p), "claim")
         THEN Answer(p, Unknown) /\ flock' = None /\ UNCHANGED ledger
         ELSE Write(p, "claim") /\ Step(p, "intent") /\ UNCHANGED flock
    /\ UNCHANGED <<claims, staging, scheduler>>

Following == [intent |-> "manifest", manifest |-> "script", script |-> "stage"]

WriteImmutable(p, file) ==
    /\ At(p, file)
    /\ Write(p, file)
    /\ Step(p, Following[file])
    /\ flock' = IF file = "script" THEN None ELSE flock
    /\ UNCHANGED <<claims, staging, scheduler>>

(* prepare_shared, without the lock: the attempt directory must be new and
   the seal is written last; a failure leaves it as it is for ever. *)
CreateShared(p) ==
    /\ helper[p].step = "stage"
    /\ IF staging[Scope(p)] = "ABSENT"
         THEN staging' = [staging EXCEPT ![Scope(p)] = "PARTIAL"] /\ Step(p, "seal")
         ELSE Answer(p, Failed) /\ UNCHANGED staging
    /\ UNCHANGED <<claims, ledger, flock, scheduler>>

SealShared(p) ==
    /\ helper[p].step = "seal"
    /\ \/ staging' = [staging EXCEPT ![Scope(p)] = "SEALED"] /\ Step(p, "relock")
       \/ Answer(p, Failed) /\ UNCHANGED staging
    /\ UNCHANGED <<claims, ledger, flock, scheduler>>

(* Back under the lock: nothing may have been written meanwhile. *)
Relock(p) ==
    /\ helper[p].step = "relock" /\ flock = None
    /\ IF claims[Scope(p)] = Intent(p)
          /\ Ledger(p).files \cap {"state", "start", "receipt"} = {}
         THEN flock' = p /\ Step(p, "state")
         ELSE Answer(p, Failed) /\ UNCHANGED flock
    /\ UNCHANGED <<storage, scheduler>>

PublishState(p) ==
    /\ At(p, "state")
    /\ ledger' = [ledger EXCEPT ![Scope(p)].files = @ \cup {"state"},
                                ![Scope(p)].phase = "PREPARED"]
    /\ Answer(p, IF staging[Scope(p)] = "SEALED" THEN Reply("PREPARED", None) ELSE Failed)
    /\ flock' = None
    /\ UNCHANGED <<claims, staging, scheduler>>

(* submit: the start marker and the head are durable before sbatch runs,
   the receipt before the head says SUBMITTED. *)
PublishStart(p) ==
    /\ At(p, "start")
    /\ IF staging[Scope(p)] = "SEALED"
         THEN Write(p, "start") /\ Step(p, "started") /\ UNCHANGED flock
         ELSE Answer(p, Unknown) /\ flock' = None /\ UNCHANGED ledger
    /\ UNCHANGED <<claims, staging, scheduler>>

ReplaceHead(p) ==
    /\ At(p, "started")
    /\ ledger' = [ledger EXCEPT ![Scope(p)].phase = "SUBMIT_STARTED"]
    /\ Step(p, "sbatch")
    /\ UNCHANGED <<claims, staging, flock, scheduler>>

Sbatch(p) ==
    /\ At(p, "sbatch")
    /\ sbatches' = [sbatches EXCEPT ![Scope(p)] = @ + 1]
    /\ inflight' = inflight \cup {Intent(p)}
    /\ Step(p, "sbatched")
    /\ UNCHANGED <<storage, flock, jobs, scancels, cancelling>>

\* Mutant: any number sbatch prints is taken for the job.
SbatchReturnsAny(p) ==
    /\ At(p, "sbatched")
    /\ \E j \in Jobs : helper' = [helper EXCEPT ![p].step = "receipt", ![p].job = j]
    /\ UNCHANGED <<storage, flock, scheduler>>

(* sbatch printed the job it created, or its result is uncertain: a
   timeout, a signal, a non-zero exit or unreadable output. *)
SbatchReturns(p) ==
    /\ At(p, "sbatched")
    /\ \/ \E j \in Jobs :
            /\ jobs[j].intent = Intent(p)
            /\ helper' = [helper EXCEPT ![p].step = "receipt", ![p].job = j]
            /\ UNCHANGED flock
       \/ Answer(p, Unknown) /\ flock' = None
    /\ UNCHANGED <<storage, scheduler>>

PublishReceipt(p) ==
    /\ At(p, "receipt")
    /\ ledger' = [ledger EXCEPT ![Scope(p)].files = @ \cup {"receipt"},
                                ![Scope(p)].receipt = helper[p].job]
    /\ Step(p, "submitted")
    /\ UNCHANGED <<claims, staging, flock, scheduler>>

FinishSubmit(p) ==
    /\ At(p, "submitted")
    /\ ledger' = [ledger EXCEPT ![Scope(p)].phase = "SUBMITTED",
                                ![Scope(p)].head = helper[p].job]
    /\ Answer(p, Reply("SUBMITTED", helper[p].job))
    /\ flock' = None
    /\ UNCHANGED <<claims, staging, scheduler>>

------------
\* Mutant: the requested job is not compared with the receipt.
WrongLedger(p) ==
    IF View(Intent(p)) # "FOUND" \/ ~ Has(Ledger(p), "receipt")
      THEN Rejected ELSE NoReply

(* Exact-job operations: the request must name the receipt's job. *)
WrongJob(p) ==
    CASE View(Intent(p)) = "MISSING"        -> Rejected
      [] View(Intent(p)) # "FOUND"          -> Observed(Intent(p))
      [] ~ Has(Ledger(p), "receipt")        -> IF Has(Ledger(p), "start") THEN Unknown ELSE Rejected
      [] helper[p].job # Ledger(p).receipt  -> Rejected
      [] OTHER                              -> NoReply

(* observe_job: sacct, squeue and scontrol may lag behind the job or fail,
   but only report states it went through, of this very job. *)
Evidence(j) == {JobObserved(j, s) : s \in jobs[j].past} \cup {Unknown}

HandleObserve(p) ==
    /\ Free(p) /\ helper[p].op = "ObserveJob"
    /\ IF WrongJob(p) = NoReply
         THEN \E r \in Evidence(helper[p].job) : Answer(p, r)
         ELSE Answer(p, WrongJob(p))
    /\ UNCHANGED <<storage, flock, scheduler>>

(* cancel, reduced by plan_cancel over the persisted outbox: a half
   published outbox is refused, VERIFIED answers from its own record, and
   a persisted REQUESTED never leads to another scancel. *)
HandleCancel(p) ==
    LET L == Ledger(p)
        j == helper[p].job
        hasStart == Has(L, "cancel.start")
    IN
    /\ Free(p) /\ helper[p].op = "CancelJob"
    /\ \/ /\ WrongJob(p) # NoReply
          /\ Answer(p, WrongJob(p)) /\ UNCHANGED <<ledger, flock>>
       \/ /\ WrongJob(p) = NoReply /\ hasStart # Has(L, "cancel.state")
          /\ Answer(p, Failed) /\ UNCHANGED <<ledger, flock>>
       \/ /\ WrongJob(p) = NoReply /\ hasStart = Has(L, "cancel.state")
          /\ L.cancel = "VERIFIED"
          /\ Answer(p, JobObserved(j, L.result)) /\ UNCHANGED <<ledger, flock>>
       \/ /\ WrongJob(p) = NoReply /\ hasStart = Has(L, "cancel.state")
          /\ L.cancel # "VERIFIED"
          /\ \E before \in Evidence(j) :
               \/ /\ before = Unknown
                  /\ Answer(p, IF hasStart THEN CancelPending(j) ELSE Unknown)
                  /\ UNCHANGED <<ledger, flock>>
               \/ /\ before.state \in Terminal /\ ~ hasStart
                  /\ Answer(p, before) /\ UNCHANGED <<ledger, flock>>
               \/ /\ before.state \in Terminal /\ hasStart
                  /\ ledger' = [ledger EXCEPT ![Scope(p)].cancel = "VERIFIED",
                                              ![Scope(p)].result = before.state]
                  /\ Answer(p, before) /\ UNCHANGED flock
               \/ /\ before.state \in JobStates \ Terminal /\ hasStart
                  /\ Answer(p, CancelPending(j)) /\ UNCHANGED <<ledger, flock>>
               \/ /\ before.state \in JobStates \ Terminal /\ ~ hasStart
                  /\ flock' = p /\ Step(p, "cancel.start") /\ UNCHANGED ledger
    /\ UNCHANGED <<claims, staging, scheduler>>

\* Mutant: scancel runs before the outbox record is durable.
CancelsEarly(p) ==
    /\ At(p, "cancel.start")
    /\ Write(p, "cancel.start")
    /\ Step(p, "scancel")
    /\ UNCHANGED <<claims, staging, flock, scheduler>>

(* save_cancel, new: two files, the marker before the outbox record. *)
PublishCancelStart(p) ==
    /\ At(p, "cancel.start")
    /\ Write(p, "cancel.start")
    /\ Step(p, "cancel.state")
    /\ UNCHANGED <<claims, staging, flock, scheduler>>

PublishCancelState(p) ==
    /\ At(p, "cancel.state")
    /\ ledger' = [ledger EXCEPT ![Scope(p)].files = @ \cup {"cancel.state"},
                                ![Scope(p)].cancel = "REQUESTED"]
    /\ Step(p, "scancel")
    /\ UNCHANGED <<claims, staging, flock, scheduler>>

(* One scancel, unless the deadline passed first. *)
Scancel(p) ==
    /\ At(p, "scancel")
    /\ \/ /\ scancels' = [scancels EXCEPT ![helper[p].job] = @ + 1]
          /\ cancelling' = cancelling \cup {helper[p].job}
       \/ UNCHANGED <<scancels, cancelling>>
    /\ Step(p, "scancelled")
    /\ UNCHANGED <<storage, flock, sbatches, inflight, jobs>>

FinishCancel(p) ==
    /\ At(p, "scancelled")
    /\ \E after \in Evidence(helper[p].job) :
         IF after.state \in Terminal
           THEN /\ ledger' = [ledger EXCEPT ![Scope(p)].cancel = "VERIFIED",
                                            ![Scope(p)].result = after.state]
                /\ Answer(p, after)
           ELSE Answer(p, CancelPending(helper[p].job)) /\ UNCHANGED ledger
    /\ flock' = None
    /\ UNCHANGED <<claims, staging, scheduler>>

(* The helper dies, is told to stop, or its request never arrives; the
   kernel drops the lock. *)
Die(p) ==
    /\ helper[p].step \notin {"unsent", "done", "dead"}
    /\ Step(p, "dead")
    /\ flock' = IF flock = p THEN None ELSE flock
    /\ UNCHANGED <<storage, scheduler>>

------------
(* The scheduler and the shared storage, external to the helper. *)
CreateJob(i, j) ==
    /\ i \in inflight /\ jobs[j] = Unborn
    /\ jobs' = [jobs EXCEPT ![j] = [intent |-> i, state |-> "QUEUED", past |-> {"QUEUED"}]]
    /\ inflight' = inflight \ {i}
    /\ UNCHANGED <<storage, flock, helper, sbatches, scancels, cancelling>>

RefuseJob(i) ==
    /\ i \in inflight
    /\ inflight' = inflight \ {i}
    /\ UNCHANGED <<storage, flock, helper, sbatches, jobs, scancels, cancelling>>

Become(j, state) ==
    jobs' = [jobs EXCEPT ![j].state = state, ![j].past = @ \cup {state}]

Advance(j) ==
    /\ jobs[j] # Unborn
    /\ \/ jobs[j].state = "QUEUED" /\ Become(j, "RUNNING")
       \/ jobs[j].state = "RUNNING" /\ Become(j, "SUCCEEDED")
    /\ UNCHANGED <<storage, flock, helper, sbatches, inflight, scancels, cancelling>>

CancelArrives(j) ==
    /\ j \in cancelling
    /\ cancelling' = cancelling \ {j}
    /\ IF jobs[j].state \notin Terminal THEN Become(j, "CANCELLED") ELSE UNCHANGED jobs
    /\ UNCHANGED <<storage, flock, helper, sbatches, inflight, scancels>>

\* The sealed directory is changed or removed by someone else.
LoseStaging(s) ==
    /\ staging[s] = "SEALED"
    /\ staging' = [staging EXCEPT ![s] = "LOST"]
    /\ UNCHANGED <<claims, ledger, flock, helper, scheduler>>

------------
Submission(p) ==
    \/ HandleInspect(p) \/ HandlePrepare(p) \/ HandleSubmit(p)
    \/ Register(p) \/ OpenClaim(p) \/ \E file \in DOMAIN Following : WriteImmutable(p, file)
    \/ CreateShared(p) \/ SealShared(p) \/ Relock(p) \/ PublishState(p)
    \/ PublishStart(p) \/ ReplaceHead(p) \/ Sbatch(p) \/ SbatchReturns(p)
    \/ PublishReceipt(p) \/ FinishSubmit(p)

Control(p) ==
    \/ HandleObserve(p) \/ HandleCancel(p)
    \/ PublishCancelStart(p) \/ PublishCancelState(p) \/ Scancel(p) \/ FinishCancel(p)

Run(p) == Submission(p) \/ Control(p)

Environment ==
    \/ \E i \in Intents, j \in Jobs : CreateJob(i, j)
    \/ \E i \in Intents : RefuseJob(i)
    \/ \E j \in Jobs : Advance(j) \/ CancelArrives(j)
    \/ \E s \in Scopes : LoseStaging(s)

HelperNext ==
    \/ \E p \in Invocations : Run(p) \/ LockTimeout(p) \/ Die(p)
    \/ Environment

Next ==
    \/ HelperNext
    \/ \E p \in Invocations, op \in Operations, i \in Intents, j \in Jobs \cup {None} :
         Send(p, op, i, j)

Spec == Init /\ [][Next]_vars

------------
Replies == [kind : {"NONE", "UNKNOWN", "REJECTED", "ERROR", "TIMEOUT", "PREPARED", "SUBMITTED",
                    "JOB_OBSERVED", "CANCEL_PENDING"},
            job : Jobs \cup {None}, state : JobStates \cup {"NONE"}]
HelperSteps == {"unsent", "sent", "register", "claim", "intent", "manifest", "script",
                "stage", "seal", "relock", "state", "start", "started", "sbatch", "sbatched",
                "receipt", "submitted", "cancel.start", "cancel.state", "scancel",
                "scancelled", "done", "dead"}
Helpers == [step : HelperSteps, op : AllOperations, intent : Intents \cup {None},
            job : Jobs \cup {None}, reply : Replies]
Ledgers == [files : SUBSET Files, phase : Phases, head : Jobs \cup {None},
            receipt : Jobs \cup {None}, cancel : {"NONE", "REQUESTED", "VERIFIED"},
            result : Terminal \cup {"NONE"}]

(* Type invariant of the gateway's files, processes and scheduler. *)
TypeOK ==
    /\ claims \in [Scopes -> Intents \cup {None}]
    /\ ledger \in [Scopes -> Ledgers]
    /\ staging \in [Scopes -> {"ABSENT", "PARTIAL", "SEALED", "LOST"}]
    /\ flock \in Invocations \cup {None}
    /\ helper \in [Invocations -> Helpers]
    /\ \A p \in Invocations : helper[p].step # "unsent" => helper[p].intent \in Intents
    /\ sbatches \in [Scopes -> Nat]
    /\ inflight \subseteq Intents
    /\ jobs \in [Jobs -> [intent : Intents \cup {None}, state : JobStates,
                          past : SUBSET JobStates]]
    /\ scancels \in [Jobs -> Nat]
    /\ cancelling \subseteq Jobs

JobsOf(s) == {j \in Jobs : jobs[j] # Unborn /\ ScopeOf[jobs[j].intent] = s}

(* A scope is submitted at most once, whatever is repeated, delayed or
   interrupted, by the one intent that claimed it, and only after the
   start marker is durable ("Exactly one scoped operation. It never
   replays a started submission"). *)
SubmitOnce ==
    \A s \in Scopes :
        /\ sbatches[s] \in {0, 1}
        /\ Cardinality(JobsOf(s)) + Cardinality({i \in inflight : ScopeOf[i] = s})
             <= sbatches[s]
        /\ sbatches[s] = 1 => Has(ledger[s], "start") /\ claims[s] # None
        /\ \A j \in JobsOf(s) : jobs[j].intent = claims[s]

(* What the ledger and the replies say of a job is true of the scheduler:
   a receipt, a head and every SUBMITTED or JOB_OBSERVED reply name the
   scope's own job, and never two different ones. *)
JobsAreReal ==
    /\ \A s \in Scopes : {ledger[s].receipt, ledger[s].head} \ {None} \subseteq JobsOf(s)
    /\ \A p \in Invocations :
         helper[p].reply.kind \in {"SUBMITTED", "JOB_OBSERVED", "CANCEL_PENDING"} =>
            /\ jobs[helper[p].reply.job].intent = Intent(p)
            /\ helper[p].reply.job = Ledger(p).receipt
            /\ helper[p].reply.kind = "JOB_OBSERVED" =>
                 helper[p].reply.state \in jobs[helper[p].reply.job].past

Answers(p, reply) == helper[p].reply = NoReply /\ helper'[p].reply = reply

(* A PREPARED answer is only given while no submission was started, and
   from the durable receipt on every repeated SUBMIT, PREPARE or INSPECT
   of the intent that is handled answers with its job: the response lost
   between the receipt and the head is recovered. *)
AnswersFollowTheLedger ==
    [][\A p \in Invocations :
         /\ helper'[p].reply.kind = "PREPARED" /\ helper[p].reply = NoReply =>
              sbatches[Scope(p)] = 0 /\ JobsOf(Scope(p)) = {}
         /\ Free(p) /\ helper'[p].step = "done" /\ Has(Ledger(p), "receipt")
            /\ claims[Scope(p)] = Intent(p)
            /\ helper[p].op \in {"Prepare", "Submit", "Inspect"} =>
              Answers(p, Reply("SUBMITTED", Ledger(p).receipt))]_vars

(* scancel runs at most once for a job, after the outbox record is
   durable, and only for the job of the receipt; a cancellation is
   VERIFIED only once the job really reached the recorded terminal state. *)
CancelOnce ==
    /\ \A j \in Jobs :
         /\ scancels[j] \in {0, 1}
         /\ scancels[j] = 1 =>
              \E s \in Scopes : /\ ledger[s].receipt = j
                                /\ {"cancel.start", "cancel.state"} \subseteq ledger[s].files
    /\ \A s \in Scopes :
         ledger[s].cancel = "VERIFIED" => jobs[ledger[s].receipt].state = ledger[s].result

(* What was durably recorded is never removed or replaced by another
   value: files, the claim of a scope, the receipt, a verified outcome. *)
LedgerOnlyGrows ==
    [][\A s \in Scopes :
         /\ claims[s] # None => claims'[s] = claims[s]
         /\ ledger[s].files \subseteq ledger'[s].files
         /\ ledger[s].receipt # None => ledger'[s].receipt = ledger[s].receipt
         /\ ledger[s].cancel = "VERIFIED" => ledger'[s].cancel = "VERIFIED"
         /\ ledger[s].phase = "SUBMITTED" => ledger'[s].phase = "SUBMITTED"]_vars

(* "Repeated explicit calls reconcile the helper's durable cancel outbox":
   a cancel call that is handled never ends in an error of the ledger. *)
CancelReconciles ==
    \A p \in Invocations : helper[p].op = "CancelJob" => helper[p].reply # Failed

------------
(* The ledger implements the gateway its callers rely on: the receipt, the
   start marker, the head and the claim are its gate, in this order. *)
GateOf(s) ==
    [claim |-> claims[s], job |-> ledger[s].receipt,
     phase |-> CASE Has(ledger[s], "receipt") -> "SUBMITTED"
                 [] ~ Has(ledger[s], "receipt") /\ Has(ledger[s], "start") -> "STARTED"
                 [] ~ Has(ledger[s], "start") /\ Has(ledger[s], "state") -> "PREPARED"
                 [] ~ Has(ledger[s], "state") /\ claims[s] # None -> "CLAIMED"
                 [] OTHER -> "FREE"]

GateStep(step) ==
    CASE step \in {"claim", "intent", "manifest", "script", "stage", "seal", "relock",
                   "state"}                     -> "preparing"
      [] step \in {"started", "sbatch"}         -> "starting"
      [] step \in {"sbatched", "receipt"}       -> "sbatched"
      [] step = "submitted"                     -> "recorded"
      [] step \in {"done", "dead"}              -> "done"
      [] step = "unsent"                        -> "unsent"
      [] OTHER                                  -> "sent"

GateReply(reply) ==
    CASE reply = NoReply -> [kind |-> "NONE", job |-> None]
      [] reply.kind \in {"PREPARED", "SUBMITTED", "JOB_OBSERVED"} ->
           [kind |-> reply.kind, job |-> reply.job]
      [] OTHER -> [kind |-> "REFUSED", job |-> None]

CallOf(p) ==
    [step |-> GateStep(helper[p].step), op |-> helper[p].op, intent |-> helper[p].intent,
     job |-> IF helper[p].op \in {"ObserveJob", "CancelJob"} THEN helper[p].job ELSE None,
     reply |-> IF helper[p].step = "dead" THEN [kind |-> "REFUSED", job |-> None]
               ELSE GateReply(helper[p].reply)]

Gateway == INSTANCE SlurmGateway WITH
    gate <- [s \in Scopes |-> GateOf(s)],
    call <- [p \in Invocations |-> CallOf(p)],
    jobs <- [j \in Jobs |-> jobs[j].intent]

(* Every behaviour of the helpers and their files is one of the gateway:
   it begins as the gateway does, unless it begins with a scope that is
   submitted already, and every step is a step of the gateway. *)
ImplementsGateway ==
    /\ (\A s \in Scopes : claims[s] = None) => Gateway!GatewayInit
    /\ [][Gateway!GatewayNext]_(Gateway!gatewayVars)

(* A scope submits once and cancels its own job once, and what the ledger
   and the answers of the helper say of jobs is so. *)
LedgerIsSound == TypeOK /\ SubmitOnce /\ JobsAreReal /\ CancelOnce

(* What a helper answered follows from the ledger, and the ledger never
   loses what it followed from. *)
AnswersAreKept == AnswersFollowTheLedger /\ LedgerOnlyGrows
=============================================================================

# A specification of ml-experiment-control

ml-experiment-control submits machine-learning Runs to Slurm clusters and to a
cloud provider (PAI), watches them, keeps what they produce and publishes what
they report. Its server (`ml-expd-rs`) may be killed at any instruction, SSH calls
and HTTP requests may be lost or answered too late, and requests are repeated by
people and scripts; still a job must be submitted once, stopped once, and what is
known of it must never be forgotten. This directory states those promises in
TLA+, checks them with TLC on small instances, and proves almost all of its
invariants with TLAPS for every value of the constants.

All paths below are relative to `src/rust/crates/`.

## 1. The system and its parts

The crates: `core` (decisions without effects: state machines, validation,
identities), `io` (directory capabilities, locks, processes), `server` (the
service), `worker` (programs in the image of a job, and the Slurm gateway
helper), `client` (`ml-exp`).

| Component | State it keeps | Operations | Who calls it |
|---|---|---|---|
| Action storage (`server/src/operations`, `core/src/operations.rs`) | `plan.json`, frozen files, one SQLite row and an audit trail per Action, `.actions.lock` | save_plan, bind, claim, finish, interrupt, reconcile | both submission services |
| Slurm submission service (`server/src/backends/slurm`) | one preparation slot per Attempt, renewal archives, records and links, cancellation and scheduler slots, `.submissions.lock` | prepare, renew, execute, reconcile, cancel, refresh | HTTP effects, background observer |
| Slurm gateway helper (`worker/src/slurm/ledger.rs`) | claim registry, a ledger directory per Attempt, staging on shared storage, a cancel outbox, a flock | PREPARE, SUBMIT, INSPECT, OBSERVE_JOB, CANCEL_JOB | the service, one SSH call each |
| Slurm background observation (`server/src/backends/slurm/engine/observation.rs`) | scheduler slot, evidence of the Worker, history cursor | refresh, observe, ingest lines, cancel | observer thread, requests |
| Cloud outbox and adapter (`server/src/backends/cloud/outbox.rs`, `adapter.rs`) | one entry per job, `.cloud-effects.lock` | prepare, execute, reconcile, stop | cloud service |
| Cloud submission service (`server/src/backends/cloud/action.rs`, `service/engine`) | preparation slot, renewal records and links, Attempts of a Run, `.cloud-runs.lock` | prepare, renew, execute, reconcile, refresh, cancel, retry | HTTP effects, observer thread |
| Builds, debug machines, collectors (`engine/builds.rs`, `debug.rs`, `sync.rs`) | started-once records, markers, instances | start, reconcile, observe, stop, delete | client, observer |
| Datasets and artifacts (`engine/datasets.rs`, `artifacts.rs`) | multipart records, copies per Attempt, bundles by digest | upload, complete, discard, withdraw, release | client, Workers |
| Polling (`core/src/polling.rs`, `server/src/background.rs`) | due time, failures and phase of each candidate | discover, select, sample | one leader thread per backend |
| Records journal (`server/src/records`) | append-only events per scope in SQLite | bind, append, import, rebuild | exchange, observers, publisher |
| Tracking publishers (`server/src/tracking`) | reserved and confirmed sequence numbers, MLflow cursor | observe, append, finish, repair | one leader thread each |
| Cloud exchange (`engine/exchange.rs`, `worker/src/cloud_exchange.rs`) | channel cursors, acknowledgements | receive, synchronize | Workers over HTTP or object storage |
| Deletion fence, administration (`server/src/deletion.rs`, `administration.rs`) | tombstones, a lock per workspace, a removal record | plan, execute, retire | administrator |
| Projects (`server/src/projects`, `core/src/durable.rs`) | a head that is replaced, a journal that is appended to | register, pause, resume, archive, restore, unregister | HTTP effects |
| Sources (`client/src/sources.rs`, `server/src/sources`) | trees by content, receipts by archive, stages | pack, look up, upload, publish | client |
| Managed Worker (`worker/src/managed.rs`, `worker/src/cloud*.rs`, `io/src`) | launch ledger, code, output, checkpoints, result bundle, log | bootstrap, train, supervise, seal, pack | the scheduler |
| Client (`client/src`) | the latest Submission of the machine and of each Run | submit, retry, cancel, batch | people and scripts |

`PROJECT.json` lists every component with its sources and what is modelled of
it. How they interact: an HTTP request becomes an *effect*, a blocking thread
that reads its clock, takes the lock of the service, loads the Attempt's
prepared Action, claims it in action storage, and only then calls the gateway
helper by SSH or the provider by HTTPS through the outbox. Observers take the
same locks. Everything durable is a file that is created once
(`publish_new`), or replaced as a whole (`replace_regular`), or a SQLite
transaction; every lock is a file lock and ends with its process.

Hard behaviour, and what makes each component correct:

* **Action storage.** Concurrent commits on one Action; a crash between plan
  and row. Correct if one caller dispatches, no status is taken back, and the
  audit trail explains the status.
* **Gateway helper.** It is killed between two writes, its calls are delayed,
  repeated and run at the same time, it drops its lock while staging, and
  `sbatch` may have had its effect and yet fail. Correct if a claimed scope is
  submitted once and no answer contradicts the ledger or the scheduler.
* **Slurm service.** Calls are lost or outlive the server; Actions expire and
  are renewed, and a renewal is cut short between any two files. Correct if
  all Actions of an Attempt make one job, and stay loadable.
* **Slurm observation.** A refresh stops between journal and cursor; the
  scheduler requeues. Correct if each line is told once and nothing learned of
  a job is lost.
* **Cloud outbox.** An HTTP POST may arrive late or never, or be accepted and
  not confirmed; a GET is made without the lock. Correct if there is one create
  and one stop, and a late reply does not overwrite what is newer.
* **Cloud service.** Two locks, an observer, and refreshes without the service
  lock. Correct if authority precedes effects, a job's end is recorded, and a
  retry begins one Attempt, as it was prepared, after the last has ended.
* **Builds, machines, collectors.** A call is made once although its answer is
  lost. Correct if it is marked first and only proof gives it back.
* **Polling.** Correct if no candidate starves and no backoff is cut short.
* **Journal and publishers.** Correct if an event is appended once, and shown
  once although answers are lost, children are killed and W&B Runs deleted.
* **Exchange.** Correct if repeated packets are acknowledged and change nothing.
* **Datasets and artifacts.** The lock is dropped around object-store calls;
  correct if a decision made before it is checked again after it.
* **Administration.** It may stop between any two of its many steps. Correct if
  no Run loses the checkpoint it resumes from, and what is done is recorded.
* **Projects, sources.** Torn appends, requests that outlive their callers,
  a directory edited while it is packed. Correct if the journal explains the
  registry, and an archive is what the directory held.
* **Worker.** Two nodes may hold one lock; files change while they are hashed
  or packed; a power loss keeps what was synced. Correct if training is started
  once, a certified checkpoint is what is stored, and a process that is over
  left neither group nor unread output.
* **Client.** A command stops anywhere, replies are lost, two terminals ask for
  one thing. Correct if nothing is repeated while in doubt, and what is shown is
  what is done.

## 2. The modules

| Module | What it is |
|---|---|
| `ActionLifecycle` | the life of one Action, as a client may know it: the abstract specification of action storage |
| `ActionStore` | save, bind, claim, interrupt, finish, reconcile by concurrent callers, with crashes; implements `ActionLifecycle` |
| `SlurmGateway` | what the helper promises of a scope, whatever files it uses: the abstract specification of the ledger |
| `SlurmLedger` | the helper itself: registry, ledger files, flock, staging, cancel outbox; implements `SlurmGateway` |
| `SlurmSubmission` | the Slurm service, extending `SlurmGateway`: prepare, renew, execute, reconcile |
| `SlurmObservation` | what the service learns of a job, its lines and its cancellation |
| `RunState` | states of an Attempt and the order `RunState::allows` accepts |
| `CloudOutbox` | the outbox entry, the effects lock, requests to the provider and the provider |
| `CloudSubmission` | the cloud service and observer, extending `CloudOutbox` |
| `ProviderJobs` | jobs that go through an outbox, as the parts below use them |
| `CloudPreparation` | preparation, retry and fence of the Attempts of a Run |
| `BuildRuntime`, `DebugMachine`, `CloudSync` | image builds, debug machines, collector jobs |
| `DatasetStorage`, `CloudArtifacts` | multipart uploads and copies of datasets, result archives |
| `CloudExchange` | packets, acknowledgements and cursors between a Worker and the server |
| `RecordsJournal` | the journal of one scope |
| `Publisher`, `MlflowPublisher` | the W&B publisher over the journal, the MLflow publisher |
| `PollingSchedule` | the observer thread of one backend |
| `Administration` | removal of what an Attempt left |
| `ProjectRegistry`, `SourceStore` | the registry of Projects; packing and publication of sources |
| `DurableFiles` | `publish_new`, `replace_regular` and the record lock over a directory that forgets |
| `BoundedProcess` | a child process with its group, deadline, output and log |
| `WorkerStart`, `CheckpointSeal`, `ResultArchive` | the start of a Worker, its checkpoints, its result bundle |
| `ClientSubmission`, `ClientCommand` | one submission or a batch with what is saved of it; the choice of executor |
| `MCOperations` | every part around a Submission, one per behaviour: its initial states choose |
| `MCProgress`, `MCTracking` | the parts with liveness: exchange, machines, observation and the two services; journal and publishers |
| `MCSlurmLedger`, `MCSlurmSubmission`, `MCCloudSubmission` | constants and initial states |
| `StoresProofs` | action storage, the registry, the store of sources, checkpoints and result archives |
| `SlurmLedgerProofs`, `SlurmSubmissionProofs` | the helper and its refinement; gateway and service |
| `CloudSubmissionProofs`, `CloudPreparationProofs` | outbox and cloud service; preparation, builds, uploads and copies |
| `OperationsProofs` | artifacts, files, machines, collectors, administration, polling, Worker, processes |
| `ClientProofs` | the client |
| `ObservationProofs` | Slurm observation, the records journal, the MLflow and the W&B publisher, the cloud exchange |

An operator that stands in front of a definition with the comment *Mutant* is a
defect the definition could have had. `PROJECT.json` names one for each property
of a run; the others break another named part of the same conjunction.

### Correspondence with the code

*Action storage.* A caller's step (`BeginClaim`, `BeginReconcile`, …) reads a
snapshot, a `Commit` is the SQLite transaction of `database.rs`: expected
status, then revision, then row and audit event together
(`core/src/operations.rs`, `commit_transition`). The decision between them is
`DecideClaim` with the order of `claim`: VERIFIED answers, EXECUTING and
RECONCILE_REQUIRED refuse, and ready ∧ unexpired ∧ matching digests dispatch.
The store's flock is not used to exclude the interleavings, so that what is
checked rests on compare-and-swap alone.

*Gateway helper.* `helper[p]` is the process of one SSH call. Every durable
write of `prepare`, `submit` and the cancel outbox is a step of its own;
`Die(p)` may happen before each. The flock is held from `Handle*` on, dropped
for staging (`CreateShared`, `SealShared`) and retaken (`Relock`). `sbatch` is
two steps, so that it can act and fail. The registry is one variable because
`replace_regular` is atomic.

*Abstract gateway.* `gate[s]` holds who claimed a scope, how far it is and the
job its receipt names; `call[p]` is one call with a reply that can be lost
(`Abandon`) or arrive (`Receive`). `ImplementsGateway` maps the ledger to it.

*Slurm service.* `thread[r]` is an effect: `Arrive` reads the clock (`late`
says that the gate had expired by then), the lock is tried once (`Locks`, BUSY
otherwise), and each file of a renewal is a step: `Archive`, `RetainRecord`,
`SavePlan`, `Link`, `ReplaceSlot`. `Rpc` sends a call and persists what must
come first, `Receive`/`GiveUp` end the wait, `Finish` is `persist`. Facts that
are compared at run time (project documents, clusters, deletion marks) are
`Refuse`: the request may end at any point where the code may return an error.
`Crash` clears locks and threads and keeps files and calls in flight.

*Slurm observation.* An operation holds the service lock from its call to its
last write; it may stop between two of them (`MostStops`). A page of history is
kept as the line it ends with; the journal and the cursor are two writes.

*Cloud outbox.* `entry` is the saved record; `op[c]` is a call of one of the
four operations; `posts` are POSTs under way to the provider and `sent` counts
them. `Execute` and `Stop` save their marker and only then post; `Reconcile`
with a handle gives up the lock, `Observe` is the GET, and `Commit` compares
the entry with the one that was read. `Phase` is how far the provider is;
restart by the provider is switched off (`docs/pai.md`), so it never goes back.

*Cloud service.* The initial state is what `prepare` leaves. `BeginExecute`
checks the gate, `Prepared` publishes the entry, `Claim` commits the claim,
`Executed` continues with the outbox, `Finish` is `persist`. `BeginRefresh`
gives up the service lock before the outbox is used. `Poll` is the observer
choosing the Action of the slot.

*Preparation, builds, collectors, machines.* Calls under the service lock are
one step from their first read to each durable write or provider request. A
build's proof is read without the lock and is used up to sixty seconds later
(`builds.rs:119-133`); `misled` marks the one way it can speak of another
execution (`docs/builds.md:179-181`), and `RetrySafeIsTrue` shows that there is
no other.

*Datasets, artifacts.* The record is read and written under the lock, object
requests are steps without it; a PUT never replaces, and may be executed after
its sender has gone. Bytes are good, bad or short.

*Exchange.* The file is a sequence of units, a packet stands for its digest,
the cursor of the server is saved after the journal. `attended` says whether
anybody drains the file: the Worker while it is there, later a collector.

*Journal, publishers.* An operation of the journal is one transaction. A visit of
the W&B publisher is several steps; what a killed child held may arrive until
the settle delay has passed, or never. An MLflow point is named by the start of
its run and its sequence.

*Polling.* The schedule keeps the seconds until a key is due where the code
keeps the time; sampling is one step.

*Administration.* The plan fixes the checkpoints; each write of execution and
retirement is a step at which it may stop. The worker that removes bytes has a
ledger of its own and is only asked whether they are gone.

*Projects.* The head is replaced first and the transition appended after it; a
stop or a failing write may tear the append (a prefix of the line stays), and the
next change repairs it from the head. `http_effect.rs` has permits; a request
that is given up keeps its work running.

*Sources.* The directory is walked, then each file is read with its stamp
compared before and after, then walked again. A directory inside it is opened
once and read through its handle: `aside` is what that handle still shows after
another directory took its name (`ReplaceDirectory`). At the server a tree is staged
without a lock and published by one rename.

*Worker.* `holder` is a set because locks of two nodes may not exclude each
other. Hashing a file is one step with its metadata compared around it. A bundle
is walked once; the walk is the function `WalkTo` over the paths in order.

*Files.* Name and bytes are each in the cache until their fsync, and a power
loss may lose one and keep the other.

*Client.* A command holds what it read; the record is two files, and it may stop
between them. The server may execute a request after the client has given up.
In a batch a request arrives (`ChildArrives`: its clock is read while the gate of
this very Submission is open) and only then claims (`ChildStarts`), be the gate
expired or the child renewed meanwhile. A pass reads a view of every child
(`ReadChild`), goes through them in order, and writes the claim file before its
request (`ClaimChild`, `SendChild`).

## 3. The runs

| Run | Instance | States | What it shows |
|---|---|---|---|
| `slurm_submit` | the ledger: 4 SSH calls of 2 intents prepare and submit 1 scope with 2 possible jobs, or 3 calls observe and cancel a submitted job | 152,764 | one `sbatch` per scope, at most one `scancel`, receipts and answers are true, the ledger only grows, and the files implement the gateway |
| `slurm_execute` | the service: one request at a time over up to 3 Actions, or 2 requests with 2 calls over an Action and its renewal | 644,565 | one job per Attempt, claims precede calls and are undisturbed, planned Actions stay loadable, what is known is kept |
| `cloud_execute` | outbox and service: 2 callers, up to 3 Actions; 2 provider states, or 3 where an owned job is refreshed and cancelled | 1,498,776 | one create and one stop, authority first, the record is true, late replies do no harm and observations move on, the slot moves along renewals only |
| `tracking` | one scope: the journal alone, the W&B publisher, or the MLflow publisher; 1 lost call, kill, restart or deletion (2 for MLflow) | 146,223 | each record is shown once and at last, an ended Run is finished, the journal only grows |
| `progress` | exchange of a file of 4 units, 2 debug machines, a Slurm job with 2 lines and 1 requeue, each with 1 fault; the cloud observer and a client on an owned job; or the Slurm service with 2 Actions and 1 thread | 104,519 | acknowledged is in the journal, machines stay within the limit, what is learned of a Slurm job is true; the exchange completes while somebody drains it, expired machines are stopped, the end of a job is recorded and the Slurm lock released |
| `operations` | each other part by itself: action storage, administration, polling, collectors, uploads, copies, artifacts, builds, preparation, client, files, bundle, checkpoint, processes, Worker, registry, sources | 935,099 | nineteen properties, named in section 4 with the theorems that state them |
| `slurm_cancel_stuck`, `cloud_expired`, `tracking_rebuild`, `dataset_discards`, `native_drained`, `batch_expired` | as the runs above | | the findings below |

Why the bounds are enough. An error of the submission protocols needs at most
two contenders for one scope and one observer of the result: a call to prepare
and one to submit for each of two intents are the four calls; a second job is
there to be submitted by mistake. A renewal chain of three Actions has a first,
a middle and a last one, and two renewal requests can fork at the first. Each
request can be cut short and repeated without bound, crashes of the submission
services are not bounded, and neither is expiry. In the other parts there are
two of everything that may contend (clients, writers, nodes, machines,
reconcilers, uploads, requests) and three where a chain matters (Attempts,
tries, keys of the polling schedule); faults are bounded by one or two
(`MaxFailures`, `MostStops`, `MaxCrashes`, `MaxFaults`), because one fault
between two writes, and one more while its traces are still there, is what
recovery has to tell apart. Sizes are small where a limit has to be reached: a
log of 8 to 13 bytes overflows by 26, a receipt lists 3 files and a directory 2
or 4, and a window of one row makes a batch overlap its successor. The parts of
`operations` share no state while they run, so a behaviour exercises one; within
administration a plan is for outputs or for checkpoints, not both (the theorem
covers both).

Deadlock is checked in the runs of the submission services. In the others a
behaviour ends when its bounded calls are used up, which is the end of the
instance and not of the program.

Fairness. The Slurm lock: the thread that holds it runs on, because each of its
waits has a deadline (`transport.rs`, the budget of a call), after which
`GiveUp` is enabled; nothing is assumed of the helper, the network or the
scheduler. The cloud observer: each request runs on, the observer polls again
and again, and strong fairness for it to get a lock, a GET answered and the
answer committed: file locks are not handed on in turn, so no weaker assumption
suffices. The provider is assumed to answer GETs now and then, not to end the
job. The publishers: their threads visit again and again, the SDK child goes on
with what it holds, and what a dead child held arrives or is lost. The exchange:
the server goes on with what it received, and faults are bounded. Of the sender
no fairness for ever is assumed, for there is none: while its process runs the
Worker repeats an unanswered packet, after the end it drains for sixty seconds
(`DRAIN_BUDGET`, `cloud_exchange.rs:29,324-336`), then prints DEFERRED and exits
(`cloud.rs:298-309`), and only a synchronization a person asks for goes on
(`docs/pai.md:198-204`). `SenderLeaves` and `Synchronize` are these steps, and
neither is fair. `ExchangeCompletes` says that the exchange completes or the
sender stays away from some moment on; that a packet which is sent again and
again gets through in the end is strong fairness of `Collecting`. Debug machines: the observer refreshes each at
every tick. Slurm observation: strong fairness of a sample that learns
something, which the polling schedule justifies: `NoneIsStarved` says that each
key is sampled within a bounded number of turns. The parts of `progress` share no
state, so one fairness condition may name a step of each.

### Findings

1. `slurm_cancel_stuck`: `worker/src/slurm/ledger/jobs.rs:66`. The cancel outbox
   is two files. A helper that dies between them leaves a ledger on which every
   later CANCEL_JOB ends in an error; `engine/cancellation.rs:1-2` says that
   repeated calls reconcile the outbox.
2. `cloud_expired`: `server/src/backends/cloud/action.rs:51`. The outbox entry is
   published before the claim. A request that ends in between, followed by the
   expiry of the gate, leaves an Attempt that can neither be executed nor
   renewed; the comment at `engine/actions.rs:120` says that an expired gate
   leaves nothing behind.
3. `tracking_rebuild`: `server/src/tracking/publisher.rs:379`. A rebuild between
   a visit's two reads carries the old cursor into the fresh state, and every
   later visit refuses the scope; `records/rebuild.rs:3` says the new W&B id is
   filled.
4. `dataset_discards`: `server/src/backends/cloud/service/engine/datasets.rs:608`.
   The second locked section of a discard removes part records without looking
   at `archive_verified` again: a part that was sent again and verified in
   between loses its record (comment at 559-560).
5. `native_drained`: `server/src/backends/slurm/service/engine/observation.rs:173`.
   A refresh that stops between saving the finished evidence and journalling
   DRAINING_METRICS lets METRICS_DRAINED come first; the journal then never ends
   with it (`docs/metrics.md:208`, `docs/mlflow.md:82`), so the publishers and a
   rebuild take the Run for one that has not ended. Derived batches, which are
   refused as well, are for cloud Runs only (`docs/metrics.md:235-236`).
6. `batch_expired`: `client/src/batch.rs:182`. A pass does not count a child whose
   gate has expired; lines 122-125 say that such a child cannot start. It can: a
   request reads its clock before it waits for the service lock
   (`http_effect.rs:114-122`). A pass that is killed after its POST, the expiry
   of the gate, and a pass that starts another child make two active under a cap
   of one.

Where a property of a passing run depends on one of these being avoided, the
constant says so: `Overtaken` (finding 3) and `Overtaking` (finding 4) are FALSE
there, and `DrainedIsLast` is checked only in its own run. `WithinCap` leaves out
the children in `lapsed` (finding 6).

## 4. The proofs

Every theorem holds for all values of the constants under the named ASSUMEs of
the modules, which TLC evaluates in the runs. The assumptions are structural:
`None` is not an element of the sets, intents map to scopes, limits are natural
numbers, a directory comes before its entries. For the journal, a derived row is
never named as a report is, since its id is made of the batch's digest. Each invariant of a run that a
theorem states was first checked in its inductive form.

### Submission

* `StoresProofs`: `TypeCorrect`, `OneCallPerAction` (`OneCall`),
  `NothingIsTakenBack` (`NeverTakenBack`), `StoreImplementsLifecycle`
  (`ImplementsLifecycle`), `CallsStayExplained` (`CallsAreExplained`). That a
  call is made once is not inductive: the one who commits acts on a snapshot
  that may be old. `StoreInv` adds what a caller knows (`CallSound`): the
  snapshot it saw is the row, or has an older revision and cannot be committed
  (`KnowsRow`). Every step then moves the rows as a client may see it, which
  gives the action property and the refinement. `AuditInv` relates the row to
  its trail. The lock of the store is not used.
* `SlurmSubmissionProofs`: `GatewayIsSafe`, the invariant of the gateway. That a
  scope has one job is not inductive: a call that was asked long ago may still
  act. `GatewayInv` adds that an effect belongs to a claimed scope
  (`EffectsAreClaimed`, `GatesAreClaimed`), the call that starts a scope is the
  only one that does (`StarterIsAlone`), and a reply under way agrees with the
  gate (`AnswersAreTrue`). `ServiceUsesGateway`: each step of the service is one
  of the gateway or leaves it alone. `TypeCorrect`, `OneJob`
  (`OneJobPerAttempt`), `KnownStays` (`KnownIsKept`) and `ClaimsHold`
  (`ClaimsAreHonoured`) follow from `Inv`: original and renewals share one frozen
  intent (`CallsAreFrozen`), what a thread in the middle of an operation knows
  (`RequestsAreSound`), a recorded job is the receipt's (`ResultsAreReceipts`);
  and from `ClaimInv`.
* `SlurmLedgerProofs`: `SubmissionIsExact` (`LedgerIsSound`), `AnswersStay`
  (`AnswersAreKept`), `LedgerImplementsGateway` (`ImplementsGateway`).
  `LedgerInv` says what each helper knows at each of its writes (`Knows`), what
  its answer tells (`Tells`), and that `sbatch` is under way for one of them
  (`InflightOK`, `OneJob`); `RefineInv` adds the purpose of a call, which decides
  what step of the gateway a write is.
* `CloudSubmissionProofs`: `OutboxIsSound` (`EffectsHappenOnce`),
  `NothingIsTakenBack` (`EvidenceIsKept`), `ObservationsNeverGoBack`
  (`ObservationsMoveOn`). That a GET without the lock does no harm is not
  inductive: the reply may be committed long after. `OutboxInv` adds that who
  works under the lock holds it and knows the entry (`HasLock`, `Knows`), that a
  creation is one POST or one job (`OneCreation`), and that a state once seen is
  not ahead of the job (`RecordIsSeen`, `ReadsNewer`), because jobs only move
  forward (`Forward`). `CloudAttemptIsSound` (`CloudIsSound`) and
  `CloudNeverGoesBack` (`CloudOnlyAdvances`) add, over it, what the files and the
  request at work say (`FilesOK`, `OneAtWork`, `OutboxIsUsed`,
  `ResultsAreRecorded`).

### The operations around it

* `CloudPreparationProofs`: `AttemptsBeginAsPrepared` (`AttemptsBeginOnce`) and
  `RunNeverGoesBack` (the part `RunFollowsAttempts` of `StatesOnlyAdvance`):
  `SetupInv` follows a retry between its two writes, `BuildInv` and `RetryInv` a
  build whose proof may be old. `DatasetsStayStored` (`DatasetsAreStored`) under
  `Overtaking = FALSE` (finding 4): who will record a part has read it, and no
  one discards what is verified. `CopiesStayAccounted` also gives the part
  `ReadyKeepsItsCopy` of `StatesOnlyAdvance`.
* `OperationsProofs`: `ResultsAreKept` (`BundlesAreKept`), `WritesAreDurable`
  (`PublicationIsDurable`), `MachinesStayWithinLimit` (`MachinesAreHeld`),
  `CollectorsStayWhole` (`CollectorsAreWhole`), `RemovalStaysSafe`
  (`RemovalIsSafe`), `SamplingIsFair` (`PollingIsFair`), `TrainingIsStartedOnce`
  (`WorkerStartsOnce`), `ProcessesEnd` (`ProcessesEndWhole`). For administration
  the invariant ties each step to the plan it was fixed by (`PlanIsFixed`,
  `RemovalIsDue`, `MarkerIsOfPlan`, `FollowedIsNoticed`); for polling, a
  sampled key was due and each other one's turn comes closer (`TurnComes`, over
  a finite set of keys by well-founded induction on its subsets); for the Worker,
  a line on disk precedes the start whichever nodes hold the lock
  (`StartedIsWritten`, `BegunByOne`); for a process, which byte of the output is
  at each place of the log while head, seam and window move (`WriteIsTrue`,
  `MoveIsTrue`), and who still has the pipe and the group.
* `ClientProofs`: `CommandsDoOnce` (`ClientDoesOnce`) from `SubmitInv` (what is in
  doubt is on record, records follow what a command knows) and `BatchInv`
  (what may run at the end of a pass was counted by it, `PassExplains`, or is in
  one of two named sets: `behind`, a request of a stopped pass whose child comes
  after the one that is dispatched, and `lapsed`, one whose child was read as
  expired, finding 6); `WhatIsShownIsDone`
  (`ShownIsDone`) from what a screen and a request were computed from.
* `ObservationProofs`: `WhatIsKeptIsTrue` (`ObservationIsTrue`) and
  `NothingLearnedIsLost` (`SchedulerMovesOn`) of Slurm; `RecordsAreThereOnce`
  (`MlflowIsTrue`), for any journal that grows at any step.
  `ExchangeStaysWhole` (`ExchangeIsWhole`), for a file of any length cut into pages
  anywhere: what was saved of a packet does not tell how far it was fed, so the
  invariant speaks of how far the server *ever* fed the file (`FedTo`): up to
  there the journal has the lines and the server their identities, so that what
  is fed again after a stop is known; and a packet under way is the last saved
  one or follows it.
  `PublisherSaysTrue` (`PublishedIsTrue`) and `JournalStaysKept` (`JournalIsKept`)
  are of `PublisherSpec`: the publisher, with the child, W&B and a person, and
  any change of the scope between two of its steps. Their invariant
  `PublisherInv` has eight parts. `RecordsInv`: rows are told apart, with the
  identities of the journal. `ScopeOK`, `SavedOK`: cursor and reservations are
  of the Run of the last rebuild, and a finish was saved only when the rest was
  derived. `WandbOK`, `ShownOK`: a Run shows a row once and no row that is
  neither confirmed nor reserved. `ItemsOK`: what the child holds, what it may
  still have sent and what a visit is about to send are apart from each other
  and from what is shown. `VisitOK`: what a visit read is still so, or was
  moved only by itself; its plan sends nothing that is reserved. `SessionOK`:
  after the settle delay nothing is on its way, which is what lets a recovery
  send again. Both assume `Overtaken = FALSE`: with a rebuild between the two
  reads of a visit `SavedBehindRow` fails (`tracking_rebuild`, a finding).
  `PublisherSaysTrue` also assumes `Late = FALSE` (section 5).
* `StoresProofs`: `RegistryStaysSound` (`RegistryIsSound`) and `HistoryGrows` (the
  part `HistoryOnlyGrows` of `StatesOnlyAdvance`): head and journal differ by at
  most the last transition (`PlaceFollows`, `CommitFollows`), and the fold over
  the journal is a recursive function whose equation is proved from the smallest
  number at which it could fail. `SourcesStayWhole` (`SourcesAreWhole`) and
  `SourcesAreNeverTakenBack`: what was packed is what the directory held at the
  last check, however often it was edited, unless a directory was replaced behind
  its handle (section 5); under `DigestsTellApart`, that archives of different
  trees have different digests.
  `ArtifactsStayTrue` (`ArtifactsAreTrue`): in a result tree every change of a
  file has a number of its own, so that equal metadata before and after is the
  file of one moment (`FilesAreOld`, `MomentFollows`), and the walk's lemma counts
  the room and the remarks it has used after each path, for every shape of tree.
  A checkpoint file may be replaced by one with the same bytes: its invariant
  speaks of bytes and modes, not of which write they came from.

What could not be had from the prover. Liveness and ENABLED: `WaitsAreOver`,
`EndsArePublished`, `EverythingEnds`. Induction over data is done where it is
needed as above, for a recursive function and its smallest counterexample, since
the library's induction theorems take operators.

Every invariant of a passing run is stated by a theorem. Of the action
properties only the part `ReleaseOnlyAdvances` of `StatesOnlyAdvance` is checked by
TLC alone.

## 5. What is not modelled

Parsing, validation, rendering, signing and configuration: they are data. The
read model, deployment and documentation. Operating-system primitives, SQLite,
SSH, the provider, W&B and MLflow are used by their contract. What the modelled
parts leave out:

* *Submission.* Bytes of plans and requests; provider statuses invented by the
  provider (UNKNOWN); cloud renewal archives, which are the scheme checked in
  `slurm_execute`.
* *Cloud.* A checkpoint registered inside a packet; the startup-failure report,
  which only reads; `materialize_runtime`; the batching of expiry (sixteen at a
  time, and the first error of a lock or the storage ends the tick,
  `debug.rs:582-589`), which within `max_active` delays a stop to a later tick. The step between unlocking and registering an active build is one with
  its neighbour. In `CloudPreparation` a reconciliation is atomic; the proof read
  early is in `BuildRuntime`. A PUT executed after a release may recreate an
  object nobody refers to. Direct PUTs are made for one part only. Copies are
  accounted for; how many an Attempt has is not stated.
* *Tracking.* Columns that only describe. `ShownOnce` rests on the settle delay:
  after it nothing of a dead child arrives. A collector that brings what a Worker
  left after its end (`Late`) is not in the run:
  `FinishedIsWhole` speaks of what the journal held when the Run was finished.
* *Administration.* A checkpoint registered after its removal was planned, and an
  execution stopped between `started` and its markers
  (`administration.rs:328-332`), are in the model; `RemovalIsSafe` names what they
  may take (`Late`, `interrupted`) and excludes everything else. An effect that
  begins while a Run is being marked deleted takes a shared guard of the
  workspace; that it does no harm is not stated.
* *Client.* Writes of the records succeed, though a command may stop between
  them; one command at a time per user; memory is sized like CPUs; a batch has
  two children and one renewal in the run. Where a cap of a batch does not hold,
  because a stopped pass left a request under way, is in the model and named in
  `WithinCap`: `behind` and `lapsed`.
* *Files and Worker.* Of a directory only the target's name is tracked. A walk of
  the result tree is one step; when the required files alone cost more than a
  receipt lists the bundle holds only them. A receiver refuses such a receipt.
  The registration of a checkpoint may stop between publishing and sealing its
  document (`Register`): the Attempt then refuses every registration. Between the
  seal of a file and that of its directory training may put a copy of the same
  bytes in its place and write through it later (`io/src/checkpoints.rs:178-202`);
  `CertifiedIsStored` excepts what was written `late`, and a restoration hashes
  again. Metric
  capture, downloads, and a child that was reaped by somebody else (ECHILD) are
  left out.
* *Projects and sources.* Reads under the shared lock are one step; what a power
  loss does to the files is in `DurableFiles`. A receipt that was published and
  not sealed refuses its archive for ever; an I/O error after publication is
  reported as unavailable, not as uncertain; frames of `TreeDigest` tell trees
  apart only without empty directories, which packed trees have not. A packed
  archive is one moment of the directory's files for each file, and of the whole
  only as far as its last check (with four edits a stricter claim fails). A
  directory that is replaced while its handle is open is read as it was, so the
  archive may hold its old files beside newer ones of the rest, although
  `client/src/sources.rs:588-589` says that "an edit during packing fails rather
  than producing a torn archive": `PackedTogether` excepts it.

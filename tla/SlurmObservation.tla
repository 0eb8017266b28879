-------------------------- MODULE SlurmObservation --------------------------
(* What the server learns of a verified Slurm job: the scheduler's state,
   the evidence of the managed worker, the metric history, and a
   cancellation.  Each is asked for under the service lock in one call to
   the gateway, and is kept in a file beside the Attempt; the records
   journal gets the lifecycle and the lines.  The operations are explicit
   calls of users or samples of the observer; either may fail or stop
   between two durable writes.

   The files also name the request they belong to and are refused for
   another; identities are left out here. *)
EXTENDS Integers, FiniteSets, SequencesExt

CONSTANTS
    HistoryLines,   \* how many lines the training writes to metrics.jsonl
    PageLines,      \* lines in one page of history
    MostRequeues,   \* how often the scheduler may requeue the job
    MostStops       \* operations that fail between two writes

ASSUME ObservationAssumption ==
    {HistoryLines, PageLines, MostRequeues, MostStops} \subseteq Nat /\ PageLines > 0

VARIABLES
    job,        \* the state of the job at the scheduler
    original,   \* the state recorded when the submission was verified
    worker,     \* the managed worker: its phase
    file,       \* lines in metrics.jsonl
    cancelling, \* the gateway has taken the cancellation
    scheduler,  \* .scheduler.json: the last accepted state, or Unread
    evidence,   \* .observation.json: the phase of the last accepted evidence
    history,    \* .history.json: cursor and completeness
    cancel,     \* .cancellation.json
    lifecycle,  \* the lifecycle rows of the journal, in order
    told,       \* the lines in the journal
    operation,  \* the operation that holds the service lock
    requeues, stops

observationVars == <<job, original, worker, file, cancelling, scheduler, evidence, history, cancel,
                     lifecycle, told, operation, requeues, stops>>
clusterVars == <<job, worker, file, cancelling, requeues>>
slotVars == <<scheduler, evidence, history, cancel>>

Unread == "UNREAD"
Ends == {"SUCCEEDED", "CANCELLED"}
Free == [at |-> "free"]
NoCancellation == [saved |-> FALSE, verified |-> FALSE]

ObservationInit ==
    /\ original \in {"QUEUED", "RUNNING"} /\ job = original
    /\ worker = "Prepared" /\ file = 0 /\ cancelling = FALSE
    /\ scheduler = Unread /\ evidence = Unread
    /\ history = [saved |-> FALSE, cursor |-> 0, complete |-> FALSE]
    /\ cancel = NoCancellation
    /\ lifecycle = <<>> /\ told = {}
    /\ operation = Free
    /\ requeues = 0 /\ stops = 0

------------
(* The cluster, outside the server: the scheduler runs, requeues and ends
   the job; its worker starts, writes and finishes. *)
Cluster(next, phase, lines) ==
    /\ job' = next /\ worker' = phase /\ file' = lines
    /\ UNCHANGED <<original, cancelling, slotVars, lifecycle, told, operation, stops>>

JobStarts == job = "QUEUED" /\ Cluster("RUNNING", worker, file) /\ UNCHANGED requeues
JobRequeued ==
    /\ job = "RUNNING" /\ worker = "Prepared" /\ requeues < MostRequeues
    /\ requeues' = requeues + 1
    /\ Cluster("QUEUED", worker, file)
WorkerStarts == job = "RUNNING" /\ worker = "Prepared" /\ Cluster(job, "Started", file) /\ UNCHANGED requeues
WorkerWrites == worker = "Started" /\ file < HistoryLines /\ Cluster(job, worker, file + 1) /\ UNCHANGED requeues
WorkerFinishes == worker = "Started" /\ Cluster(job, "Finished", file) /\ UNCHANGED requeues
JobEnds ==
    /\ job = "RUNNING" /\ worker # "Started"
    /\ Cluster(IF worker = "Finished" THEN "SUCCEEDED" ELSE "CANCELLED", worker, file)
    /\ UNCHANGED requeues
\* The scheduler carries out a cancellation; the worker ends by the signal.
JobCancelled ==
    /\ cancelling /\ job \notin Ends
    /\ Cluster("CANCELLED", IF worker = "Started" THEN "Finished" ELSE worker, file)
    /\ UNCHANGED requeues

ClusterNext ==
    JobStarts \/ JobRequeued \/ WorkerStarts \/ WorkerWrites \/ WorkerFinishes \/ JobEnds \/ JobCancelled

------------
(* A reading of the scheduler: the state, or the last one known when the
   scheduler does not answer for the job. *)
Readings == [state : {job, "UNKNOWN"}, retained : {FALSE}] \cup [state : {original}, retained : {TRUE}]

\* Mutant: any fresh reading of this job is taken.
FollowsAny(previous, reading) == ~reading.retained

(* scheduler_follows: a retained or unknown reading changes nothing, an
   end stays, and a running job is not queued again. *)
SchedulerFollows(previous, reading) ==
    /\ ~reading.retained /\ reading.state # "UNKNOWN"
    /\ previous \in Ends => reading.state = previous
    /\ ~(previous = "RUNNING" /\ reading.state = "QUEUED")

\* refresh_scheduler: one call, then one write.
RefreshScheduler ==
    /\ operation = Free
    /\ \E reading \in Readings :
          /\ SchedulerFollows(IF scheduler = Unread THEN original ELSE scheduler, reading)
          /\ scheduler' = reading.state
    /\ UNCHANGED <<clusterVars, original, evidence, history, cancel, lifecycle, told, operation, stops>>

------------
\* append: an event that is known adds no row.
Recorded(event) == IF event \in ToSet(lifecycle) THEN lifecycle ELSE Append(lifecycle, event)
Latest == IF lifecycle = <<>> THEN "none" ELSE Last(lifecycle)

Rank(phase) == CASE phase = "Prepared" -> 1 [] phase = "Started" -> 2 [] phase = "Finished" -> 3 [] OTHER -> 0
LifecycleOf(phase) ==
    CASE phase = "Prepared" -> "STARTING" [] phase = "Started" -> "RUNNING" [] OTHER -> "DRAINING_METRICS"

\* Mutant: evidence is taken as it comes.
EvidenceFollowsAny(phase) == TRUE

\* follows: the phase never goes back, and finished evidence is the receipt.
EvidenceFollows(phase) == Rank(phase) >= Rank(evidence)

\* What the gateway may read of a worker: a file system may be behind.
Seen == {p \in {"Prepared", "Started", "Finished"} : Rank(p) <= Rank(worker)}

\* refresh: the evidence is saved first, then told to the journal.
RefreshWorker ==
    /\ operation = Free
    /\ \E phase \in Seen : EvidenceFollows(phase) /\ evidence' = phase
    /\ operation' = [at |-> "lifecycle"]
    /\ UNCHANGED <<clusterVars, original, scheduler, history, cancel, lifecycle, told, stops>>

JournalLifecycle ==
    /\ operation.at = "lifecycle"
    /\ lifecycle' = Recorded(LifecycleOf(evidence))
    /\ operation' = IF history.complete /\ evidence = "Finished" THEN [at |-> "end"] ELSE Free
    /\ UNCHANGED <<clusterVars, original, slotVars, told, stops>>

\* journal_training_end, with the receipt of the saved evidence.
JournalTrainingEnd ==
    /\ operation.at = "end"
    /\ lifecycle' = Recorded("METRICS_DRAINED")
    /\ operation' = Free
    /\ UNCHANGED <<clusterVars, original, slotVars, told, stops>>

------------
\* ingest_history, once everything is in: the end is told again.
HistoryAgain ==
    /\ operation = Free /\ history.complete /\ evidence = "Finished"
    /\ operation' = [at |-> "end"]
    /\ UNCHANGED <<clusterVars, original, slotVars, lifecycle, told, stops>>

\* Mutant: the page is complete when it reaches the end of the file.
CompleteAtEnd(next, finished) == next = file

\* Page::complete: the process has finished and the page reaches the end.
PageComplete(next, finished) == finished /\ next = file

\* ingest_history: a page after the cursor, its lines to the journal first.
IngestHistory ==
    /\ operation = Free /\ ~history.complete
    /\ LET next == IF history.cursor + PageLines < file THEN history.cursor + PageLines ELSE file
       IN operation' = [at |-> "lines", fed |-> history.cursor, next |-> next,
                        complete |-> PageComplete(next, worker = "Finished")]
    /\ UNCHANGED <<clusterVars, original, slotVars, lifecycle, told, stops>>

\* append_import, one transaction at a time.
AppendImport ==
    /\ operation.at = "lines" /\ operation.fed < operation.next
    /\ told' = told \cup {operation.fed + 1}
    /\ operation' = [operation EXCEPT !.fed = @ + 1]
    /\ UNCHANGED <<clusterVars, original, slotVars, lifecycle, stops>>

\* The end is told before the history is saved as complete, if it is known.
EndOfHistory ==
    /\ operation.at = "lines" /\ operation.fed = operation.next
    /\ lifecycle' = IF operation.complete /\ evidence = "Finished" THEN Recorded("METRICS_DRAINED") ELSE lifecycle
    /\ operation' = [operation EXCEPT !.at = "save"]
    /\ UNCHANGED <<clusterVars, original, slotVars, told, stops>>

\* Mutant: the cursor is saved before the lines are told.
SaveHistoryFirst ==
    /\ operation.at = "lines"
    /\ history' = [saved |-> TRUE, cursor |-> operation.next, complete |-> operation.complete]
    /\ operation' = IF operation.complete /\ evidence = "Finished" THEN [at |-> "end"] ELSE Free
    /\ UNCHANGED <<clusterVars, original, scheduler, evidence, cancel, lifecycle, told, stops>>

SaveHistory ==
    /\ operation.at = "save"
    /\ history' = [saved |-> TRUE, cursor |-> operation.next, complete |-> operation.complete]
    /\ operation' = Free
    /\ UNCHANGED <<clusterVars, original, scheduler, evidence, cancel, lifecycle, told, stops>>

------------
\* cancel: the intent is saved before the call.
RequestCancel ==
    /\ operation = Free /\ ~cancel.verified
    /\ cancel' = [cancel EXCEPT !.saved = TRUE]
    /\ operation' = [at |-> "cancel"]
    /\ UNCHANGED <<clusterVars, original, scheduler, evidence, history, lifecycle, told, stops>>

\* The call reaches the gateway, which cancels the job once.
CancelReaches ==
    /\ operation.at = "cancel"
    /\ cancelling' = TRUE
    /\ operation' = [at |-> "cancelled"]
    /\ UNCHANGED <<job, worker, file, requeues, original, slotVars, lifecycle, told, stops>>

\* Mutant: an answer to the cancellation is taken for its end.
ObservedAnyway(reading) == [cancel EXCEPT !.verified = TRUE]

\* State::observed: the end is verified by a terminal observation only.
CancellationObserved(reading) ==
    IF reading.retained THEN cancel
    ELSE [cancel EXCEPT !.verified = reading.state \in Ends]

\* The answer: an observation of the job, or nothing that can be used.
CancelAnswered ==
    /\ operation.at = "cancelled"
    /\ cancel' \in {cancel} \cup {CancellationObserved(reading) : reading \in Readings}
    /\ operation' = Free
    /\ UNCHANGED <<clusterVars, original, scheduler, evidence, history, lifecycle, told, stops>>

------------
\* The operation fails or the server stops: what was written stays.
OperationStops ==
    /\ operation # Free /\ stops < MostStops
    /\ operation' = Free /\ stops' = stops + 1
    /\ UNCHANGED <<clusterVars, original, slotVars, lifecycle, told>>

\* Mutant: a terminal state of the scheduler is enough.
RetiresEarly == scheduler \in Ends

(* background_candidates: the end of the job, of the process and of the
   history are three facts, and the journal must know the end. *)
MayRetire ==
    /\ scheduler \in Ends /\ evidence = "Finished" /\ history.complete
    /\ Latest = "METRICS_DRAINED"

Refreshing == RefreshWorker \/ JournalLifecycle \/ JournalTrainingEnd
Ingesting == IngestHistory \/ HistoryAgain \/ AppendImport \/ EndOfHistory \/ SaveHistory
Cancelling == RequestCancel \/ CancelReaches \/ CancelAnswered

ObservationNext ==
    ClusterNext \/ RefreshScheduler \/ Refreshing \/ Ingesting \/ Cancelling \/ OperationStops

ObservationSpec == ObservationInit /\ [][ObservationNext]_observationVars

------------
(* What the observer may leave alone is really over: the job has ended at the
   scheduler, the process has finished, every line it wrote is in the
   journal and the journal says so. *)
RetiredIsOver ==
    MayRetire => /\ job \in Ends /\ worker = "Finished"
                 /\ told = 1..file /\ "METRICS_DRAINED" \in ToSet(lifecycle)

(* The journal is drained only after the last line of a finished process:
   a crash between the lines, the end and the cursor repeats lines, and
   loses none. *)
DrainedAfterLastLine ==
    /\ "METRICS_DRAINED" \in ToSet(lifecycle) => worker = "Finished" /\ told = 1..file
    /\ 1..history.cursor \subseteq told

(* A cancellation is verified only when the job was seen to have ended,
   and the gateway is asked only after the intent was saved: a crash or a
   lost answer leaves a request that can be repeated, never a guess. *)
CancelledIsSeen ==
    /\ cancel.verified => job \in Ends
    /\ cancelling => cancel.saved

(* The kept state of the scheduler is one the job had, and it never leaves
   an end.  A requeued job keeps RUNNING until it runs again. *)
SchedulerMovesOn ==
    [][/\ scheduler \in Ends => scheduler' = scheduler
       /\ evidence = "Finished" => evidence' = evidence
       /\ history.cursor <= history'.cursor
       /\ cancel.verified => cancel'.verified]_observationVars

(* A journal that said METRICS_DRAINED ends with it, as the publishers and
   derived batches require of an ended Attempt. *)
DrainedIsLast ==
    (operation = Free /\ "METRICS_DRAINED" \in ToSet(lifecycle)) => Latest = "METRICS_DRAINED"

(* What is kept of a Slurm job is so: it retires when nothing is left to
   learn, is drained after its last line, and is cancelled when it was
   seen to have ended. *)
ObservationIsTrue == RetiredIsOver /\ DrainedAfterLastLine /\ CancelledIsSeen
=============================================================================

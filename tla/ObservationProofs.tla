-------------------------- MODULE ObservationProofs --------------------------
(* Proofs about what is learned and told beside an Attempt: what the server
   keeps of a Slurm job, for every length of the history and of its pages;
   what the MLflow publisher has on its server, for every journal; what
   the exchange of a cloud Attempt brings to the journal, for every file,
   packet and loss; and what the W&B publisher says of its Runs, for every
   window, rebuild and failure.  Each part has an inductive invariant that
   ties the durable state, the operation under way and the other side
   together. *)
EXTENDS SlurmObservation, MlflowPublisher, Publisher, CloudExchange, FiniteSetTheorems, WellFoundedInduction, TLAPS

------------
(* The observation of a Slurm job.  An operation that is under way knows
   how far the journal was told, and the slots never say more than the
   scheduler and the worker did. *)
JobStates == {"QUEUED", "RUNNING"} \cup Ends
Phases == {"Prepared", "Started", "Finished"}
LifecycleRows == {"STARTING", "RUNNING", "DRAINING_METRICS", "METRICS_DRAINED"}
Pages == [at : {"lines", "save"}, fed : Nat, next : Nat, complete : BOOLEAN]
Turns == [at : {"free", "lifecycle", "end", "cancel", "cancelled"}]

Drained == "METRICS_DRAINED" \in ToSet(lifecycle)

ObservationTypeOK ==
    /\ job \in JobStates /\ original \in {"QUEUED", "RUNNING"} /\ worker \in Phases /\ file \in Nat
    /\ cancelling \in BOOLEAN /\ scheduler \in {Unread} \cup JobStates /\ evidence \in {Unread} \cup Phases
    /\ history \in [saved : BOOLEAN, cursor : Nat, complete : BOOLEAN]
    /\ cancel \in [saved : BOOLEAN, verified : BOOLEAN]
    /\ lifecycle \in Seq(LifecycleRows) /\ operation \in Pages \cup Turns

ClusterIsOrderly == job \in Ends => worker # "Started"

KnownIsReal ==
    /\ scheduler \in Ends => job = scheduler
    /\ evidence = "Finished" => worker = "Finished"

HistoryIsTold ==
    /\ told \subseteq 1..file
    /\ history.cursor <= file /\ 1..history.cursor \subseteq told
    /\ history.complete => worker = "Finished" /\ history.cursor = file

PageIsTold ==
    operation \in Pages =>
      /\ ~history.complete
      /\ history.cursor <= operation.fed /\ operation.fed <= operation.next /\ operation.next <= file
      /\ 1..operation.fed \subseteq told
      /\ operation.complete => worker = "Finished" /\ operation.next = file
      /\ operation.at = "save" => operation.fed = operation.next

OperationIsDue ==
    /\ operation.at = "lifecycle" => evidence # Unread
    /\ operation.at = "end" => history.complete /\ evidence = "Finished"
    /\ operation.at \in {"cancel", "cancelled"} => cancel.saved /\ ~cancel.verified

DrainedIsTold == Drained => worker = "Finished" /\ 1..file \subseteq told

ObservationInv ==
    /\ ObservationTypeOK /\ ClusterIsOrderly /\ KnownIsReal /\ HistoryIsTold /\ PageIsTold
    /\ OperationIsDue /\ DrainedIsTold /\ CancelledIsSeen

------------
LEMMA RecordedAdds ==
    ASSUME lifecycle \in Seq(LifecycleRows), NEW event \in LifecycleRows
    PROVE  Recorded(event) \in Seq(LifecycleRows) /\ ToSet(Recorded(event)) \subseteq ToSet(lifecycle) \cup {event}
<1>1. CASE event \in ToSet(lifecycle) BY <1>1 DEF Recorded
<1>2. CASE event \notin ToSet(lifecycle)
 <2> DEFINE s == Append(lifecycle, event)
 <2>1. Recorded(event) = s BY <1>2 DEF Recorded
 <2>2. s \in Seq(LifecycleRows) /\ DOMAIN s = 1..(Len(lifecycle) + 1) /\ DOMAIN lifecycle = 1..Len(lifecycle)
       /\ Len(lifecycle) \in Nat
   OBVIOUS
 <2>3. \A i \in DOMAIN s : s[i] = event \/ (i \in DOMAIN lifecycle /\ s[i] = lifecycle[i])
   OBVIOUS
 <2> HIDE DEF s
 <2>4. ToSet(s) \subseteq ToSet(lifecycle) \cup {event} BY <2>3 DEF ToSet
 <2> QED BY <2>1, <2>2, <2>4
<1> QED BY <1>1, <1>2

LEMMA LatestIsThere ==
    ASSUME lifecycle \in Seq(LifecycleRows), Latest = "METRICS_DRAINED" PROVE Drained
<1>1. lifecycle # <<>> /\ Last(lifecycle) = "METRICS_DRAINED" BY DEF Latest
<1> QED BY <1>1 DEF Last, ToSet, Drained

LEMMA Turning ==
    \A a \in {"free", "lifecycle", "end", "cancel", "cancelled"} :
       [at |-> a] \in Turns /\ [at |-> a] \notin Pages /\ [at |-> a].at = a
<1> SUFFICES ASSUME NEW a \in {"free", "lifecycle", "end", "cancel", "cancelled"}
             PROVE  [at |-> a] \in Turns /\ [at |-> a] \notin Pages /\ [at |-> a].at = a
  OBVIOUS
<1> QED BY DEF Turns, Pages

LEMMA OperationFacts ==
    ASSUME ObservationInv
    PROVE  /\ operation.at \in {"lines", "save"} <=> operation \in Pages
           /\ Free \in Turns /\ Free \notin Pages /\ Free.at = "free"
  BY Turning DEF ObservationInv, ObservationTypeOK, Pages, Turns, Free

------------
\* A step of the cluster: the worker goes on and the file grows while it runs.
LEMMA ClusterKeeps ==
    ASSUME ObservationInv, NEW next \in JobStates, NEW phase \in Phases, NEW lines \in Nat,
           Cluster(next, phase, lines),
           job \in Ends => next = job,
           worker = "Finished" => phase = "Finished" /\ lines = file,
           file <= lines, next \in Ends => phase # "Started"
    PROVE  ObservationInv'
<1>1. /\ job' = next /\ worker' = phase /\ file' = lines
      /\ UNCHANGED <<original, cancelling, scheduler, evidence, history, cancel, lifecycle, told, operation, stops>>
  BY DEF Cluster, slotVars
<1>2. ObservationTypeOK' BY <1>1 DEF ObservationInv, ObservationTypeOK
<1>3. ClusterIsOrderly' /\ KnownIsReal' BY <1>1 DEF ObservationInv, ClusterIsOrderly, KnownIsReal
<1>4. file \in Nat /\ history.cursor \in Nat /\ (operation \in Pages => operation.next \in Nat)
  BY DEF ObservationInv, ObservationTypeOK, Pages
<1>5. HistoryIsTold'
 <2> QED BY <1>1, <1>4 DEF ObservationInv, HistoryIsTold
<1>6. PageIsTold' BY <1>1, <1>4 DEF ObservationInv, PageIsTold
<1>7. OperationIsDue' /\ DrainedIsTold' BY <1>1 DEF ObservationInv, OperationIsDue, DrainedIsTold, Drained
<1>8. CancelledIsSeen' BY <1>1 DEF ObservationInv, CancelledIsSeen
<1> QED BY <1>2, <1>3, <1>5, <1>6, <1>7, <1>8 DEF ObservationInv

LEMMA ClusterStep == ASSUME ObservationInv, ClusterNext PROVE ObservationInv'
<1> USE DEF JobStates, Phases, Ends
<1>0. job \in JobStates /\ worker \in Phases /\ file \in Nat /\ (job \in Ends => worker # "Started")
  BY DEF ObservationInv, ObservationTypeOK, ClusterIsOrderly
<1>1. CASE JobStarts BY <1>0, <1>1, ClusterKeeps DEF JobStarts
<1>2. CASE JobRequeued BY <1>0, <1>2, ClusterKeeps DEF JobRequeued
<1>3. CASE WorkerStarts BY <1>0, <1>3, ClusterKeeps DEF WorkerStarts
<1>4. CASE WorkerWrites
 <2>2. file + 1 \in Nat /\ file <= file + 1 BY <1>0
 <2> QED BY <1>0, <1>4, <2>2, ClusterKeeps DEF WorkerWrites
<1>5. CASE WorkerFinishes BY <1>0, <1>5, ClusterKeeps DEF WorkerFinishes
<1>6. CASE JobEnds
 <2> QED BY <1>0, <1>6, ClusterKeeps DEF JobEnds
<1>7. CASE JobCancelled
 <2> QED BY <1>0, <1>7, ClusterKeeps DEF JobCancelled
<1> QED BY <1>1, <1>2, <1>3, <1>4, <1>5, <1>6, <1>7 DEF ClusterNext

LEMMA ReadingFacts ==
    ASSUME ObservationInv, NEW reading \in Readings
    PROVE  /\ reading.retained \in BOOLEAN
           /\ ~reading.retained /\ reading.state # "UNKNOWN" => reading.state = job
           /\ reading.state \in JobStates \cup {"UNKNOWN"}
  BY DEF ObservationInv, ObservationTypeOK, Readings, JobStates

LEMMA SchedulerStep == ASSUME ObservationInv, RefreshScheduler PROVE ObservationInv'
<1>1. PICK reading \in Readings :
        /\ SchedulerFollows(IF scheduler = Unread THEN original ELSE scheduler, reading)
        /\ scheduler' = reading.state
  BY DEF RefreshScheduler
<1>2. scheduler' = job BY <1>1, ReadingFacts DEF SchedulerFollows
<1>3. UNCHANGED <<job, worker, file, cancelling, requeues, original, evidence, history, cancel, lifecycle, told, operation>>
  BY DEF RefreshScheduler, clusterVars
<1>4. ObservationTypeOK' /\ KnownIsReal' /\ ClusterIsOrderly'
  BY <1>2, <1>3 DEF ObservationInv, ObservationTypeOK, KnownIsReal, ClusterIsOrderly
<1>6. OperationIsDue' /\ DrainedIsTold' /\ CancelledIsSeen'
  BY <1>3 DEF ObservationInv, OperationIsDue, DrainedIsTold, Drained, CancelledIsSeen
<1> QED BY <1>4, <1>3, <1>6 DEF ObservationInv, HistoryIsTold, PageIsTold

------------
\* A step of the server: what it may disturb is given piece by piece.
LEMMA ServerKeeps ==
    ASSUME ObservationInv, UNCHANGED <<job, worker, file, original, scheduler>>,
           cancelling' \in BOOLEAN, evidence' \in {Unread} \cup Phases,
           evidence' = "Finished" => worker = "Finished",
           history' \in [saved : BOOLEAN, cursor : Nat, complete : BOOLEAN],
           cancel' \in [saved : BOOLEAN, verified : BOOLEAN], CancelledIsSeen',
           lifecycle' \in Seq(LifecycleRows), DrainedIsTold', HistoryIsTold',
           operation' \in Pages \cup Turns, PageIsTold', OperationIsDue'
    PROVE  ObservationInv'
<1>2. ClusterIsOrderly' BY DEF ObservationInv, ClusterIsOrderly
<1>3. KnownIsReal' BY DEF ObservationInv, KnownIsReal
<1> QED BY <1>2, <1>3 DEF ObservationInv, ObservationTypeOK

\* A step that leaves the history, its lines and the cancellation.
LEMMA TellingKeeps ==
    ASSUME ObservationInv, UNCHANGED <<job, worker, file, original, scheduler, cancelling, history, cancel, told>>,
           evidence' \in {Unread} \cup Phases, evidence' = "Finished" => worker = "Finished",
           lifecycle' \in Seq(LifecycleRows), DrainedIsTold',
           operation' \in Turns, operation' \notin Pages, OperationIsDue'
    PROVE  ObservationInv'
<1>2. PageIsTold' BY DEF PageIsTold
<1>3. /\ history' \in [saved : BOOLEAN, cursor : Nat, complete : BOOLEAN]
      /\ cancel' \in [saved : BOOLEAN, verified : BOOLEAN] /\ cancelling' \in BOOLEAN
  BY DEF ObservationInv, ObservationTypeOK
<1> QED BY <1>2, <1>3, ServerKeeps DEF ObservationInv, HistoryIsTold, CancelledIsSeen

LEMMA RefreshingStep == ASSUME ObservationInv, Refreshing PROVE ObservationInv'
<1>1. CASE RefreshWorker
 <2>1. evidence' \in Seen /\ operation' = [at |-> "lifecycle"] /\ operation = Free
       /\ UNCHANGED <<job, worker, file, cancelling, requeues, original, scheduler, history, cancel, lifecycle, told>>
   BY <1>1 DEF RefreshWorker, clusterVars
 <2>2. evidence' \in Phases /\ (evidence' = "Finished" => worker = "Finished")
  <3> QED BY <2>1 DEF Seen, Rank, Phases, ObservationInv, ObservationTypeOK
 <2>3. operation' \in Turns /\ operation' \notin Pages /\ operation'.at = "lifecycle" BY <2>1, Turning
 <2>4. OperationIsDue' BY <2>2, <2>3 DEF OperationIsDue, Phases, Unread
 <2>5. DrainedIsTold' /\ lifecycle' \in Seq(LifecycleRows)
   BY <2>1 DEF ObservationInv, ObservationTypeOK, DrainedIsTold, Drained
 <2> QED BY <2>1, <2>2, <2>3, <2>4, <2>5, TellingKeeps
<1>2. CASE JournalLifecycle
 <2>1. /\ operation.at = "lifecycle" /\ lifecycle' = Recorded(LifecycleOf(evidence))
       /\ operation' = IF history.complete /\ evidence = "Finished" THEN [at |-> "end"] ELSE Free
       /\ UNCHANGED <<job, worker, file, cancelling, requeues, original, scheduler, evidence, history, cancel, told>>
   BY <1>2 DEF JournalLifecycle, clusterVars, slotVars
 <2>3. lifecycle \in Seq(LifecycleRows) /\ evidence \in {Unread} \cup Phases /\ (evidence = "Finished" => worker = "Finished")
   BY DEF ObservationInv, ObservationTypeOK, KnownIsReal
 <2>4. lifecycle' \in Seq(LifecycleRows) /\ (Drained' => Drained)
   BY <2>1, <2>3, RecordedAdds DEF Drained, LifecycleOf, LifecycleRows
 <2>5. DrainedIsTold' BY <2>1, <2>4 DEF ObservationInv, DrainedIsTold
 <2>6. operation' \in Turns /\ operation' \notin Pages
       /\ (operation'.at = "free" \/ (operation'.at = "end" /\ history.complete /\ evidence = "Finished"))
   BY <2>1, Turning DEF Free
 <2> QED BY <2>1, <2>3, <2>4, <2>5, <2>6, TellingKeeps DEF OperationIsDue
<1>3. CASE JournalTrainingEnd
 <2>1. /\ operation.at = "end" /\ lifecycle' = Recorded("METRICS_DRAINED") /\ operation' = Free
       /\ UNCHANGED <<job, worker, file, cancelling, requeues, original, scheduler, evidence, history, cancel, told>>
   BY <1>3 DEF JournalTrainingEnd, clusterVars, slotVars
 <2>3. lifecycle \in Seq(LifecycleRows) /\ evidence \in {Unread} \cup Phases /\ (evidence = "Finished" => worker = "Finished")
   BY DEF ObservationInv, ObservationTypeOK, KnownIsReal
 <2>4. lifecycle' \in Seq(LifecycleRows) BY <2>1, <2>3, RecordedAdds DEF LifecycleRows
 <2>5. DrainedIsTold' BY <2>1 DEF ObservationInv, HistoryIsTold, DrainedIsTold, OperationIsDue
 <2>6. operation' \in Turns /\ operation' \notin Pages /\ operation'.at = "free" BY <2>1, OperationFacts
 <2> QED BY <2>1, <2>3, <2>4, <2>5, <2>6, TellingKeeps DEF OperationIsDue
<1> QED BY <1>1, <1>2, <1>3 DEF Refreshing

\* A step of a page: neither the evidence nor the cancellation changes.
LEMMA PageKeeps ==
    ASSUME ObservationInv,
           UNCHANGED <<job, worker, file, original, scheduler, cancelling, evidence, cancel>>,
           history' \in [saved : BOOLEAN, cursor : Nat, complete : BOOLEAN],
           lifecycle' \in Seq(LifecycleRows), DrainedIsTold', HistoryIsTold',
           operation' \in Pages \cup Turns, PageIsTold', OperationIsDue'
    PROVE  ObservationInv'
<1>2. /\ evidence' \in {Unread} \cup Phases /\ (evidence' = "Finished" => worker = "Finished")
      /\ cancel' \in [saved : BOOLEAN, verified : BOOLEAN] /\ cancelling' \in BOOLEAN
  BY DEF ObservationInv, ObservationTypeOK, KnownIsReal
<1> QED BY <1>2, ServerKeeps DEF ObservationInv, CancelledIsSeen

LEMMA IngestingStep == ASSUME ObservationInv, Ingesting PROVE ObservationInv'
<1>0. /\ file \in Nat /\ history.cursor \in Nat /\ lifecycle \in Seq(LifecycleRows)
      /\ history \in [saved : BOOLEAN, cursor : Nat, complete : BOOLEAN] /\ history.cursor <= file
      /\ HistoryIsTold /\ DrainedIsTold
  BY DEF ObservationInv, ObservationTypeOK, HistoryIsTold
<1>1. CASE HistoryAgain
 <2>1. /\ history.complete /\ evidence = "Finished" /\ operation' = [at |-> "end"]
       /\ UNCHANGED <<job, worker, file, original, scheduler, cancelling, evidence, cancel, history, lifecycle, told>>
   BY <1>1 DEF HistoryAgain, clusterVars, slotVars
 <2>2. operation' \in Turns /\ operation' \notin Pages /\ operation'.at = "end" BY <2>1, Turning
 <2>4. HistoryIsTold' /\ DrainedIsTold' BY <1>0, <2>1 DEF HistoryIsTold, DrainedIsTold, Drained
 <2> QED BY <1>0, <2>1, <2>2, <2>4, PageKeeps DEF OperationIsDue, PageIsTold
<1>2. CASE IngestHistory
 <2> DEFINE next == IF history.cursor + PageLines < file THEN history.cursor + PageLines ELSE file
            done == PageComplete(next, worker = "Finished")
            page == [at |-> "lines", fed |-> history.cursor, next |-> next, complete |-> done]
 <2>1. /\ ~history.complete /\ operation' = page
       /\ UNCHANGED <<job, worker, file, original, scheduler, cancelling, evidence, cancel, history, lifecycle, told>>
   BY <1>2 DEF IngestHistory, clusterVars, slotVars
 <2>2. next \in Nat /\ history.cursor <= next /\ next <= file BY <1>0, ObservationAssumption
 <2>3. done \in BOOLEAN /\ (done => worker = "Finished" /\ next = file) BY DEF PageComplete
 <2> HIDE DEF next, done
 <2>4. page \in Pages /\ page.at = "lines" /\ page.fed = history.cursor /\ page.next = next /\ page.complete = done
   BY <1>0, <2>2, <2>3 DEF Pages
 <2> HIDE DEF page
 <2>5. HistoryIsTold' /\ DrainedIsTold' BY <1>0, <2>1 DEF HistoryIsTold, DrainedIsTold, Drained
 <2>7. PageIsTold' BY <1>0, <2>1, <2>2, <2>3, <2>4 DEF PageIsTold, HistoryIsTold
 <2> QED BY <1>0, <2>1, <2>4, <2>5, <2>7, PageKeeps DEF OperationIsDue
<1>3. CASE AppendImport
 <2>1. /\ operation.at = "lines" /\ operation.fed < operation.next /\ told' = told \cup {operation.fed + 1}
       /\ operation' = [operation EXCEPT !.fed = operation.fed + 1]
       /\ UNCHANGED <<job, worker, file, original, scheduler, cancelling, evidence, cancel, history, lifecycle>>
   BY <1>3 DEF AppendImport, clusterVars, slotVars
 <2>2. operation \in Pages /\ PageIsTold BY <2>1, OperationFacts DEF ObservationInv
 <2>3. /\ operation.fed \in Nat /\ operation.next \in Nat /\ operation.next <= file
       /\ operation.fed + 1 \in Nat /\ operation.fed + 1 <= operation.next /\ operation.fed + 1 \in 1..file
       /\ history.cursor <= operation.fed + 1
  <3>2. operation.next <= file /\ history.cursor <= operation.fed BY <2>2 DEF PageIsTold
  <3> QED BY <1>0, <2>1, <2>2, <3>2 DEF Pages
 <2>4. /\ operation' \in Pages /\ operation'.at = "lines" /\ operation'.fed = operation.fed + 1
       /\ operation'.next = operation.next /\ operation'.complete = operation.complete
  <3>2. operation' = [at |-> operation.at, fed |-> operation.fed + 1, next |-> operation.next,
                      complete |-> operation.complete] BY <2>1, <2>2, <2>3 DEF Pages
  <3> QED BY <2>1, <2>2, <2>3, <3>2 DEF Pages
 <2>5. 1..(operation.fed + 1) \subseteq told'
  <3> QED BY <2>1, <2>2, <2>3 DEF PageIsTold
 <2>6. PageIsTold' BY <2>1, <2>2, <2>3, <2>4, <2>5 DEF PageIsTold
 <2>7. HistoryIsTold' /\ DrainedIsTold'
   BY <1>0, <2>1, <2>3 DEF HistoryIsTold, DrainedIsTold, Drained
 <2>9. /\ history' \in [saved : BOOLEAN, cursor : Nat, complete : BOOLEAN]
       /\ lifecycle' \in Seq(LifecycleRows)
   BY <1>0, <2>1
 <2> QED BY <2>1, <2>4, <2>6, <2>7, <2>9, PageKeeps DEF OperationIsDue
<1>4. CASE EndOfHistory
 <2>1. /\ operation.at = "lines" /\ operation.fed = operation.next
       /\ lifecycle' = IF operation.complete /\ evidence = "Finished" THEN Recorded("METRICS_DRAINED") ELSE lifecycle
       /\ operation' = [operation EXCEPT !.at = "save"]
       /\ UNCHANGED <<job, worker, file, original, scheduler, cancelling, evidence, cancel, history, told>>
   BY <1>4 DEF EndOfHistory, clusterVars, slotVars
 <2>2. operation \in Pages /\ PageIsTold BY <2>1, OperationFacts DEF ObservationInv
 <2>3. /\ operation' \in Pages /\ operation'.at = "save" /\ operation'.fed = operation.fed
       /\ operation'.next = operation.next /\ operation'.complete = operation.complete
  <3>2. operation' = [at |-> "save", fed |-> operation.fed, next |-> operation.next,
                      complete |-> operation.complete] BY <2>1, <2>2 DEF Pages
  <3> QED BY <2>2, <3>2 DEF Pages
 <2>4. PageIsTold' BY <2>1, <2>2, <2>3 DEF PageIsTold
 <2>5. OperationIsDue' BY <2>3 DEF OperationIsDue
 <2>6. HistoryIsTold' BY <1>0, <2>1 DEF HistoryIsTold
 <2>7. lifecycle' \in Seq(LifecycleRows) BY <1>0, <2>1, RecordedAdds DEF LifecycleRows
 <2>8. DrainedIsTold'
  <3>1. CASE operation.complete BY <2>1, <2>2, <3>1 DEF PageIsTold, DrainedIsTold
  <3>2. CASE ~operation.complete BY <1>0, <2>1, <3>2 DEF DrainedIsTold, Drained
  <3> QED BY <3>1, <3>2
 <2>9. history' \in [saved : BOOLEAN, cursor : Nat, complete : BOOLEAN] BY <1>0, <2>1
 <2> QED BY <2>1, <2>3, <2>4, <2>5, <2>6, <2>7, <2>8, <2>9, PageKeeps
<1>5. CASE SaveHistory
 <2>1. /\ operation.at = "save" /\ operation' = Free
       /\ history' = [saved |-> TRUE, cursor |-> operation.next, complete |-> operation.complete]
       /\ UNCHANGED <<job, worker, file, original, scheduler, cancelling, evidence, cancel, lifecycle, told>>
   BY <1>5 DEF SaveHistory, clusterVars
 <2>2. operation \in Pages /\ PageIsTold BY <2>1, OperationFacts DEF ObservationInv
 <2>4. /\ history' \in [saved : BOOLEAN, cursor : Nat, complete : BOOLEAN]
       /\ history'.cursor = operation.next /\ history'.complete = operation.complete BY <2>1, <2>2 DEF Pages
 <2>5. HistoryIsTold' BY <1>0, <2>1, <2>2, <2>4 DEF PageIsTold, HistoryIsTold
 <2>6. DrainedIsTold' BY <1>0, <2>1 DEF DrainedIsTold, Drained
 <2>7. operation' \in Turns /\ operation' \notin Pages /\ operation'.at = "free" BY <2>1, OperationFacts
 <2>8. PageIsTold' /\ OperationIsDue' BY <2>7 DEF PageIsTold, OperationIsDue
 <2>9. lifecycle' \in Seq(LifecycleRows) BY <1>0, <2>1
 <2> QED BY <2>1, <2>4, <2>5, <2>6, <2>7, <2>8, <2>9, PageKeeps
<1> QED BY <1>1, <1>2, <1>3, <1>4, <1>5 DEF Ingesting

\* A step of a cancellation: neither the evidence nor the history changes.
LEMMA CancelKeeps ==
    ASSUME ObservationInv,
           UNCHANGED <<job, worker, file, original, scheduler, evidence, history, lifecycle, told>>,
           cancelling' \in BOOLEAN, cancel' \in [saved : BOOLEAN, verified : BOOLEAN], CancelledIsSeen',
           operation' \in Turns, operation' \notin Pages, OperationIsDue'
    PROVE  ObservationInv'
<1>2. PageIsTold' BY DEF PageIsTold
<1>3. /\ history' \in [saved : BOOLEAN, cursor : Nat, complete : BOOLEAN] /\ lifecycle' \in Seq(LifecycleRows)
      /\ evidence' \in {Unread} \cup Phases /\ (evidence' = "Finished" => worker = "Finished")
  BY DEF ObservationInv, ObservationTypeOK, KnownIsReal
<1> QED BY <1>2, <1>3, ServerKeeps DEF ObservationInv, HistoryIsTold, DrainedIsTold, Drained

LEMMA CancellingStep == ASSUME ObservationInv, Cancelling PROVE ObservationInv'
<1>0. cancel \in [saved : BOOLEAN, verified : BOOLEAN] /\ cancelling \in BOOLEAN /\ CancelledIsSeen
  BY DEF ObservationInv, ObservationTypeOK
<1>1. CASE RequestCancel
 <2>1. /\ ~cancel.verified /\ cancel' = [cancel EXCEPT !.saved = TRUE] /\ operation' = [at |-> "cancel"]
       /\ UNCHANGED <<job, worker, file, original, scheduler, cancelling, evidence, history, lifecycle, told>>
   BY <1>1 DEF RequestCancel, clusterVars
 <2>2. cancel' \in [saved : BOOLEAN, verified : BOOLEAN] /\ cancel'.saved /\ ~cancel'.verified
   BY <1>0, <2>1
 <2>3. operation' \in Turns /\ operation' \notin Pages /\ operation'.at = "cancel" BY <2>1, Turning
 <2>5. cancelling' \in BOOLEAN BY <1>0, <2>1
 <2> QED BY <2>1, <2>2, <2>3, <2>5, CancelKeeps DEF CancelledIsSeen, OperationIsDue
<1>2. CASE CancelReaches
 <2>1. /\ operation.at = "cancel" /\ cancelling' = TRUE /\ operation' = [at |-> "cancelled"]
       /\ UNCHANGED <<job, worker, file, original, scheduler, cancel, evidence, history, lifecycle, told>>
   BY <1>2 DEF CancelReaches, slotVars
 <2>3. operation' \in Turns /\ operation' \notin Pages /\ operation'.at = "cancelled" BY <2>1, Turning
 <2>4. CancelledIsSeen' /\ OperationIsDue' BY <2>1, <2>3 DEF CancelledIsSeen, OperationIsDue, ObservationInv
 <2> QED BY <2>1, <2>3, <2>4, <1>0, CancelKeeps
<1>3. CASE CancelAnswered
 <2>1. /\ operation.at = "cancelled" /\ operation' = Free
       /\ cancel' \in {cancel} \cup {CancellationObserved(reading) : reading \in Readings}
       /\ UNCHANGED <<job, worker, file, original, scheduler, cancelling, evidence, history, lifecycle, told>>
   BY <1>3 DEF CancelAnswered, clusterVars
 <2>2. cancel.saved /\ ~cancel.verified BY <2>1 DEF ObservationInv, OperationIsDue
 <2>3. /\ cancel' \in [saved : BOOLEAN, verified : BOOLEAN] /\ cancel'.saved = cancel.saved
       /\ (cancel'.verified => job \in Ends)
  <3>1. CASE cancel' = cancel BY <1>0, <2>2, <3>1
  <3>2. CASE cancel' # cancel
   <4>1. PICK reading \in Readings : cancel' = CancellationObserved(reading) BY <2>1, <3>2
   <4> DEFINE over == reading.state \in Ends
   <4>2. ~reading.retained /\ cancel' = [cancel EXCEPT !.verified = over]
     BY <3>2, <4>1 DEF CancellationObserved
   <4>3. over \in BOOLEAN /\ (over => job \in Ends) BY <4>2, ReadingFacts DEF Ends
   <4> HIDE DEF over
   <4>4. cancel' = [saved |-> cancel.saved, verified |-> over] BY <1>0, <4>2
   <4> QED BY <1>0, <4>3, <4>4
  <3> QED BY <3>1, <3>2
 <2>4. operation' \in Turns /\ operation' \notin Pages /\ operation'.at = "free" BY <2>1, OperationFacts
 <2>5. CancelledIsSeen' BY <1>0, <2>1, <2>2, <2>3 DEF CancelledIsSeen
 <2>7. cancelling' \in BOOLEAN BY <1>0, <2>1
 <2> QED BY <2>1, <2>3, <2>4, <2>5, <2>7, CancelKeeps DEF OperationIsDue
<1> QED BY <1>1, <1>2, <1>3 DEF Cancelling

LEMMA ObservationStep == ASSUME ObservationInv, [ObservationNext]_observationVars PROVE ObservationInv'
<1>1. CASE UNCHANGED observationVars
 <2>1. UNCHANGED <<job, original, worker, file, cancelling, scheduler, evidence, history, cancel, lifecycle, told, operation>>
   BY <1>1 DEF observationVars
 <2>3. PageIsTold' /\ OperationIsDue' /\ DrainedIsTold' /\ CancelledIsSeen'
   BY <2>1 DEF ObservationInv, PageIsTold, OperationIsDue, DrainedIsTold, Drained, CancelledIsSeen
 <2> QED BY <2>1, <2>3 DEF ObservationInv, ObservationTypeOK, ClusterIsOrderly, KnownIsReal, HistoryIsTold
<1>2. CASE OperationStops
 <2>1. /\ operation' = Free
       /\ UNCHANGED <<job, worker, file, original, scheduler, cancelling, evidence, history, cancel, lifecycle, told>>
   BY <1>2 DEF OperationStops, clusterVars, slotVars
 <2>2. operation' \in Turns /\ operation' \notin Pages /\ operation'.at = "free" BY <2>1, OperationFacts
 <2>4. CancelledIsSeen' /\ cancelling' \in BOOLEAN /\ cancel' \in [saved : BOOLEAN, verified : BOOLEAN]
   BY <2>1 DEF ObservationInv, ObservationTypeOK, CancelledIsSeen
 <2> QED BY <2>1, <2>2, <2>4, CancelKeeps DEF OperationIsDue
<1> QED BY <1>1, <1>2, ClusterStep, SchedulerStep, RefreshingStep, IngestingStep, CancellingStep DEF ObservationNext

LEMMA ObservationStarts == ObservationInit => ObservationInv
<1> SUFFICES ASSUME ObservationInit PROVE ObservationInv OBVIOUS
<1>1. operation \in Turns /\ operation \notin Pages /\ operation.at = "free" BY Turning DEF ObservationInit, Free
<1>3. ObservationTypeOK
 <2>1. /\ job \in JobStates /\ original \in {"QUEUED", "RUNNING"} /\ worker \in Phases /\ file \in Nat
       /\ cancelling \in BOOLEAN /\ scheduler \in {Unread} \cup JobStates /\ evidence \in {Unread} \cup Phases
   BY DEF ObservationInit, JobStates, Phases
 <2>3. cancel \in [saved : BOOLEAN, verified : BOOLEAN] BY DEF ObservationInit, NoCancellation
 <2>4. lifecycle \in Seq(LifecycleRows) BY DEF ObservationInit
 <2> QED BY <1>1, <2>1, <2>3, <2>4 DEF ObservationTypeOK, ObservationInit
<1>4. ClusterIsOrderly /\ KnownIsReal /\ PageIsTold /\ OperationIsDue /\ CancelledIsSeen
  BY <1>1 DEF ObservationInit, ClusterIsOrderly, KnownIsReal, PageIsTold, OperationIsDue, CancelledIsSeen,
           NoCancellation, Unread, Ends
<1>5. HistoryIsTold /\ DrainedIsTold BY DEF ObservationInit, HistoryIsTold, DrainedIsTold, Drained, ToSet
<1> QED BY <1>3, <1>4, <1>5 DEF ObservationInv

------------
(* What the server keeps of a job is so: an observation retires only when
   nothing is left to learn, METRICS_DRAINED is told after the last line
   of metrics.jsonl, and a cancellation is verified only for a job that
   was seen to have ended, and sent only after its intent was saved. *)
THEOREM WhatIsKeptIsTrue == ObservationSpec => []ObservationIsTrue
<1>1. ObservationInv => ObservationIsTrue
 <2> SUFFICES ASSUME ObservationInv PROVE ObservationIsTrue OBVIOUS
 <2>1. DrainedAfterLastLine
  <3> QED BY DEF ObservationInv, HistoryIsTold, DrainedAfterLastLine, Drained, DrainedIsTold
 <2>2. RetiredIsOver
  <3> SUFFICES ASSUME MayRetire
               PROVE job \in Ends /\ worker = "Finished" /\ told = 1..file /\ Drained
    BY DEF RetiredIsOver, Drained
  <3>1. Drained BY LatestIsThere DEF MayRetire, ObservationInv, ObservationTypeOK
  <3> QED BY <2>1, <3>1 DEF MayRetire, ObservationInv, KnownIsReal, DrainedAfterLastLine, Drained
 <2> QED BY <2>1, <2>2 DEF ObservationIsTrue, ObservationInv
<1> QED BY <1>1, ObservationStarts, ObservationStep, PTL DEF ObservationSpec

(* The kept state of the scheduler never leaves an end, finished evidence
   stays, the cursor of the history only moves forward and a verified
   cancellation stays so: scheduler_follows, follows, ingest_history and
   cancel, whatever is read and wherever an operation stops. *)
THEOREM NothingLearnedIsLost == ObservationSpec => SchedulerMovesOn
<1>1. ASSUME ObservationInv, ObservationNext
      PROVE  /\ scheduler \in Ends => scheduler' = scheduler
             /\ evidence = "Finished" => evidence' = evidence
             /\ history.cursor <= history'.cursor
             /\ cancel.verified => cancel'.verified
 <2>0. history.cursor \in Nat /\ history.cursor <= history.cursor BY <1>1 DEF ObservationInv, ObservationTypeOK
 <2>1. CASE ClusterNext
  <3>1. UNCHANGED <<scheduler, evidence, history, cancel>>
    BY <2>1 DEF ClusterNext, JobStarts, JobRequeued, WorkerStarts, WorkerWrites, WorkerFinishes, JobEnds,
                JobCancelled, Cluster, slotVars
  <3> QED BY <2>0, <3>1
 <2>2. CASE RefreshScheduler
  <3>2. PICK reading \in Readings :
          /\ SchedulerFollows(IF scheduler = Unread THEN original ELSE scheduler, reading)
          /\ scheduler' = reading.state
    BY <2>2 DEF RefreshScheduler
  <3>3. scheduler \in Ends => scheduler # Unread BY DEF Ends, Unread
  <3> QED BY <2>0, <2>2, <3>2, <3>3 DEF SchedulerFollows, RefreshScheduler
 <2>3. CASE Refreshing
  <3>1. UNCHANGED <<scheduler, history, cancel>>
    BY <2>3 DEF Refreshing, RefreshWorker, JournalLifecycle, JournalTrainingEnd, slotVars
  <3>2. evidence = "Finished" => evidence' = evidence
   <4>1. CASE RefreshWorker
    <5>1. PICK phase \in Seen : EvidenceFollows(phase) /\ evidence' = phase BY <4>1 DEF RefreshWorker
    <5> QED BY <5>1 DEF EvidenceFollows, Seen, Rank
   <4>2. CASE JournalLifecycle \/ JournalTrainingEnd
     BY <4>2 DEF JournalLifecycle, JournalTrainingEnd, slotVars
   <4> QED BY <2>3, <4>1, <4>2 DEF Refreshing
  <3> QED BY <2>0, <3>1, <3>2
 <2>4. CASE Ingesting
  <3>1. UNCHANGED <<scheduler, evidence, cancel>>
    BY <2>4 DEF Ingesting, IngestHistory, HistoryAgain, AppendImport, EndOfHistory, SaveHistory, slotVars
  <3>2. CASE SaveHistory
   <4>1. operation.at = "save" /\ history'.cursor = operation.next BY <3>2 DEF SaveHistory
   <4>2. operation \in Pages /\ PageIsTold BY <1>1, <4>1, OperationFacts DEF ObservationInv
   <4> QED BY <2>0, <3>1, <4>1, <4>2 DEF PageIsTold, Pages
  <3>3. CASE UNCHANGED history BY <2>0, <3>1, <3>3
  <3> QED BY <2>4, <3>2, <3>3 DEF Ingesting, IngestHistory, HistoryAgain, AppendImport, EndOfHistory, slotVars
 <2>5. CASE Cancelling
  <3>1. UNCHANGED <<scheduler, evidence, history>>
    BY <2>5 DEF Cancelling, RequestCancel, CancelReaches, CancelAnswered, slotVars
  <3>2. cancel.verified => UNCHANGED cancel
   <4>1. operation.at \in {"cancel", "cancelled"} => ~cancel.verified
     BY <1>1 DEF ObservationInv, OperationIsDue
   <4> QED BY <2>5, <4>1 DEF Cancelling, RequestCancel, CancelReaches, CancelAnswered, slotVars
  <3> QED BY <2>0, <3>1, <3>2
 <2>6. CASE OperationStops
  <3> QED BY <2>0, <2>6 DEF OperationStops, slotVars
 <2> QED BY <1>1, <2>1, <2>2, <2>3, <2>4, <2>5, <2>6 DEF ObservationNext
<1>2. ObservationInv /\ [ObservationNext]_observationVars
        => [/\ scheduler \in Ends => scheduler' = scheduler
            /\ evidence = "Finished" => evidence' = evidence
            /\ history.cursor <= history'.cursor
            /\ cancel.verified => cancel'.verified]_observationVars
  BY <1>1
<1> QED BY <1>2, ObservationStarts, ObservationStep, PTL DEF ObservationSpec, SchedulerMovesOn

------------
(* The MLflow publisher.  Its invariant says of a saved state, and of the
   state of a visit, what the run it names has; a request leaves starts as
   they are and only adds points (Grown).  The journal is any journal, at
   every step: only its length and the provider's word are read. *)
\* The journal may become anything meanwhile.
AnyJournal == Total \in Nat /\ providerEnded \in BOOLEAN
JournalMoves == AnyJournal' /\ UNCHANGED mlflowVars
MlStep == (MlNext /\ UNCHANGED journalVars) \/ JournalMoves
MlSpec == AnyJournal /\ MlInit /\ [][MlStep]_<<journalVars, mlflowVars>>

MlStatuses == {"pending", "SYNCED", "ACK_PENDING", "STOPPED", "FINISHED"}
MlPlaces == {"experiment", "run", "params", "batch", "logged", "finished"}
MlStates == [status : MlStatuses, confirmed : Nat, experiment : BOOLEAN, run : Nat, base : Nat,
             params : BOOLEAN, finished : BOOLEAN]
MlVisits == [at : MlPlaces, total : Nat, ended : BOOLEAN, state : MlStates]
RunsOnMlflow == [start : Nat, points : SUBSET (Nat \X Nat), params : BOOLEAN,
                 status : {"RUNNING", "FINISHED", "FAILED"}, gone : BOOLEAN]

\* What a state says of the run it names.
Stands(s, runs) ==
    /\ s.run <= Len(runs)
    /\ s.run = 0 => s.confirmed = 0
    /\ s.run # 0 => /\ s.base = runs[s.run].start
                    /\ \A k \in 1..s.confirmed : <<k, s.base + k>> \in runs[s.run].points

Succeeds(v, s, runs) ==
    \/ v = MlResting
    \/ /\ v \in MlVisits
       /\ v.state.run = s.run /\ Stands(v.state, runs)
       /\ v.at \notin {"experiment", "run"} => v.state.run # 0

PointsAreNamed(runs) ==
    \A r \in 1..Len(runs) : \A p \in runs[r].points : p = <<p[1], runs[r].start + p[1]>>
OneLives(runs) == \A m, n \in 1..Len(runs) : ~runs[m].gone /\ ~runs[n].gone => m = n
KnownIsLast(s, runs) == s.run # 0 => \A n \in 1..Len(runs) : n > s.run => runs[n].gone

MlTypeOK == mlSaved \in MlStates /\ mlRuns \in Seq(RunsOnMlflow) /\ mlClock \in Nat /\ AnyJournal
MlInv ==
    /\ MlTypeOK
    /\ Stands(mlSaved, mlRuns) /\ Succeeds(mlVisit, mlSaved, mlRuns)
    /\ PointsAreNamed(mlRuns) /\ OneLives(mlRuns) /\ KnownIsLast(mlSaved, mlRuns)

------------
\* Two states name the same records of the same run.
PointNames(u, n, b, c) == u \in MlStates /\ u.run = n /\ u.base = b /\ u.confirmed = c
Alike(u, s) == PointNames(u, s.run, s.base, s.confirmed)

LEMMA AlikeStands ==
    ASSUME NEW s, NEW u, NEW runs, Stands(s, runs), Alike(u, s)
    PROVE  Stands(u, runs)
  BY DEF Stands, Alike, PointNames

LEMMA StatusOfState ==
    ASSUME NEW s \in MlStates, NEW t \in MlStatuses PROVE PointNames([s EXCEPT !.status = t], s.run, s.base, s.confirmed)
  BY DEF MlStates, PointNames
LEMMA RunOfState ==
    ASSUME NEW s \in MlStates, NEW n \in Nat PROVE PointNames([s EXCEPT !.run = n], n, s.base, s.confirmed)
  BY DEF MlStates, PointNames
LEMMA BaseOfState ==
    ASSUME NEW s \in MlStates, NEW b \in Nat PROVE PointNames([s EXCEPT !.base = b], s.run, b, s.confirmed)
  BY DEF MlStates, PointNames
LEMMA ConfirmedOfState ==
    ASSUME NEW s \in MlStates, NEW c \in Nat PROVE PointNames([s EXCEPT !.confirmed = c], s.run, s.base, c)
  BY DEF MlStates, PointNames
LEMMA ExperimentOfState ==
    ASSUME NEW s \in MlStates PROVE PointNames([s EXCEPT !.experiment = TRUE], s.run, s.base, s.confirmed)
  BY DEF MlStates, PointNames
LEMMA ParamsOfState ==
    ASSUME NEW s \in MlStates PROVE PointNames([s EXCEPT !.params = TRUE], s.run, s.base, s.confirmed)
  BY DEF MlStates, PointNames
LEMMA FinishedOfState ==
    ASSUME NEW s \in MlStates PROVE PointNames([s EXCEPT !.finished = TRUE], s.run, s.base, s.confirmed)
  BY DEF MlStates, PointNames

LEMMA StateFields ==
    \A s \in MlStates : s.status \in MlStatuses /\ s.confirmed \in Nat /\ s.run \in Nat /\ s.base \in Nat
  BY DEF MlStates

\* A state that names a run for the first time.
LEMMA StateNames ==
    ASSUME NEW s \in MlStates, NEW n \in Nat, NEW b \in Nat
    PROVE  PointNames([s EXCEPT !.run = n, !.base = b, !.status = "ACK_PENDING"], n, b, s.confirmed)
<1> DEFINE d == [s EXCEPT !.run = n]
           e == [d EXCEPT !.base = b]
           u == [e EXCEPT !.status = "ACK_PENDING"]
<1>1. PointNames(d, n, s.base, s.confirmed) BY RunOfState
<1>2. u = [s EXCEPT !.run = n, !.base = b, !.status = "ACK_PENDING"] BY Zenon
<1> HIDE DEF d
<1>3. PointNames(e, d.run, b, d.confirmed) BY <1>1, BaseOfState DEF PointNames
<1> HIDE DEF e
<1>5. PointNames(u, e.run, e.base, e.confirmed) BY <1>3, StatusOfState DEF PointNames, MlStatuses
<1> HIDE DEF u
<1>6. PointNames(u, n, b, s.confirmed) BY <1>1, <1>3, <1>5 DEF PointNames
<1> QED BY <1>2, <1>6, Zenon

\* Where the visit goes, with another state.
VisitIs(v, a, s) == v \in MlVisits /\ v.at = a /\ v.state = s

LEMMA VisitGoes ==
    ASSUME NEW v \in MlVisits, NEW a \in MlPlaces
    PROVE  VisitIs([v EXCEPT !.at = a], a, v.state)
  BY DEF MlVisits, VisitIs

LEMMA VisitTurns ==
    ASSUME NEW v \in MlVisits, NEW s \in MlStates
    PROVE  VisitIs([v EXCEPT !.state = s], v.at, s)
  BY DEF MlVisits, VisitIs

LEMMA RestIsNoVisit == MlResting \notin MlVisits /\ MlResting.at = "rest" /\ \A v \in MlVisits : v.at # "rest"
  BY DEF MlResting, MlVisits, MlPlaces

LEMMA VisitSaves ==
    ASSUME NEW v \in MlVisits, NEW a \in MlPlaces, NEW s \in MlStates
    PROVE  VisitIs([[v EXCEPT !.at = a] EXCEPT !.state = s], a, s)
<1> DEFINE w == [v EXCEPT !.at = a]
<1>1. VisitIs(w, a, v.state) BY VisitGoes
<1> HIDE DEF w
<1>3. w.at = a BY <1>1 DEF VisitIs
<1>4. VisitIs([w EXCEPT !.state = s], a, s) BY <1>1, VisitTurns, <1>3 DEF VisitIs
<1> QED BY <1>4, Zenon DEF w

\* A visit that follows, wherever it is.
LEMMA VisitFollows ==
    ASSUME NEW w, NEW a \in MlPlaces, NEW u \in MlStates, VisitIs(w, a, u), NEW s, NEW runs,
           Stands(u, runs), u.run = s.run, a \in {"experiment", "run"} \/ u.run # 0
    PROVE  Succeeds(w, s, runs)
  BY DEF VisitIs, Succeeds

\* The runs of the server keep their starts and their points.
Grown(runs, after) ==
    /\ Len(runs) <= Len(after)
    /\ \A r \in 1..Len(runs) : after[r].start = runs[r].start /\ runs[r].points \subseteq after[r].points

LEMMA GrownStands ==
    ASSUME NEW s \in MlStates, NEW runs \in Seq(RunsOnMlflow), NEW after \in Seq(RunsOnMlflow),
           Stands(s, runs), Grown(runs, after)
    PROVE  Stands(s, after)
<1>1. s.run \in Nat /\ Len(runs) \in Nat /\ Len(after) \in Nat BY StateFields
<1>3. s.run <= Len(after) BY <1>1 DEF Stands, Grown
<1>4. s.run # 0 => after[s.run].start = runs[s.run].start /\ runs[s.run].points \subseteq after[s.run].points
  BY <1>1 DEF Grown, Stands
<1>5. s.run # 0 => s.base = after[s.run].start BY <1>4 DEF Stands
<1>6. s.run # 0 => \A k \in 1..s.confirmed : <<k, s.base + k>> \in after[s.run].points
 <2> SUFFICES ASSUME s.run # 0, NEW k \in 1..s.confirmed PROVE <<k, s.base + k>> \in after[s.run].points
   OBVIOUS
 <2>1. <<k, s.base + k>> \in runs[s.run].points BY DEF Stands
 <2> QED BY <2>1, <1>4, Zenon
<1>7. s.run = 0 => s.confirmed = 0 BY DEF Stands
<1> QED BY <1>3, <1>5, <1>6, <1>7, Zenon DEF Stands

LEMMA GrownFollows ==
    ASSUME NEW v, NEW s, NEW runs \in Seq(RunsOnMlflow), NEW after \in Seq(RunsOnMlflow),
           Succeeds(v, s, runs), Grown(runs, after)
    PROVE  Succeeds(v, s, after)
<1>1. CASE v = MlResting BY <1>1 DEF Succeeds
<1>2. CASE v \in MlVisits
 <2>2. v # MlResting BY <1>2, RestIsNoVisit
 <2>3. Stands(v.state, after) BY <1>2, <2>2, GrownStands DEF Succeeds, MlVisits
 <2> QED BY <2>3 DEF Succeeds
<1> QED BY <1>1, <1>2 DEF Succeeds

\* A run of the server after a request.
RunIs(q, b, ps, g) == q \in RunsOnMlflow /\ q.start = b /\ q.points = ps /\ q.gone = g

LEMMA ParamsOfRun ==
    ASSUME NEW q \in RunsOnMlflow PROVE RunIs([q EXCEPT !.params = TRUE], q.start, q.points, q.gone)
  BY DEF RunsOnMlflow, RunIs
LEMMA StatusOfRun ==
    ASSUME NEW q \in RunsOnMlflow, NEW t \in {"RUNNING", "FINISHED", "FAILED"}
    PROVE  RunIs([q EXCEPT !.status = t], q.start, q.points, q.gone)
  BY DEF RunsOnMlflow, RunIs
LEMMA GoneOfRun ==
    ASSUME NEW q \in RunsOnMlflow PROVE RunIs([q EXCEPT !.gone = TRUE], q.start, q.points, TRUE)
  BY DEF RunsOnMlflow, RunIs
LEMMA PointsOfRun ==
    ASSUME NEW q \in RunsOnMlflow, NEW ps \in SUBSET (Nat \X Nat)
    PROVE  RunIs([q EXCEPT !.points = ps], q.start, ps, q.gone)
  BY DEF RunsOnMlflow, RunIs
LEMMA RunFields ==
    \A q \in RunsOnMlflow : q.start \in Nat /\ q.points \in SUBSET (Nat \X Nat) /\ q.gone \in BOOLEAN
  BY DEF RunsOnMlflow

\* What holds of the runs of the server.
RunsAreSound(runs) == runs \in Seq(RunsOnMlflow) /\ PointsAreNamed(runs) /\ OneLives(runs)
Named(b, ps) == \A p \in ps : p = <<p[1], b + p[1]>>

Touched(runs, n, ps, after) ==
    /\ RunsAreSound(after) /\ Grown(runs, after)
    /\ \A s : KnownIsLast(s, runs) => KnownIsLast(s, after)
    /\ Len(after) = Len(runs) /\ after[n].points = ps
LEMMA RunTouched ==
    ASSUME NEW runs, RunsAreSound(runs), NEW n \in 1..Len(runs), NEW q, NEW ps,
           RunIs(q, runs[n].start, ps, q.gone), runs[n].points \subseteq ps, Named(runs[n].start, ps),
           runs[n].gone => q.gone, NEW after, after = [runs EXCEPT ![n] = q]
    PROVE  Touched(runs, n, ps, after)
<1>1. runs \in Seq(RunsOnMlflow) /\ q \in RunsOnMlflow /\ q.start = runs[n].start /\ q.points = ps
  BY DEF RunsAreSound, RunIs
<1>2. after \in Seq(RunsOnMlflow) /\ Len(after) = Len(runs) /\ after[n] = q
      /\ \A m \in 1..Len(runs) : m # n => after[m] = runs[m]
  BY <1>1
<1>3. Grown(runs, after)
 <2> SUFFICES ASSUME NEW r \in 1..Len(runs)
              PROVE  after[r].start = runs[r].start /\ runs[r].points \subseteq after[r].points
   BY <1>1, <1>2 DEF Grown
 <2>1. CASE r = n BY <2>1, <1>1, <1>2
 <2>2. CASE r # n BY <2>2, <1>2
 <2> QED BY <2>1, <2>2
<1>4. PointsAreNamed(after)
 <2> SUFFICES ASSUME NEW r \in 1..Len(runs) PROVE Named(after[r].start, after[r].points)
   BY <1>2 DEF PointsAreNamed, Named
 <2>1. CASE r = n BY <2>1, <1>1, <1>2
 <2>2. CASE r # n BY <2>2, <1>2 DEF RunsAreSound, PointsAreNamed, Named
 <2> QED BY <2>1, <2>2
<1>5. \A m \in 1..Len(runs) : runs[m].gone => after[m].gone
 <2> SUFFICES ASSUME NEW m \in 1..Len(runs), runs[m].gone PROVE after[m].gone OBVIOUS
 <2>1. CASE m = n BY <2>1, <1>1, <1>2, Zenon
 <2>2. CASE m # n BY <2>2, <1>2, Zenon
 <2> QED BY <2>1, <2>2
<1>6. OneLives(after) BY <1>2, <1>5, Zenon DEF RunsAreSound, OneLives
<1>7. \A s : KnownIsLast(s, runs) => KnownIsLast(s, after) BY <1>2, <1>5, Zenon DEF KnownIsLast
<1>8. after[n].points = ps BY <1>1, <1>2
<1> QED BY <1>2, <1>3, <1>4, <1>6, <1>7, <1>8, Zenon DEF RunsAreSound, Touched

\* A run is created when no other lives.
LEMMA RunCreated ==
    ASSUME NEW runs, RunsAreSound(runs), \A n \in 1..Len(runs) : runs[n].gone, NEW q, NEW b,
           RunIs(q, b, {}, FALSE)
    PROVE  /\ RunsAreSound(Append(runs, q)) /\ Grown(runs, Append(runs, q))
           /\ Len(Append(runs, q)) = Len(runs) + 1 /\ Append(runs, q)[Len(runs) + 1].start = b
<1> DEFINE after == Append(runs, q)
<1>1. runs \in Seq(RunsOnMlflow) /\ q \in RunsOnMlflow /\ q.start = b /\ q.points = {} /\ q.gone = FALSE
  BY DEF RunsAreSound, RunIs
<1>2. after \in Seq(RunsOnMlflow) /\ Len(after) = Len(runs) + 1 /\ after[Len(runs) + 1] = q
      /\ Len(runs) \in Nat /\ \A m \in 1..Len(runs) : after[m] = runs[m]
  BY <1>1
<1>3. \A r \in 1..Len(after) : r \in 1..Len(runs) \/ r = Len(runs) + 1 BY <1>2
<1> HIDE DEF after
<1>4. Grown(runs, after) BY <1>2 DEF Grown
<1>5. PointsAreNamed(after)
 <2> SUFFICES ASSUME NEW r \in 1..Len(after) PROVE Named(after[r].start, after[r].points)
   BY DEF PointsAreNamed, Named
 <2>1. CASE r = Len(runs) + 1 BY <2>1, <1>1, <1>2 DEF Named
 <2>2. CASE r \in 1..Len(runs) BY <2>2, <1>2 DEF RunsAreSound, PointsAreNamed, Named
 <2> QED BY <2>1, <2>2, <1>3
<1>6. OneLives(after)
 <2> SUFFICES ASSUME NEW m \in 1..Len(after), NEW n \in 1..Len(after), ~after[m].gone, ~after[n].gone
              PROVE  m = n
   BY DEF OneLives
 <2>1. m \notin 1..Len(runs) /\ n \notin 1..Len(runs) BY <1>2, Zenon
 <2> QED BY <2>1, <1>3
<1>7. after[Len(runs) + 1].start = b BY <1>1, <1>2
<1> QED BY <1>2, <1>4, <1>5, <1>6, <1>7, Zenon DEF RunsAreSound, after

------------
LEMMA SavedVisit ==
    ASSUME NEW v \in MlVisits, NEW u \in MlStates, NEW place \in MlPlaces \cup {"rest"}, NEW runs,
           Stands(u, runs), place \in {"experiment", "run", "rest"} \/ u.run # 0
    PROVE  Succeeds(IF place = "rest" THEN MlResting ELSE [[v EXCEPT !.at = place] EXCEPT !.state = u],
                   u, runs)
<1>1. CASE place = "rest" BY <1>1 DEF Succeeds
<1>2. CASE place # "rest"
 <2> DEFINE w == [[v EXCEPT !.at = place] EXCEPT !.state = u]
 <2>1. place \in MlPlaces BY <1>2
 <2>2. VisitIs(w, place, u) BY <2>1, VisitSaves
 <2> HIDE DEF w
 <2>3. Succeeds(w, u, runs) BY <1>2, <2>1, <2>2, VisitFollows
 <2> QED BY <1>2, <2>3 DEF w
<1> QED BY <1>1, <1>2

LEMMA StepKeeps ==
    ASSUME AnyJournal', mlClock' \in Nat, mlSaved' \in MlStates, RunsAreSound(mlRuns'), Stands(mlSaved', mlRuns'),
           Succeeds(mlVisit', mlSaved', mlRuns'), KnownIsLast(mlSaved', mlRuns')
    PROVE  MlInv'
  BY DEF MlInv, MlTypeOK, RunsAreSound

LEMMA InvRuns ==
    ASSUME MlInv
    PROVE  /\ RunsAreSound(mlRuns) /\ mlSaved \in MlStates /\ Stands(mlSaved, mlRuns)
           /\ Succeeds(mlVisit, mlSaved, mlRuns) /\ KnownIsLast(mlSaved, mlRuns) /\ mlClock \in Nat /\ AnyJournal
  BY DEF MlInv, MlTypeOK, RunsAreSound

\* A visit that is somewhere.
LEMMA VisitIsSome ==
    ASSUME MlInv, mlVisit.at # "rest"
    PROVE  /\ mlVisit \in MlVisits /\ mlVisit.state \in MlStates /\ mlVisit.state.run = mlSaved.run
           /\ Stands(mlVisit.state, mlRuns)
           /\ mlVisit.at \notin {"experiment", "run"} => mlVisit.state.run \in 1..Len(mlRuns)
<1>2. /\ mlVisit \in MlVisits /\ mlVisit.state.run = mlSaved.run /\ Stands(mlVisit.state, mlRuns)
      /\ mlVisit.at \notin {"experiment", "run"} => mlVisit.state.run # 0 BY RestIsNoVisit DEF MlInv, Succeeds
<1>3. mlVisit.state \in MlStates BY <1>2 DEF MlVisits
<1> QED BY <1>2, <1>3, StateFields DEF Stands, MlInv, MlTypeOK

\* The run of the visit is the one that is known.
LEMMA KnownStaysLast ==
    ASSUME NEW s, NEW u, NEW runs, u.run = s.run, KnownIsLast(s, runs)
    PROVE  KnownIsLast(u, runs)
  BY DEF KnownIsLast

\* The server is not asked, and the state that is saved says of it what the visit's did.
LEMMA SaveAlone ==
    ASSUME MlInv, AnyJournal', UNCHANGED <<mlRuns, mlClock>>, mlSaved' \in MlStates,
           mlSaved'.run = mlSaved.run, Stands(mlSaved', mlRuns), Succeeds(mlVisit', mlSaved', mlRuns)
    PROVE  MlInv'
  BY InvRuns, KnownStaysLast, StepKeeps

LEMMA VisitScopeKeeps ==
    ASSUME MlInv, MlVisitScope, UNCHANGED journalVars PROVE MlInv'
<1>0. AnyJournal' BY InvRuns DEF AnyJournal, Total, journalVars
<1>1. UNCHANGED <<mlRuns, mlClock>> /\ mlVisit = MlResting BY DEF MlVisitScope, MlServer
<1> DEFINE v == [at |-> "experiment", total |-> Total, ended |-> providerEnded, state |-> mlSaved]
<1>3. CASE mlSaved' = [mlSaved EXCEPT !.status = "SYNCED"] /\ mlVisit' = mlVisit
 <2>1. Alike(mlSaved', mlSaved) BY <1>3, InvRuns, StatusOfState DEF Alike, MlStatuses
 <2>2. Stands(mlSaved', mlRuns) BY <2>1, InvRuns, AlikeStands
 <2>3. Succeeds(mlVisit', mlSaved', mlRuns) BY <1>1, <1>3 DEF Succeeds
 <2> QED BY <1>0, <1>1, <2>1, <2>2, <2>3, SaveAlone DEF Alike, PointNames
<1>4. CASE mlVisit' = v /\ mlSaved' = mlSaved
 <2>1. "experiment" \in MlPlaces BY DEF MlPlaces
 <2>2. VisitIs(v, "experiment", mlSaved) BY <2>1, InvRuns DEF VisitIs, MlVisits, AnyJournal
 <2> HIDE DEF v
 <2>3. Succeeds(mlVisit', mlSaved', mlRuns) BY <1>4, <2>1, <2>2, InvRuns, VisitFollows
 <2> QED BY <1>0, <1>1, <1>4, <2>3, InvRuns, SaveAlone
<1> QED BY <1>3, <1>4 DEF MlVisitScope

LEMMA EnsureExperimentKeeps ==
    ASSUME MlInv, MlEnsureExperiment, UNCHANGED journalVars PROVE MlInv'
<1>0. AnyJournal' BY InvRuns DEF AnyJournal, Total, journalVars
<1>1. UNCHANGED <<mlRuns, mlClock, mlSaved>> /\ mlVisit.at = "experiment" BY DEF MlEnsureExperiment
<1> DEFINE u == [mlVisit.state EXCEPT !.experiment = TRUE]
           w == [mlVisit EXCEPT !.at = "run"]
<1>2. mlVisit' = MlResting \/ mlVisit' = w \/ mlVisit' = [w EXCEPT !.state.experiment = TRUE]
  BY DEF MlEnsureExperiment, At
<1>3. mlVisit \in MlVisits /\ mlVisit.state \in MlStates /\ mlVisit.state.run = mlSaved.run
      /\ Stands(mlVisit.state, mlRuns)
  BY <1>1, VisitIsSome
<1>4. "run" \in MlPlaces BY DEF MlPlaces
<1>5. VisitIs(w, "run", mlVisit.state) BY <1>3, <1>4, VisitGoes
<1>6. Alike(u, mlVisit.state) BY <1>3, ExperimentOfState DEF Alike
<1>7. [w EXCEPT !.state.experiment = TRUE] = [w EXCEPT !.state = [w.state EXCEPT !.experiment = TRUE]]
  BY Zenon
<1>8. VisitIs([w EXCEPT !.state = u], "run", u) BY <1>3, <1>4, <1>6, VisitSaves, Zenon DEF Alike, PointNames
<1>9. w.state = mlVisit.state BY <1>5 DEF VisitIs
<1>10. Stands(u, mlRuns) /\ u.run = mlSaved.run /\ u \in MlStates
  BY <1>3, <1>6, AlikeStands DEF Alike, PointNames
<1> HIDE DEF w
<1>12. CASE mlVisit' = w
 <2>1. Succeeds(w, mlSaved, mlRuns) BY <1>3, <1>4, <1>5, VisitFollows
 <2> QED BY <1>0, <1>1, <1>12, <2>1, InvRuns, SaveAlone
<1>13. CASE mlVisit' = [w EXCEPT !.state.experiment = TRUE]
 <2> DEFINE z == [w EXCEPT !.state = u]
 <2>1. mlVisit' = z BY <1>7, <1>9, <1>13, Zenon
 <2> HIDE DEF z, u
 <2>3. Succeeds(z, mlSaved, mlRuns) BY <1>4, <1>10, <1>8, VisitFollows DEF z
 <2> QED BY <1>0, <1>1, <2>1, <2>3, InvRuns, SaveAlone
<1>14. CASE mlVisit' = MlResting
 <2> QED BY <1>0, <1>1, <1>14, InvRuns, SaveAlone DEF Succeeds
<1> QED BY <1>2, <1>12, <1>13, <1>14

NewRun == [start |-> mlClock, points |-> {}, params |-> FALSE, status |-> "RUNNING", gone |-> FALSE]

LEMMA NewRunIs == ASSUME mlClock \in Nat PROVE RunIs(NewRun, mlClock, {}, FALSE)
  BY DEF NewRun, RunIs, RunsOnMlflow

\* The run of the Attempt is the one that lives, if one does.
LEMMA FoundRunLives ==
    ASSUME MlInv
    PROVE  /\ FoundRun # 0 => FoundRun \in 1..Len(mlRuns) /\ ~mlRuns[FoundRun].gone
           /\ FoundRun = 0 => \A n \in 1..Len(mlRuns) : mlRuns[n].gone
<1>1. DOMAIN mlRuns = 1..Len(mlRuns) /\ \A n \in 1..Len(mlRuns) : n # 0 BY DEF MlInv, MlTypeOK
<1>2. CASE Living = {} BY <1>1, <1>2 DEF FoundRun, Living
<1>3. CASE Living # {}
 <2> QED BY <1>1, <1>3 DEF Living, FoundRun
<1> QED BY <1>2, <1>3

LEMMA FindRunKeeps ==
    ASSUME MlInv, MlFindRun, UNCHANGED journalVars PROVE MlInv'
<1>0. AnyJournal' BY InvRuns DEF AnyJournal, Total, journalVars
<1>1. mlVisit.at = "run" /\ mlClock' = mlClock + 1 /\ mlClock \in Nat /\ mlClock' \in Nat
  BY InvRuns DEF MlFindRun
<1>2. mlVisit \in MlVisits /\ mlVisit.state \in MlStates /\ mlVisit.state.run = mlSaved.run
      /\ Stands(mlVisit.state, mlRuns)
  BY <1>1, VisitIsSome
<1>3. "params" \in MlPlaces BY DEF MlPlaces
<1>4. CASE mlVisit.state.run # 0
 <2> DEFINE w == [mlVisit EXCEPT !.at = "params"]
 <2>1. mlVisit' = w /\ UNCHANGED <<mlSaved, mlRuns>> BY <1>4 DEF MlFindRun, At
 <2>2. VisitIs(w, "params", mlVisit.state) BY <1>2, <1>3, VisitGoes
 <2> HIDE DEF w
 <2>3. Succeeds(w, mlSaved, mlRuns) BY <1>2, <1>3, <1>4, <2>2, VisitFollows
 <2> QED BY <1>0, <1>1, <2>1, <2>3, InvRuns, StepKeeps
<1>5. CASE mlVisit.state.run = 0
 <2> DEFINE n == IF FoundRun # 0 THEN FoundRun ELSE Len(mlRuns) + 1
            b == mlRuns'[n].start
            u == [mlVisit.state EXCEPT !.run = n, !.base = b, !.status = "ACK_PENDING"]
 <2>1. /\ mlRuns' = IF FoundRun # 0 THEN mlRuns ELSE Append(mlRuns, NewRun)
       /\ Save(u, "params")
   BY <1>5 DEF MlFindRun, StartOf, NewRun
 <2>2. /\ RunsAreSound(mlRuns') /\ n \in 1..Len(mlRuns')
       /\ \A m \in 1..Len(mlRuns') : m > n => mlRuns'[m].gone
  <3>0. RunsAreSound(mlRuns) /\ Len(mlRuns) \in Nat BY InvRuns DEF RunsAreSound
  <3>1. CASE FoundRun # 0
   <4>1. mlRuns' = mlRuns /\ n = FoundRun BY <2>1, <3>1
   <4>2. n \in 1..Len(mlRuns) /\ ~mlRuns[n].gone BY <3>1, <4>1, FoundRunLives
   <4> HIDE DEF n, u
   <4> QED BY <3>0, <4>1, <4>2 DEF RunsAreSound, OneLives
  <3>2. CASE FoundRun = 0
   <4>1. mlRuns' = Append(mlRuns, NewRun) /\ n = Len(mlRuns) + 1 BY <2>1, <3>2
   <4>3. RunsAreSound(mlRuns') /\ Len(mlRuns') = Len(mlRuns) + 1
     BY <3>0, <3>2, <4>1, <1>1, NewRunIs, RunCreated, FoundRunLives
   <4> HIDE DEF n, u
   <4> QED BY <3>0, <4>1, <4>3
  <3> QED BY <3>1, <3>2
 <2>4. n \in Nat /\ b \in Nat /\ n # 0
  <3> HIDE DEF n
  <3> QED BY <2>2, RunFields DEF RunsAreSound
 <2> HIDE DEF n, b
 <2>6. mlVisit.state.confirmed = 0 BY <1>2, <1>5 DEF Stands
 <2>7. PointNames(u, n, b, 0) BY <1>2, <2>4, StateNames, <2>6
 <2> HIDE DEF u
 <2>8. Stands(u, mlRuns')
  <3>2. n <= Len(mlRuns') BY <2>2
  <3> QED BY <2>4, <2>7, <3>2 DEF Stands, b, PointNames
 <2>9. KnownIsLast(u, mlRuns') BY <2>2, <2>7 DEF KnownIsLast, PointNames
 <2>10. mlSaved' = u /\ mlVisit' = IF "params" = "rest" THEN MlResting
                                   ELSE [[mlVisit EXCEPT !.at = "params"] EXCEPT !.state = u]
   BY <2>1 DEF Save, At
 <2>11. u \in MlStates /\ u.run # 0 BY <2>4, <2>7 DEF PointNames
 <2>12. Succeeds(IF "params" = "rest" THEN MlResting
                ELSE [[mlVisit EXCEPT !.at = "params"] EXCEPT !.state = u], u, mlRuns')
   BY <1>2, <1>3, <2>8, <2>11, SavedVisit
 <2>13. Succeeds(mlVisit', mlSaved', mlRuns') BY <2>10, <2>12, Zenon
 <2> QED BY <1>0, <1>1, <2>2, <2>8, <2>9, <2>10, <2>11, <2>13, StepKeeps
<1> QED BY <1>4, <1>5

LEMMA LosesRunKeeps ==
    ASSUME MlInv, MlLosesRun, UNCHANGED journalVars PROVE MlInv'
<1>0. AnyJournal' BY InvRuns DEF AnyJournal, Total, journalVars
<1>1. /\ mlVisit.at = "run" /\ mlVisit.state.run = 0 /\ FoundRun = 0
      /\ mlRuns' = Append(mlRuns, NewRun) /\ mlClock' = mlClock + 1 /\ mlVisit' = MlResting
      /\ mlSaved' = mlSaved /\ mlClock \in Nat /\ mlClock' \in Nat
  BY InvRuns DEF MlLosesRun, NewRun
<1>3. RunsAreSound(mlRuns') /\ Grown(mlRuns, mlRuns') BY <1>1, NewRunIs, InvRuns, RunCreated, FoundRunLives
<1>4. Stands(mlSaved', mlRuns') BY <1>1, <1>3, InvRuns, GrownStands DEF RunsAreSound
<1>6. KnownIsLast(mlSaved', mlRuns') BY <1>1, VisitIsSome DEF KnownIsLast
<1>7. Succeeds(mlVisit', mlSaved', mlRuns') BY <1>1 DEF Succeeds
<1> QED BY <1>0, <1>1, <1>3, <1>4, <1>6, <1>7, InvRuns, StepKeeps

\* The server did what was asked, and the visit saves what it did.
Answered == AnyJournal' /\ mlClock' = mlClock /\ RunsAreSound(mlRuns') /\ Grown(mlRuns, mlRuns')
            /\ KnownIsLast(mlSaved, mlRuns')

LEMMA NotAsked == ASSUME MlInv, UNCHANGED <<journalVars, mlClock, mlRuns>> PROVE Answered
<1>2. Grown(mlRuns, mlRuns) BY InvRuns DEF Grown, RunsAreSound
<1> QED BY InvRuns, <1>2 DEF Answered, AnyJournal, Total, journalVars

LEMMA SavesKeep ==
    ASSUME MlInv, Answered, mlVisit.at # "rest", mlVisit.at \notin {"experiment", "run"},
           Alike(mlSaved', mlVisit.state), NEW place \in MlPlaces \cup {"rest"},
           mlVisit' = IF place = "rest" THEN MlResting
                      ELSE [[mlVisit EXCEPT !.at = place] EXCEPT !.state = mlSaved']
    PROVE  MlInv'
<1>1. /\ mlVisit \in MlVisits /\ mlVisit.state \in MlStates /\ mlVisit.state.run = mlSaved.run
      /\ Stands(mlVisit.state, mlRuns) /\ mlVisit.state.run # 0
  BY VisitIsSome
<1>2. RunsAreSound(mlRuns) /\ mlClock \in Nat BY InvRuns
<1>4. mlSaved' \in MlStates /\ mlSaved'.run = mlSaved.run BY <1>1 DEF Alike, PointNames
<1>5. Stands(mlSaved', mlRuns') BY <1>1, <1>2, GrownStands, AlikeStands DEF Answered, RunsAreSound
<1>6. Succeeds(IF place = "rest" THEN MlResting
              ELSE [[mlVisit EXCEPT !.at = place] EXCEPT !.state = mlSaved'], mlSaved', mlRuns')
  BY <1>1, <1>4, <1>5, SavedVisit
<1>7. Succeeds(mlVisit', mlSaved', mlRuns') BY <1>6, Zenon
<1> QED BY <1>2, <1>4, <1>5, <1>7, KnownStaysLast, StepKeeps DEF Answered

\* The visit goes on, and saves nothing.
LEMMA MovesKeep ==
    ASSUME MlInv, Answered, mlSaved' = mlSaved, Succeeds(mlVisit', mlSaved, mlRuns')
    PROVE  MlInv'
<1> QED BY InvRuns, GrownStands, StepKeeps DEF Answered, RunsAreSound

\* A request about the run of the visit, which leaves its start and adds points that are named.
LEMMA RequestIsAnswered ==
    ASSUME MlInv, UNCHANGED <<journalVars, mlClock>>, NEW r \in 1..Len(mlRuns), NEW q, NEW ps, NEW g,
           RunIs(q, mlRuns[r].start, ps, g), mlRuns[r].points \subseteq ps, Named(mlRuns[r].start, ps),
           mlRuns[r].gone => g, mlRuns' = [mlRuns EXCEPT ![r] = q]
    PROVE  Answered /\ Len(mlRuns') = Len(mlRuns) /\ mlRuns'[r].points = ps
<1>1. AnyJournal' BY InvRuns DEF AnyJournal, Total, journalVars
<1>2. RunsAreSound(mlRuns) BY InvRuns
<1>3. /\ RunsAreSound(mlRuns') /\ Grown(mlRuns, mlRuns')
      /\ \A s : KnownIsLast(s, mlRuns) => KnownIsLast(s, mlRuns')
      /\ Len(mlRuns') = Len(mlRuns) /\ mlRuns'[r].points = ps
 <2>1. PICK after : after = mlRuns' OBVIOUS
 <2>2. after = [mlRuns EXCEPT ![r] = q] BY <2>1
 <2>4. RunIs(q, mlRuns[r].start, ps, q.gone) /\ (mlRuns[r].gone => q.gone) BY Zenon DEF RunIs
 <2>3. Touched(mlRuns, r, ps, after) BY <1>2, <2>2, <2>4, RunTouched
 <2> QED BY <2>1, <2>3, Zenon DEF Touched
<1>4. KnownIsLast(mlSaved, mlRuns') BY <1>3, InvRuns, Zenon
<1> QED BY <1>1, <1>3, <1>4 DEF Answered

\* The points of a run, untouched, are named.
LEMMA PointsOfRuns ==
    ASSUME MlInv, NEW r \in 1..Len(mlRuns)
    PROVE  mlRuns[r] \in RunsOnMlflow /\ Named(mlRuns[r].start, mlRuns[r].points)
  BY InvRuns DEF RunsAreSound, PointsAreNamed, Named

LEMMA LogParamsKeeps ==
    ASSUME MlInv, MlLogParams, UNCHANGED journalVars PROVE MlInv'
<1>1. mlVisit.at = "params" /\ mlClock' = mlClock BY DEF MlLogParams
<1>2. /\ mlVisit \in MlVisits /\ mlVisit.state \in MlStates /\ mlVisit.state.run = mlSaved.run
      /\ Stands(mlVisit.state, mlRuns) /\ mlVisit.state.run \in 1..Len(mlRuns) /\ mlVisit.state.run # 0
  BY <1>1, VisitIsSome
<1>3. "batch" \in MlPlaces /\ "STOPPED" \in MlStatuses BY DEF MlPlaces, MlStatuses
<1>4. CASE mlVisit.state.params
 <2> DEFINE w == [mlVisit EXCEPT !.at = "batch"]
 <2>1. mlVisit' = w /\ UNCHANGED <<mlSaved, mlRuns>> BY <1>4 DEF MlLogParams, At
 <2>3. VisitIs(w, "batch", mlVisit.state) BY <1>2, <1>3, VisitGoes
 <2> HIDE DEF w
 <2>4. Succeeds(w, mlSaved, mlRuns) BY <1>2, <1>3, <2>3, VisitFollows
 <2> QED BY <2>1, <1>1, NotAsked, <2>4, MovesKeep
<1>5. CASE ~mlVisit.state.params /\ Theirs.gone
 <2>1. mlSaved' = [mlVisit.state EXCEPT !.status = "STOPPED"] /\ mlVisit' = MlResting /\ mlRuns' = mlRuns
   BY <1>5 DEF MlLogParams, Stop, Save
 <2>3. Alike(mlSaved', mlVisit.state) BY <1>2, <1>3, <2>1, StatusOfState DEF Alike
 <2> QED BY <1>1, <2>1, NotAsked, <2>3, SavesKeep
<1>6. CASE ~mlVisit.state.params /\ ~Theirs.gone
 <2> DEFINE r == mlVisit.state.run
            q == [mlRuns[r] EXCEPT !.params = TRUE]
 <2>1. /\ mlRuns' = [mlRuns EXCEPT ![r].params = TRUE]
       /\ mlSaved' = [mlVisit.state EXCEPT !.params = TRUE]
       /\ mlVisit' = [[mlVisit EXCEPT !.at = "batch"] EXCEPT !.state = mlSaved']
   BY <1>6 DEF MlLogParams, Save, At
 <2>2. mlRuns' = [mlRuns EXCEPT ![r] = q] BY <2>1, Zenon
 <2>3. mlRuns[r] \in RunsOnMlflow /\ Named(mlRuns[r].start, mlRuns[r].points) BY <1>2, PointsOfRuns
 <2>4. RunIs(q, mlRuns[r].start, mlRuns[r].points, mlRuns[r].gone) BY <2>3, ParamsOfRun
 <2> HIDE DEF q
 <2>5. Answered BY <1>1, <1>2, <2>2, <2>3, <2>4, RequestIsAnswered
 <2>6. Alike(mlSaved', mlVisit.state) BY <1>2, <2>1, ParamsOfState DEF Alike
 <2> QED BY <1>1, <1>3, <2>5, <2>6, <2>1, SavesKeep
<1> QED BY <1>4, <1>5, <1>6

LEMMA LogBatchKeeps ==
    ASSUME MlInv, MlLogBatch, UNCHANGED journalVars PROVE MlInv'
<1>1. mlVisit.at = "batch" /\ mlClock' = mlClock BY DEF MlLogBatch
<1>2. /\ mlVisit \in MlVisits /\ mlVisit.state \in MlStates /\ mlVisit.state.run = mlSaved.run
      /\ Stands(mlVisit.state, mlRuns) /\ mlVisit.state.run \in 1..Len(mlRuns) /\ mlVisit.state.run # 0
  BY <1>1, VisitIsSome
<1>3. "logged" \in MlPlaces /\ "STOPPED" \in MlStatuses BY DEF MlPlaces, MlStatuses
<1>4. CASE Theirs.gone
 <2>1. mlSaved' = [mlVisit.state EXCEPT !.status = "STOPPED"] /\ mlVisit' = MlResting /\ mlRuns' = mlRuns
   BY <1>4 DEF MlLogBatch, Stop, Save
 <2>3. Alike(mlSaved', mlVisit.state) BY <1>2, <1>3, <2>1, StatusOfState DEF Alike
 <2> QED BY <1>1, <2>1, NotAsked, <2>3, SavesKeep
<1>5. CASE ~Theirs.gone
 <2> DEFINE r == mlVisit.state.run
            s == mlVisit.state
            w == [mlVisit EXCEPT !.at = "logged"]
 <2>1. PICK n \in s.confirmed + 1..Total :
         /\ mlRuns' = [mlRuns EXCEPT ![r].points = @ \cup {Point(k) : k \in s.confirmed + 1..n}]
         /\ mlVisit' = [w EXCEPT !.state.confirmed = n] /\ mlSaved' = mlSaved
   BY <1>5 DEF MlLogBatch, At
 <2> DEFINE ps == mlRuns[r].points \cup {Point(k) : k \in s.confirmed + 1..n}
            q == [mlRuns[r] EXCEPT !.points = ps]
            u == [s EXCEPT !.confirmed = n]
 <2>2. s.confirmed \in Nat /\ s.base \in Nat /\ s.run \in Nat /\ s.base = mlRuns[r].start
   BY <1>2, StateFields DEF Stands
 <2>3. n \in Nat /\ n > s.confirmed BY <2>1, <2>2
 <2>4. mlRuns[r] \in RunsOnMlflow /\ Named(mlRuns[r].start, mlRuns[r].points) BY <1>2, PointsOfRuns
 <2>5. \A k \in s.confirmed + 1..n : Point(k) = <<k, s.base + k>> /\ Point(k) \in Nat \X Nat
   BY <2>2, <2>3 DEF Point
 <2>6. ps \in SUBSET (Nat \X Nat)
  <3> QED BY <2>5, <2>4, RunFields
 <2>7. Named(mlRuns[r].start, ps)
  <3> SUFFICES ASSUME NEW p \in ps PROVE p = <<p[1], mlRuns[r].start + p[1]>> BY DEF Named
  <3>1. CASE p \in mlRuns[r].points BY <2>4, <3>1 DEF Named
  <3>2. CASE p \in {Point(k) : k \in s.confirmed + 1..n} BY <2>2, <2>5, <3>2
  <3> QED BY <3>1, <3>2
 <2>8. mlRuns' = [mlRuns EXCEPT ![r] = q] BY <2>1, Zenon
 <2>9. RunIs(q, mlRuns[r].start, ps, mlRuns[r].gone) BY <2>4, <2>6, PointsOfRun
 <2>10. mlRuns[r].points \subseteq ps OBVIOUS
 <2>11. ps = mlRuns[r].points \cup {Point(k) : k \in s.confirmed + 1..n} OBVIOUS
 <2> HIDE DEF q, ps
 <2>12. Answered /\ Len(mlRuns') = Len(mlRuns) /\ mlRuns'[r].points = ps
  <3>1. UNCHANGED <<journalVars, mlClock>> /\ r \in 1..Len(mlRuns) BY <1>1, <1>2
  <3> HIDE DEF r
  <3> QED BY <2>7, <2>8, <2>9, <2>10, <3>1, RequestIsAnswered
 <2>13. PointNames(u, s.run, s.base, n) BY <1>2, <2>3, ConfirmedOfState
 <2> HIDE DEF u
 <2>14. Stands(u, mlRuns')
  <3>2. Stands(s, mlRuns') BY <1>2, <2>12, InvRuns, GrownStands DEF Answered, RunsAreSound
  <3>3. \A k \in 1..n : <<k, s.base + k>> \in ps
   <4> SUFFICES ASSUME NEW k \in 1..n PROVE <<k, s.base + k>> \in ps OBVIOUS
   <4>1. CASE k \in 1..s.confirmed BY <1>2, <2>10, <4>1 DEF Stands
   <4>2. CASE k \in s.confirmed + 1..n BY <2>5, <2>11, <4>2
   <4> QED BY <2>2, <2>3, <4>1, <4>2
  <3> QED BY <1>2, <2>12, <2>13, <3>2, <3>3 DEF Stands, PointNames
 <2> DEFINE z == [w EXCEPT !.state = u]
 <2>15. VisitIs(z, "logged", u) BY <1>2, <1>3, <2>13, VisitSaves DEF PointNames
 <2>16. mlVisit' = z
  <3>2. w.state = s BY <1>2, <1>3, VisitGoes DEF VisitIs
  <3> HIDE DEF w, s
  <3>3. [w EXCEPT !.state.confirmed = n] = [w EXCEPT !.state = [w.state EXCEPT !.confirmed = n]] BY Zenon
  <3> QED BY <2>1, <3>2, <3>3, Zenon DEF u
 <2> HIDE DEF z
 <2>17. Succeeds(z, mlSaved, mlRuns')
  <3> QED BY <1>3, <2>14, <2>15, <1>2, <2>13, VisitFollows DEF PointNames
 <2> QED BY <2>1, <2>12, <2>16, <2>17, MovesKeep
<1> QED BY <1>4, <1>5

LEMMA SaveBatchKeeps ==
    ASSUME MlInv, MlSaveBatch, UNCHANGED journalVars PROVE MlInv'
<1> DEFINE t == IF mlVisit.state.confirmed >= mlVisit.total THEN "SYNCED" ELSE "ACK_PENDING"
<1>1. /\ mlVisit.at = "logged" /\ mlSaved' = [mlVisit.state EXCEPT !.status = t]
      /\ mlVisit' = [[mlVisit EXCEPT !.at = "batch"] EXCEPT !.state = mlSaved']
      /\ UNCHANGED <<mlRuns, mlClock>>
  BY DEF MlSaveBatch, Save, At, MlServer
<1>2. t \in MlStatuses /\ "batch" \in MlPlaces BY DEF MlStatuses, MlPlaces
<1> HIDE DEF t
<1>3. Alike(mlSaved', mlVisit.state) BY <1>1, <1>2, VisitIsSome, StatusOfState DEF Alike
<1> QED BY <1>1, <1>2, <1>3, NotAsked, SavesKeep

LEMMA SaveFinishedKeeps ==
    ASSUME MlInv, MlSaveFinished, UNCHANGED journalVars PROVE MlInv'
<1>1. /\ mlVisit.at = "finished" /\ mlSaved' = [mlVisit.state EXCEPT !.status = "FINISHED"]
      /\ mlVisit' = MlResting /\ UNCHANGED <<mlRuns, mlClock>>
  BY DEF MlSaveFinished, Save, MlServer
<1>3. Alike(mlSaved', mlVisit.state) BY <1>1, VisitIsSome, StatusOfState DEF Alike, MlStatuses
<1> QED BY <1>1, <1>3, NotAsked, SavesKeep

LEMMA FinishKeeps ==
    ASSUME MlInv, MlFinish, UNCHANGED journalVars PROVE MlInv'
<1>1. mlVisit.at = "batch" /\ mlClock' = mlClock BY DEF MlFinish
<1>2. /\ mlVisit \in MlVisits /\ mlVisit.state \in MlStates /\ mlVisit.state.run = mlSaved.run
      /\ Stands(mlVisit.state, mlRuns) /\ mlVisit.state.run \in 1..Len(mlRuns) /\ mlVisit.state.run # 0
  BY <1>1, VisitIsSome
<1>3. "finished" \in MlPlaces /\ "STOPPED" \in MlStatuses /\ "SYNCED" \in MlStatuses
  BY DEF MlPlaces, MlStatuses
<1>4. ASSUME NEW t \in {"STOPPED", "SYNCED"}, mlSaved' = [mlVisit.state EXCEPT !.status = t],
             mlVisit' = MlResting, mlRuns' = mlRuns
      PROVE  MlInv'
 <2>2. Alike(mlSaved', mlVisit.state) BY <1>2, <1>3, <1>4, StatusOfState DEF Alike
 <2> QED BY <1>1, <1>4, NotAsked, <2>2, SavesKeep
<1>5. CASE ~MlTerminal(mlVisit, mlVisit.state.confirmed)
 <2> QED BY <1>4, <1>5 DEF MlFinish, Save
<1>6. CASE MlTerminal(mlVisit, mlVisit.state.confirmed) /\ Theirs.gone
 <2> QED BY <1>4, <1>6 DEF MlFinish, Stop, Save
<1>7. CASE MlTerminal(mlVisit, mlVisit.state.confirmed) /\ ~Theirs.gone
 <2> DEFINE r == mlVisit.state.run
            s == mlVisit.state
            w == [mlVisit EXCEPT !.at = "finished"]
            q == [mlRuns[r] EXCEPT !.status = MlGoal]
            u == [s EXCEPT !.finished = TRUE]
 <2>1. /\ mlRuns' = [mlRuns EXCEPT ![r].status = MlGoal]
       /\ mlVisit' = [w EXCEPT !.state.finished = TRUE] /\ mlSaved' = mlSaved
   BY <1>7 DEF MlFinish, At
 <2>2. mlRuns[r] \in RunsOnMlflow /\ Named(mlRuns[r].start, mlRuns[r].points) BY <1>2, PointsOfRuns
 <2>4. RunIs(q, mlRuns[r].start, mlRuns[r].points, mlRuns[r].gone) BY <2>2, StatusOfRun DEF MlGoal
 <2>5. mlRuns' = [mlRuns EXCEPT ![r] = q] BY <2>1, Zenon
 <2> HIDE DEF q
 <2>6. Answered BY <1>1, <1>2, <2>2, <2>4, <2>5, RequestIsAnswered
 <2>7. Alike(u, s) BY <1>2, FinishedOfState DEF Alike
 <2>8. u \in MlStates /\ u.run = mlSaved.run /\ u.run # 0 BY <1>2, <2>7 DEF Alike, PointNames
 <2> DEFINE z == [w EXCEPT !.state = u]
 <2>9. VisitIs(z, "finished", u) BY <1>2, <1>3, <2>8, VisitSaves
 <2>10. mlVisit' = z
  <3>2. w.state = s BY <1>2, <1>3, VisitGoes DEF VisitIs
  <3> HIDE DEF w, s
  <3>3. [w EXCEPT !.state.finished = TRUE] = [w EXCEPT !.state = [w.state EXCEPT !.finished = TRUE]] BY Zenon
  <3> QED BY <2>1, <3>2, <3>3, Zenon DEF u
 <2> HIDE DEF z, u
 <2>11. Stands(s, mlRuns') BY <1>2, <2>6, InvRuns, GrownStands DEF Answered, RunsAreSound
 <2>12. Stands(u, mlRuns') BY <2>7, <2>11, AlikeStands
 <2>13. Succeeds(z, mlSaved, mlRuns') BY <1>3, <2>8, <2>9, <2>12, VisitFollows
 <2> QED BY <2>1, <2>6, <2>10, <2>13, MovesKeep
<1> QED BY <1>5, <1>6, <1>7

LEMMA CrashKeeps ==
    ASSUME MlInv, MlCrash, UNCHANGED journalVars PROVE MlInv'
<1>1. mlVisit' = MlResting /\ UNCHANGED <<mlSaved, mlRuns, mlClock>> BY DEF MlCrash, MlServer
<1> QED BY <1>1, NotAsked, MovesKeep DEF Succeeds

LEMMA DeleteKeeps ==
    ASSUME MlInv, MlDelete, UNCHANGED journalVars PROVE MlInv'
<1>1. UNCHANGED <<mlSaved, mlVisit, mlClock>> BY DEF MlDelete
<1>2. CASE UNCHANGED mlRuns
 <2> QED BY <1>1, <1>2, InvRuns, NotAsked, MovesKeep
<1>3. ASSUME NEW n \in Living, mlRuns' = [mlRuns EXCEPT ![n].gone = TRUE] PROVE MlInv'
 <2> DEFINE q == [mlRuns[n] EXCEPT !.gone = TRUE]
 <2>1. n \in 1..Len(mlRuns) BY InvRuns DEF Living, RunsAreSound
 <2>2. mlRuns[n] \in RunsOnMlflow /\ Named(mlRuns[n].start, mlRuns[n].points) BY <2>1, PointsOfRuns
 <2>3. RunIs(q, mlRuns[n].start, mlRuns[n].points, TRUE) BY <2>2, GoneOfRun
 <2>4. mlRuns' = [mlRuns EXCEPT ![n] = q] BY <1>3, Zenon
 <2> HIDE DEF q
 <2>5. Answered BY <1>1, <2>1, <2>2, <2>3, <2>4, RequestIsAnswered
 <2> QED BY <1>1, <2>5, InvRuns, GrownFollows, MovesKeep DEF Answered, RunsAreSound
<1> QED BY <1>2, <1>3 DEF MlDelete

LEMMA JournalMovesKeeps == ASSUME MlInv, JournalMoves PROVE MlInv'
  BY DEF JournalMoves, mlflowVars, MlInv, MlTypeOK

LEMMA MlInvHolds == MlSpec => []MlInv
<1>1. AnyJournal /\ MlInit => MlInv
 <2> SUFFICES ASSUME AnyJournal, MlInit PROVE MlInv OBVIOUS
 <2>1. mlSaved = NewMlState /\ mlVisit = MlResting /\ mlRuns = <<>> /\ mlClock = 0 BY DEF MlInit
 <2>2. NewMlState \in MlStates /\ NewMlState.run = 0 /\ NewMlState.confirmed = 0
   BY DEF NewMlState, MlStates, MlStatuses
 <2>3. <<>> \in Seq(RunsOnMlflow) /\ Len(<<>>) = 0 OBVIOUS
 <2>4. MlTypeOK BY <2>1, <2>2, <2>3 DEF MlTypeOK
 <2>5. Stands(mlSaved, mlRuns) /\ KnownIsLast(mlSaved, mlRuns) BY <2>1, <2>2 DEF Stands, KnownIsLast
 <2>7. PointsAreNamed(mlRuns) /\ OneLives(mlRuns) BY <2>1, <2>3 DEF PointsAreNamed, OneLives
 <2> QED BY <2>4, <2>5, <2>1, <2>7 DEF MlInv, Succeeds
<1>2. MlInv /\ [MlStep]_<<journalVars, mlflowVars>> => MlInv'
 <2> SUFFICES ASSUME MlInv, [MlStep]_<<journalVars, mlflowVars>> PROVE MlInv' OBVIOUS
 <2>1. CASE MlNext /\ UNCHANGED journalVars
  <3> QED BY <2>1, VisitScopeKeeps, EnsureExperimentKeeps, FindRunKeeps, LosesRunKeeps, LogParamsKeeps,
             LogBatchKeeps, SaveBatchKeeps, FinishKeeps, SaveFinishedKeeps, CrashKeeps, DeleteKeeps
          DEF MlNext, MlVisiting
 <2>2. CASE JournalMoves BY <2>2, JournalMovesKeeps
 <2>3. CASE UNCHANGED <<journalVars, mlflowVars>>
  <3> QED BY <2>3, InvRuns, JournalMovesKeeps DEF JournalMoves, AnyJournal, Total, journalVars
 <2> QED BY <2>1, <2>2, <2>3 DEF MlStep
<1> QED BY <1>1, <1>2, PTL DEF MlSpec

(* A scope has one living MLflow run, which has every record the cursor
   passed, under one name each: ensure_run finds the run by its tag before
   it creates one, and log_batch names points by the start of that run, so
   that a batch whose answer was lost may be sent again. *)
THEOREM RecordsAreThereOnce == MlSpec => []MlflowIsTrue
<1>1. MlInv => MlflowIsTrue
 <2> SUFFICES ASSUME MlInv PROVE OneMlflowRun /\ MlConfirmedIsThere BY DEF MlflowIsTrue
 <2>0. mlRuns \in Seq(RunsOnMlflow) /\ DOMAIN mlRuns = 1..Len(mlRuns) BY DEF MlInv, MlTypeOK
 <2>2. Cardinality(Living) <= 1
  <3>1. CASE Living = {}
   <4> QED BY <3>1, FS_EmptySet
  <3>2. CASE Living # {}
   <4>1. PICK m \in Living : TRUE BY <3>2
   <4>2. Living = {m} BY <2>0, <4>1 DEF MlInv, OneLives, Living
   <4>3. Cardinality({m}) = 1 BY FS_Singleton
   <4> QED BY <4>2, <4>3
  <3> QED BY <3>1, <3>2
 <2>4. ASSUME mlSaved.run # 0
       PROVE  /\ \A n \in 1..mlSaved.confirmed : \E p \in mlRuns[mlSaved.run].points : p[1] = n
              /\ \A p, q \in mlRuns[mlSaved.run].points : p[1] = q[1] => p = q
  <3>1. mlSaved.run \in 1..Len(mlRuns)
   <4> QED BY <2>4, <2>0, InvRuns, StateFields DEF Stands
  <3>3. \A n \in 1..mlSaved.confirmed : \E p \in mlRuns[mlSaved.run].points : p[1] = n
    BY <2>4, InvRuns DEF Stands
  <3>4. \A p \in mlRuns[mlSaved.run].points : p = <<p[1], mlRuns[mlSaved.run].start + p[1]>>
    BY <3>1, InvRuns DEF RunsAreSound, PointsAreNamed
  <3>5. \A p, q \in mlRuns[mlSaved.run].points : p[1] = q[1] => p = q BY <3>4, Zenon
  <3> QED BY <3>3, <3>5
 <2> QED BY <2>0, <2>2, <2>4 DEF MlConfirmedIsThere, OneMlflowRun, MlInv, KnownIsLast
<1> QED BY <1>1, MlInvHolds, PTL

------------
\* The least of some numbers.
Least(S) == CHOOSE k \in S : \A other \in S : k <= other
LEMMA LeastIsThere ==
    ASSUME NEW S \in SUBSET Nat, S # {}
    PROVE  Least(S) \in S /\ \A other \in S : Least(S) <= other
<1> DEFINE T == {0..k : k \in S}
<1>1. T \subseteq FiniteSubsetsOf(Nat) /\ T # {}
 <2>1. \A k \in S : 0..k \in SUBSET Nat /\ IsFiniteSet(0..k)
   BY FS_Interval
 <2> QED BY <2>1 DEF FiniteSubsetsOf
<1>2. \E x \in T : \A y \in T : ~(<<y, x>> \in StrictSubsetOrdering(Nat))
 <2> HIDE DEF T
 <2> QED BY <1>1, FS_StrictSubsetOrderingWellFounded, WFMin
<1>3. PICK x \in T : \A y \in T : ~(<<y, x>> \in StrictSubsetOrdering(Nat))
  BY <1>2
<1>4. PICK k \in S : x = 0..k
  BY <1>3
<1>5. \A j \in S : k <= j
 <2> SUFFICES ASSUME NEW j \in S, j < k PROVE FALSE
   OBVIOUS
 <2>2. <<0..j, 0..k>> \in StrictSubsetOrdering(Nat) BY DEF StrictSubsetOrdering
 <2> QED BY <1>3, <1>4, <2>2
<1> QED BY <1>5 DEF Least

------------
(* The exchange of a cloud Attempt.  Its invariant says how far the server
   ever fed the file (FedTo), whatever was saved of it: up to there the
   journal has the lines and the identities, so that what is fed again is
   known; and that a packet follows the last one that was saved.

   Recursion over a sequence: events appended to the journal, the lines of
   a file, the lines of a journal. *)
FoldSteps(kind, data, n, sofar) ==
    CASE kind = "append" -> AppendOne(sofar, data[n])
      [] kind = "lines" -> IF data[n].last THEN WithLine(sofar, data[n].line) ELSE sofar
      [] kind = "frames" -> IF n \in data.rows THEN Append(sofar, Item(data.of, "row", n)) ELSE sofar
      [] kind = "told" -> IF data[n].body.kind \in {"metrics", "diagnostic"} THEN Append(sofar, data[n].id[3]) ELSE sofar
IsFold(f, kind, first, data, m) ==
    f = [n \in 0..m |-> IF n = 0 THEN first ELSE FoldSteps(kind, data, n, f[n - 1])]

LEMMA FoldExists ==
    ASSUME NEW kind, NEW first, NEW data, NEW m \in Nat
    PROVE  \E f : IsFold(f, kind, first, data, m)
<1> DEFINE bad == {k \in Nat : ~\E f : IsFold(f, kind, first, data, k)}
<1> SUFFICES ASSUME bad # {} PROVE FALSE OBVIOUS
<1>1. PICK k : k = Least(bad) OBVIOUS
<1>2. k \in Nat /\ (~\E f : IsFold(f, kind, first, data, k))
      /\ \A j \in Nat : j < k => \E f : IsFold(f, kind, first, data, j)
 <2>1. bad \in SUBSET Nat OBVIOUS
 <2>2. k \in bad /\ \A j \in bad : k <= j
  <3> HIDE DEF bad
  <3> QED BY <1>1, <2>1, LeastIsThere
 <2> QED BY <2>2
<1>3. CASE k = 0
 <2>1. IsFold([n \in 0..0 |-> first], kind, first, data, 0) BY DEF IsFold
 <2> QED BY <1>2, <1>3, <2>1
<1>4. CASE k > 0
 <2>2. PICK f : IsFold(f, kind, first, data, k - 1) BY <1>2, <1>4
 <2> DEFINE g == [n \in 0..k |-> IF n < k THEN f[n] ELSE FoldSteps(kind, data, k, f[k - 1])]
 <2>3. \A n \in 0..(k - 1) : f[n] = IF n = 0 THEN first ELSE FoldSteps(kind, data, n, f[n - 1])
   BY <2>2 DEF IsFold
 <2>4. \A n \in 0..k : g[n] = IF n = 0 THEN first ELSE FoldSteps(kind, data, n, g[n - 1])
  <3> TAKE n \in 0..k
  <3>1. CASE n = 0
   <4> QED BY <3>1, <1>2, <1>4, <2>3
  <3>2. CASE n # 0 /\ n < k
   <4>1. n \in 0..(k - 1) /\ n - 1 \in 0..k /\ n - 1 < k BY <1>2, <3>2
   <4>2. g[n] = f[n] /\ g[n - 1] = f[n - 1] BY <3>2, <4>1
   <4>3. f[n] = FoldSteps(kind, data, n, f[n - 1]) BY <2>3, <3>2, <4>1
   <4> HIDE DEF g
   <4> QED BY <3>2, <4>2, <4>3
  <3>3. CASE n = k
   <4>2. g[n] = FoldSteps(kind, data, k, f[k - 1]) /\ g[k - 1] = f[k - 1] BY <1>2, <3>3, <1>4
   <4> HIDE DEF g
   <4> QED BY <1>4, <3>3, <4>2
  <3> QED BY <1>2, <3>1, <3>2, <3>3
 <2>5. g = [n \in 0..k |-> g[n]] OBVIOUS
 <2>6. IsFold(g, kind, first, data, k)
  <3> HIDE DEF g
  <3> QED BY <2>4, <2>5 DEF IsFold
 <2> QED BY <1>2, <2>6
<1> QED BY <1>2, <1>3, <1>4

LEMMA FoldAt ==
    ASSUME NEW f, NEW kind, NEW first, NEW data, NEW m \in Nat, IsFold(f, kind, first, data, m)
    PROVE  /\ f[0] = first
           /\ \A n \in 1..m : f[n] = FoldSteps(kind, data, n, f[n - 1])
<1>2. \A n \in 1..m : n \in 0..m /\ n # 0 OBVIOUS
<1>3. 0 \in 0..m OBVIOUS
<1> QED BY <1>2, <1>3 DEF IsFold

\* The same, under one name.
FoldRuns(f, kind, first, data, m) ==
    f[0] = first /\ \A n \in 1..m : f[n] = FoldSteps(kind, data, n, f[n - 1])
LEMMA FoldIsRun ==
    ASSUME NEW f, NEW kind, NEW first, NEW data, NEW m \in Nat, IsFold(f, kind, first, data, m)
    PROVE  FoldRuns(f, kind, first, data, m)
  BY FoldAt DEF FoldRuns

LEMMA FoldsAgree ==
    ASSUME NEW f, NEW g, NEW kind, NEW first, NEW data, NEW more, NEW m \in Nat, NEW k \in Nat, m <= k, kind = "told",
           IsFold(f, kind, first, data, m), IsFold(g, kind, first, more, k), \A n \in 1..m : data[n] = more[n]
    PROVE  \A n \in 0..m : f[n] = g[n]
<1> DEFINE bad == {n \in 0..m : f[n] # g[n]}
<1> SUFFICES ASSUME bad # {} PROVE FALSE OBVIOUS
<1>1. PICK n : n = Least(bad) OBVIOUS
<1>2. n \in 0..m /\ f[n] # g[n] /\ \A j \in 0..m : j < n => f[j] = g[j]
 <2>1. bad \in SUBSET Nat OBVIOUS
 <2>2. n \in bad /\ \A j \in bad : n <= j
  <3> HIDE DEF bad
  <3> QED BY <1>1, <2>1, LeastIsThere
 <2> QED BY <2>2
<1>4. n # 0 => n \in 1..m /\ n \in 1..k /\ n - 1 \in 0..m /\ n - 1 < n BY <1>2
<1>5. n # 0 => f[n] = FoldSteps(kind, data, n, f[n - 1]) /\ g[n] = FoldSteps(kind, more, n, g[n - 1])
  BY <1>4, FoldAt
<1>6. n # 0 => f[n - 1] = g[n - 1] /\ data[n] = more[n] BY <1>2, <1>4
<1>7. n # 0 => FoldSteps(kind, data, n, f[n - 1]) = FoldSteps(kind, more, n, f[n - 1])
  BY <1>6 DEF FoldSteps
<1> QED BY <1>2, FoldAt, <1>5, <1>6, <1>7

------------
(* One event is appended; the lines of a journal follow its rows; the
   lines of the file follow its units. *)
LEMMA AppendedIsOne ==
    ASSUME NEW db, NEW e
    PROVE  AppendedTo(db, <<e>>) = AppendOne(db, e)
<1> DEFINE F(f) == IsFold(f, "append", db, <<e>>, 1)
           one == CHOOSE f : F(f)
<1>1. Len(<<e>>) = 1 /\ <<e>>[1] = e OBVIOUS
<1>2. AppendedTo(db, <<e>>) = one[1] BY <1>1 DEF AppendedTo, IsFold, FoldSteps
<1>4. F(one) BY FoldExists
<1>5. one[0] = db /\ one[1] = FoldSteps("append", <<e>>, 1, one[0])
 <2> HIDE DEF one
 <2> QED BY <1>4, FoldAt
<1> HIDE DEF one
<1>6. FoldSteps("append", <<e>>, 1, db) = AppendOne(db, e) BY <1>1 DEF FoldSteps
<1> QED BY <1>2, <1>5, <1>6

LEMMA ToldFollowsRows ==
    ASSUME NEW T, NEW rows \in Seq(T), NEW r \in T
    PROVE  ToldBy(Append(rows, r)) =
             IF r.body.kind \in {"metrics", "diagnostic"} THEN Append(ToldBy(rows), r.id[3]) ELSE ToldBy(rows)
<1> DEFINE more == Append(rows, r)
           m == Len(rows)
           Before(f) == IsFold(f, "told", <<>>, rows, m)
           After(f) == IsFold(f, "told", <<>>, more, m + 1)
           f == CHOOSE h : Before(h)
           g == CHOOSE h : After(h)
<1>1. m \in Nat /\ Len(more) = m + 1 /\ more[m + 1] = r /\ \A n \in 1..m : rows[n] = more[n] OBVIOUS
<1>2. ToldBy(rows) = f[m] BY DEF ToldBy, IsFold, FoldSteps
<1>3. ToldBy(more) = g[m + 1]
 <2> HIDE DEF m, more
 <2> QED BY <1>1 DEF ToldBy, IsFold, FoldSteps
<1> HIDE DEF m, more
<1>4. Before(f) /\ After(g)
 <2>2. m + 1 \in Nat BY <1>1
 <2>3. \E h : After(h) BY <2>2, FoldExists
 <2> QED BY <1>1, FoldExists, <2>3
<1> HIDE DEF f, g
<1>6. g[m + 1] = FoldSteps("told", more, m + 1, g[m])
 <2>1. m + 1 \in 1..(m + 1) /\ m + 1 \in Nat /\ m + 1 - 1 = m BY <1>1
 <2>3. PICK n \in 1..(m + 1) : n = m + 1 BY <2>1
 <2>4. g[n] = FoldSteps("told", more, n, g[n - 1]) BY <1>4, <2>1, FoldAt
 <2> QED BY <2>3, <2>4, <1>1
<1>7. f[m] = g[m] BY <1>1, <1>4, FoldsAgree
<1> QED BY <1>1, <1>2, <1>3, <1>6, <1>7 DEF FoldSteps, more

LEMMA ToldByNothing == ToldBy(<<>>) = <<>>
<1> DEFINE F(f) == IsFold(f, "told", <<>>, <<>>, 0)
           none == CHOOSE f : F(f)
<1>2. ToldBy(<<>>) = none[0] BY DEF ToldBy, IsFold, FoldSteps
<1>4. F(none) BY FoldExists
<1> HIDE DEF none
<1> QED BY <1>2, <1>4, FoldAt

LEMMA LinesFollowUnits ==
    /\ WholeLines[0] = <<>>
    /\ \A n \in 1..Len(File) :
          WholeLines[n] = IF File[n].last THEN WithLine(WholeLines[n - 1], File[n].line) ELSE WholeLines[n - 1]
<1> DEFINE F(f) == IsFold(f, "lines", <<>>, File, Len(File))
<1>1. WholeLines = CHOOSE f : F(f) BY DEF WholeLines, IsFold, FoldSteps
<1>2. Len(File) \in Nat BY ExchangeAssumption
<1>3. \E f : F(f) BY <1>2, FoldExists
<1>4. F(WholeLines) BY <1>1, <1>3
<1> QED BY <1>2, <1>4, FoldAt DEF FoldSteps

------------
\* Prefixes, by their elements.
LEMMA PrefixIs ==
    ASSUME NEW T, NEW s \in Seq(T), NEW t \in Seq(T)
    PROVE  IsPrefix(s, t) <=> Len(s) <= Len(t) /\ \A i \in 1..Len(s) : s[i] = t[i]
<1>1. ASSUME Len(s) <= Len(t)
      PROVE  (SubSeq(s, 1, Len(s)) = SubSeq(t, 1, Len(s))) <=> \A i \in 1..Len(s) : s[i] = t[i]
 <2> DEFINE a == SubSeq(s, 1, Len(s))
            b == SubSeq(t, 1, Len(s))
 <2>1. /\ a \in Seq(T) /\ Len(a) = Len(s) /\ \A i \in 1..Len(s) : a[i] = s[i]
       /\ b \in Seq(T) /\ Len(b) = Len(s) /\ \A i \in 1..Len(s) : b[i] = t[i]
   BY <1>1
 <2>2. (\A i \in 1..Len(s) : a[i] = b[i]) => a = b
  <3> HIDE DEF a, b
  <3> QED BY <2>1
 <2> HIDE DEF a, b
 <2> QED BY <2>1, <2>2 DEF a, b
<1> QED BY <1>1 DEF IsPrefix

LEMMA PrefixesFollow ==
    ASSUME NEW T, NEW s \in Seq(T), NEW t \in Seq(T), NEW u \in Seq(T), IsPrefix(s, t), IsPrefix(t, u)
    PROVE  IsPrefix(s, u)
<1>1. Len(s) \in Nat /\ Len(t) \in Nat /\ Len(u) \in Nat OBVIOUS
<1>2. Len(s) <= Len(t) /\ \A i \in 1..Len(s) : s[i] = t[i] BY PrefixIs
<1>3. Len(t) <= Len(u) /\ \A i \in 1..Len(t) : t[i] = u[i] BY PrefixIs
<1> QED BY <1>1, <1>2, <1>3, PrefixIs

LEMMA LongerHasPrefix ==
    ASSUME NEW T, NEW s \in Seq(T), NEW x \in T
    PROVE  IsPrefix(s, s) /\ IsPrefix(s, Append(s, x))
<1>1. Append(s, x) \in Seq(T) /\ Len(s) <= Len(Append(s, x)) /\ \A i \in 1..Len(s) : s[i] = Append(s, x)[i]
  OBVIOUS
<1>2. IsPrefix(s, Append(s, x)) BY <1>1, PrefixIs
<1> QED BY <1>2 DEF IsPrefix

------------
(* The lines of the file, and how many have ended. *)
FileLines == {File[k].line : k \in 1..Len(File)}
WholeTo(n) == {k \in 1..n : File[k].last}

LinesOK(n) ==
    /\ WholeLines[n] \in Seq(FileLines)
    /\ ToSet(WholeLines[n]) \ Invalid = {File[k].line : k \in WholeTo(n)} \ Invalid

LEMMA WithOneLine ==
    ASSUME NEW T, NEW s \in Seq(T), NEW l \in T
    PROVE  /\ WithLine(s, l) \in Seq(T)
           /\ ToSet(WithLine(s, l)) = ToSet(s) \cup {l}
           /\ IsPrefix(s, WithLine(s, l))
<1>1. Append(s, l) \in Seq(T) /\ Len(Append(s, l)) = Len(s) + 1 /\ Append(s, l)[Len(s) + 1] = l
      /\ \A i \in 1..Len(s) : Append(s, l)[i] = s[i]
  OBVIOUS
<1>2. DOMAIN s = 1..Len(s) /\ DOMAIN Append(s, l) = 1..(Len(s) + 1) /\ Len(s) \in Nat OBVIOUS
<1>3. ToSet(Append(s, l)) = ToSet(s) \cup {l}
 <2>2. \A i \in 1..Len(s) : i \in 1..(Len(s) + 1) BY <1>2
 <2>3. Len(s) + 1 \in 1..(Len(s) + 1) BY <1>2
 <2>4. ToSet(s) = {s[i] : i \in 1..Len(s)} BY <1>2 DEF ToSet
 <2>5. ToSet(Append(s, l)) = {Append(s, l)[i] : i \in 1..(Len(s) + 1)} BY <1>2 DEF ToSet
 <2> QED BY <1>1, <1>2, <2>2, <2>3, <2>4, <2>5
<1>4. IsPrefix(s, s) /\ IsPrefix(s, Append(s, l)) BY LongerHasPrefix
<1>5. CASE l \in ToSet(s) \ Invalid
 <2> QED BY <1>4, <1>5 DEF WithLine
<1>6. CASE l \notin ToSet(s) \ Invalid
 <2> QED BY <1>1, <1>3, <1>4, <1>6 DEF WithLine
<1> QED BY <1>5, <1>6

LEMMA LinesGoOn ==
    ASSUME NEW n \in 1..Len(File), LinesOK(n - 1)
    PROVE  LinesOK(n) /\ IsPrefix(WholeLines[n - 1], WholeLines[n])
<1>1. n \in Nat /\ n - 1 \in Nat /\ Len(File) \in Nat BY ExchangeAssumption
<1>3. \A k \in 1..n : k \in 1..(n - 1) \/ k = n BY <1>1
<1>4. \A k \in 1..(n - 1) : k \in 1..n BY <1>1
<1> DEFINE s == WholeLines[n - 1]
           l == File[n].line
<1>6. CASE File[n].last
 <2>1. WholeLines[n] = WithLine(s, l) BY <1>6, LinesFollowUnits
 <2>2. WithLine(s, l) \in Seq(FileLines) /\ ToSet(WithLine(s, l)) = ToSet(s) \cup {l} /\ IsPrefix(s, WithLine(s, l))
  <3>1. s \in Seq(FileLines) /\ l \in FileLines BY DEF LinesOK, FileLines
  <3> HIDE DEF s, l
  <3> QED BY <3>1, WithOneLine
 <2>3. {File[k].line : k \in WholeTo(n)} = {File[k].line : k \in WholeTo(n - 1)} \cup {l}
   BY <1>3, <1>4, <1>1, <1>6 DEF WholeTo
 <2> HIDE DEF l
 <2> QED BY <2>1, <2>2, <2>3 DEF LinesOK
<1>7. CASE ~File[n].last
 <2>2. WholeTo(n) = WholeTo(n - 1) BY <1>3, <1>4, <1>7 DEF WholeTo
 <2>3. IsPrefix(s, s) BY DEF IsPrefix
 <2> QED BY <1>7, LinesFollowUnits, <2>2, <2>3 DEF LinesOK
<1> QED BY <1>6, <1>7

LEMMA LinesAreOK == \A n \in 0..Len(File) : LinesOK(n)
<1> DEFINE bad == {n \in 0..Len(File) : ~LinesOK(n)}
<1> SUFFICES ASSUME bad # {} PROVE FALSE OBVIOUS
<1>1. PICK n : n = Least(bad) OBVIOUS
<1>2. n \in 0..Len(File) /\ ~LinesOK(n) /\ \A j \in 0..Len(File) : j < n => LinesOK(j)
 <2>1. bad \in SUBSET Nat BY ExchangeAssumption
 <2>2. n \in bad /\ \A j \in bad : n <= j
  <3> HIDE DEF bad
  <3> QED BY <1>1, <2>1, LeastIsThere
 <2> QED BY <2>2, ExchangeAssumption
<1>3. CASE n = 0
 <2>2. WholeTo(n) = {} BY <1>3 DEF WholeTo
 <2>3. ToSet(<<>>) = {} BY DEF ToSet
 <2>4. LinesOK(n) BY <1>3, LinesFollowUnits, <2>2, <2>3 DEF LinesOK
 <2> QED BY <1>2, <2>4
<1>4. CASE n # 0
 <2>1. n \in 1..Len(File) /\ n - 1 \in 0..Len(File) /\ n - 1 < n BY <1>2, <1>4, ExchangeAssumption
 <2>3. LinesOK(n) BY <2>1, <1>2, LinesGoOn
 <2> QED BY <1>2, <2>3
<1> QED BY <1>3, <1>4

LEMMA LinesGrow ==
    ASSUME NEW n \in 0..Len(File), NEW m \in 0..n
    PROVE  IsPrefix(WholeLines[m], WholeLines[n])
<1> DEFINE bad == {k \in m..n : ~IsPrefix(WholeLines[m], WholeLines[k])}
<1>0. m \in Nat /\ n \in Nat /\ Len(File) \in Nat /\ m <= n BY ExchangeAssumption
<1> SUFFICES ASSUME bad # {} PROVE FALSE BY <1>0
<1>1. PICK k : k = Least(bad) OBVIOUS
<1>2. k \in m..n /\ (~IsPrefix(WholeLines[m], WholeLines[k]))
      /\ \A j \in m..n : j < k => IsPrefix(WholeLines[m], WholeLines[j])
 <2>1. bad \in SUBSET Nat BY <1>0
 <2>2. k \in bad /\ \A j \in bad : k <= j
  <3> HIDE DEF bad
  <3> QED BY <1>1, <2>1, LeastIsThere
 <2> QED BY <2>2, <1>0
<1>3. CASE k = m BY <1>2, <1>3 DEF IsPrefix
<1>4. CASE k # m
 <2>1. k \in 1..Len(File) /\ k - 1 \in 0..Len(File) /\ k - 1 \in m..n /\ k - 1 < k /\ m \in 0..Len(File) /\ k \in 0..Len(File)
   BY <1>0, <1>2, <1>4
 <2>3. IsPrefix(WholeLines[k - 1], WholeLines[k]) BY <2>1, LinesAreOK, LinesGoOn
 <2>4. /\ WholeLines[m] \in Seq(FileLines) /\ WholeLines[k - 1] \in Seq(FileLines)
       /\ WholeLines[k] \in Seq(FileLines)
   BY <2>1, LinesAreOK DEF LinesOK
 <2>5. IsPrefix(WholeLines[m], WholeLines[k]) BY <1>2, <2>1, <2>3, <2>4, PrefixesFollow
 <2> QED BY <1>2, <2>5
<1> QED BY <1>3, <1>4

------------
(* The number of a line. *)
NumberTo(n) == Cardinality(WholeTo(n))

LEMMA WholeIsFinite ==
    ASSUME NEW n \in 0..Len(File)
    PROVE  IsFiniteSet(WholeTo(n)) /\ NumberTo(n) \in Nat
<1>2. IsFiniteSet(1..n) BY ExchangeAssumption, FS_Interval
<1>4. IsFiniteSet(WholeTo(n)) BY <1>2, FS_Subset DEF WholeTo
<1> QED BY <1>4, FS_CardinalityType DEF NumberTo

LEMMA NumbersGoOn ==
    ASSUME NEW n \in 1..Len(File)
    PROVE  NumberTo(n) = IF File[n].last THEN NumberTo(n - 1) + 1 ELSE NumberTo(n - 1)
<1>1. n \in Nat /\ n - 1 \in 0..Len(File) /\ n - 1 \in Nat BY ExchangeAssumption
<1>3. (\A k \in 1..(n - 1) : k \in 1..n) /\ n \in 1..n /\ n \notin 1..(n - 1) BY <1>1
<1>4. WholeTo(n) = IF File[n].last THEN WholeTo(n - 1) \cup {n} ELSE WholeTo(n - 1) BY <1>1, <1>3 DEF WholeTo
<1>6. IsFiniteSet(WholeTo(n - 1)) BY <1>1, WholeIsFinite
<1>7. Cardinality(WholeTo(n - 1) \cup {n}) = Cardinality(WholeTo(n - 1)) + 1
  BY <1>3, <1>6, FS_AddElement DEF WholeTo
<1> QED BY <1>4, <1>7 DEF NumberTo

LEMMA NumbersGrow ==
    ASSUME NEW n \in 0..Len(File), NEW m \in 0..n
    PROVE  NumberTo(m) <= NumberTo(n)
<1>2. 1..m \subseteq 1..n BY ExchangeAssumption
<1> QED BY <1>2, WholeIsFinite, FS_Subset DEF NumberTo, WholeTo

\* A line that comes later has another number.
LEMMA NumbersDiffer ==
    ASSUME NEW n \in 0..Len(File), NEW k \in WholeTo(n)
    PROVE  NumberTo(k) \in 1..NumberTo(n)
<1>1. k \in 1..Len(File) /\ k \in 0..n /\ k - 1 \in 0..Len(File) /\ k \in 0..Len(File) /\ File[k].last
  BY ExchangeAssumption DEF WholeTo
<1>3. NumberTo(k - 1) \in Nat /\ NumberTo(n) \in Nat BY <1>1, WholeIsFinite
<1>4. NumberTo(k) <= NumberTo(n) BY <1>1, NumbersGrow
<1> QED BY <1>1, NumbersGoOn, <1>3, <1>4

------------
(* The events of the lines that were fed so far. *)
LineKinds == {"metrics", "diagnostic"}
EventAt(k) == LineEvent(NumberTo(k), File[k].line)
LastEvent == LineEvent(NumberTo(Len(File)) + 1, File[Len(File)].line)
EventsTo(h, all) == {EventAt(k) : k \in WholeTo(h)} \cup (IF all THEN {LastEvent} ELSE {})
LinesTo(h, all) == IF all THEN WithLine(WholeLines[h], File[h].line) ELSE WholeLines[h]

\* A line's event is known by its line, or by its number and line.
LEMMA EventOfLine ==
    ASSUME NEW n, NEW l
    PROVE  /\ LineEvent(n, l) = [id |-> LineEvent(n, l).id, body |-> LineEvent(n, l).body]
           /\ LineEvent(n, l).id[3] = l /\ LineEvent(n, l).id[1] # "cloud"
           /\ LineEvent(n, l).body.kind \in LineKinds
           /\ LineEvent(n, l).body.kind = "metrics" => l \notin Invalid
           /\ l \notin Invalid => \A m : LineEvent(m, l) = LineEvent(n, l)
           /\ l \notin Invalid => LineEvent(n, l).body.kind = "metrics" /\ LineEvent(n, l).body.name = l
           /\ \A m, k : LineEvent(n, l).id = LineEvent(m, k).id => LineEvent(n, l) = LineEvent(m, k) /\ l = k
           /\ \A m, k : l \in Invalid /\ LineEvent(n, l).id = LineEvent(m, k).id => m = n
<1>1. CASE l \in Invalid
 <2>1. LineEvent(n, l) = [id |-> <<"invalid", n, l>>, body |-> [kind |-> "diagnostic", name |-> Nobody, value |-> 0]]
   BY <1>1 DEF LineEvent
 <2>2. ASSUME NEW m, NEW k, LineEvent(n, l).id = LineEvent(m, k).id
       PROVE  LineEvent(n, l) = LineEvent(m, k) /\ l = k /\ m = n
  <3>2. LineEvent(m, k) = [id |-> <<"invalid", m, k>>, body |-> [kind |-> "diagnostic", name |-> Nobody, value |-> 0]]
    BY <2>1, <2>2 DEF LineEvent
  <3>4. n = m /\ l = k BY <2>1, <2>2, <3>2
  <3> QED BY <2>1, <3>2, <3>4
 <2> QED BY <1>1, <2>1, <2>2 DEF LineKinds
<1>2. CASE l \notin Invalid
 <2>1. \A m : LineEvent(m, l) = [id |-> <<"archive", 0, l>>, body |-> [kind |-> "metrics", name |-> l, value |-> 0]]
   BY <1>2 DEF LineEvent
 <2>2. ASSUME NEW m, NEW k, LineEvent(n, l).id = LineEvent(m, k).id
       PROVE  LineEvent(n, l) = LineEvent(m, k) /\ l = k
  <3>2. LineEvent(m, k) = [id |-> <<"archive", 0, k>>, body |-> [kind |-> "metrics", name |-> k, value |-> 0]]
    BY <2>1, <2>2 DEF LineEvent
  <3>4. l = k BY <2>1, <2>2, <3>2
  <3> QED BY <2>1, <3>2, <3>4
 <2> QED BY <1>2, <2>1, <2>2 DEF LineKinds
<1> QED BY <1>1, <1>2

LEMMA LineIsKnown ==
    ASSUME NEW h \in 0..Len(File), NEW l
    PROVE  (\E k \in WholeTo(h) : EventAt(k).id = LineEvent(NumberTo(h) + 1, l).id)
             <=> l \in ToSet(WholeLines[h]) \ Invalid
<1>2. CASE l \in Invalid
 <2>1. ASSUME NEW k \in WholeTo(h), EventAt(k).id = LineEvent(NumberTo(h) + 1, l).id PROVE FALSE
  <3>2. NumberTo(k) \in 1..NumberTo(h) /\ NumberTo(h) \in Nat BY NumbersDiffer, WholeIsFinite
  <3> QED BY <1>2, <2>1, EventOfLine, <3>2 DEF EventAt
 <2> QED BY <1>2, <2>1
<1>3. CASE l \notin Invalid
 <2>1. ASSUME NEW k \in WholeTo(h) PROVE EventAt(k).id = LineEvent(NumberTo(h) + 1, l).id <=> File[k].line = l
  <3>1. ASSUME EventAt(k).id = LineEvent(NumberTo(h) + 1, l).id PROVE File[k].line = l
    BY <3>1, EventOfLine DEF EventAt
  <3>2. ASSUME File[k].line = l PROVE EventAt(k).id = LineEvent(NumberTo(h) + 1, l).id
   <4> QED BY <3>2, <1>3, EventOfLine DEF EventAt
  <3> QED BY <3>1, <3>2
 <2> QED BY LinesAreOK, <1>3, <2>1 DEF LinesOK
<1> QED BY <1>2, <1>3

------------
(* The inductive invariant. *)
Packets ==
    [sequence : Nat \ {0}, page : [start : Nat, next : Nat, complete : BOOLEAN],
     phase : {"running", "finished", "killed"}]
Importers == [chunk : {<<>>} \cup {<<l>> : l \in FileLines}, number : Nat]
ImporterAt(n) ==
    [chunk |-> IF n = 0 \/ File[n].last THEN <<>> ELSE <<File[n].line>>, number |-> NumberTo(n)]
Receipts == [at : {"feed", "lifecycle", "save"}, packet : Packets, fed : Nat, importer : Importers]
RowOf(e) == [id |-> e.id, body |-> e.body, batch |-> Nobody]

FileOK ==
    /\ written \in 0..Len(File) /\ process \in {"running", "finished", "killed"}
    /\ process = "finished" => written \in {0, Len(File)} \/ File[written].last

PacketOK(p) ==
    /\ p \in Packets
    /\ p.page.start <= p.page.next /\ p.page.next <= written
    /\ p.page.complete => process = "finished" /\ p.page.next = written

WorkerOK ==
    /\ wstate \in [sequence : Nat, cursor : Nat, complete : BOOLEAN, pending : Packets \cup {NoPacket}]
    /\ wstate.cursor <= written
    /\ wstate.pending # NoPacket => PacketOK(wstate.pending) /\ wstate.pending.sequence = wstate.sequence + 1
    /\ \A p \in requests :
          /\ PacketOK(p) /\ p.sequence <= wstate.sequence + 1
          /\ p.sequence = wstate.sequence + 1 => p = wstate.pending

ServerOK ==
    /\ sstate \in [sequence : Nat, packet : Packets \cup {NoPacket}, cursor : Nat,
                   importer : Importers, complete : BOOLEAN]
    /\ sstate.cursor <= written /\ sstate.importer = ImporterAt(sstate.cursor)
    /\ IF sstate.sequence = 0 THEN sstate.packet = NoPacket
       ELSE /\ sstate.packet \in requests /\ sstate.packet.sequence = sstate.sequence
            /\ sstate.packet.page.next = sstate.cursor
    /\ \A p \in answers : p \in requests /\ p.sequence <= sstate.sequence
    /\ wstate.sequence = sstate.sequence => wstate.cursor = sstate.cursor

ReceivingOK ==
    receiving # NotReceiving =>
      /\ receiving \in Receipts
      /\ receiving.packet \in requests
      /\ receiving.packet.sequence = sstate.sequence + 1
      /\ receiving.packet.page.start = sstate.cursor
      /\ receiving.fed \in receiving.packet.page.start..receiving.packet.page.next
      /\ receiving.at # "feed" => receiving.fed = receiving.packet.page.next
      /\ receiving.importer = ImporterAt(receiving.fed)

EventsOK ==
    /\ \A e \in eventIds :
          /\ e = [id |-> e.id, body |-> e.body]
          /\ e.body.kind \notin LineKinds => e.id[1] = "cloud" /\ e.body.kind \in {"lifecycle", "ended"}
    /\ journal \in Seq({RowOf(e) : e \in eventIds})

(* As far as the server ever fed, the journal has the lines of the file,
   whatever became of its state since; it says it is drained only when
   that is the whole file. *)
HasTail(h) == h > 0 /\ h = Len(File) /\ ~File[h].last
AllTold(h, all) == process = "finished" /\ h = written /\ (HasTail(h) => all)
SaysEnded(rows) == \E n \in 1..Len(rows) : rows[n].body.kind = "ended"
LineEventsOf(ids) == {e \in ids : e.body.kind \in LineKinds}
FedTo(h, all) ==
    /\ all => HasTail(h) /\ process = "finished"
    /\ Told = LinesTo(h, all)
    /\ LineEventsOf(eventIds) = EventsTo(h, all)
    /\ sstate.cursor <= h
    /\ receiving # NotReceiving => receiving.fed <= h
    /\ (receiving # NotReceiving /\ receiving.at # "feed" /\ receiving.packet.page.complete) => AllTold(h, all)
    /\ SaysEnded(journal) => AllTold(h, all)
FedOK == \E h \in 0..written, all \in BOOLEAN : FedTo(h, all)

ExchangeInv ==
    /\ FileOK /\ WorkerOK /\ ServerOK /\ ReceivingOK /\ EventsOK /\ FedOK /\ OnePacketApart

LEMMA ExchangeBegins == JournalInit /\ ExchangeInit => ExchangeInv
<1> SUFFICES ASSUME JournalInit, ExchangeInit PROVE ExchangeInv OBVIOUS
<1> USE DEF JournalInit, ExchangeInit
<1>1. Len(File) \in Nat /\ 0 \in 0..Len(File) BY ExchangeAssumption
<1>2. FileOK BY <1>1 DEF FileOK
<1>3. WorkerOK BY <1>1 DEF WorkerOK, NoPacket
<1>4. WholeTo(0) = {} BY DEF WholeTo
<1>5. NumberTo(0) = 0 BY <1>4, FS_EmptySet DEF NumberTo
<1>6. ServerOK BY <1>1, <1>5 DEF ServerOK, NoPacket, NewImporter, ImporterAt, Importers
<1>7. ReceivingOK BY DEF ReceivingOK
<1>8. Told = <<>> BY ToldByNothing DEF Told
<1>9. EventsOK
 <2> QED BY DEF EventsOK
<1>10. FedTo(0, FALSE)
 <2>1. LinesTo(0, FALSE) = <<>> BY LinesFollowUnits DEF LinesTo
 <2>2. EventsTo(0, FALSE) = {} BY <1>4 DEF EventsTo
 <2>4. sstate.cursor <= 0 /\ ~(receiving # NotReceiving) OBVIOUS
 <2>5. ~SaysEnded(journal) BY DEF SaysEnded
 <2> QED BY <1>8, <2>1, <2>2, <2>4, <2>5 DEF FedTo, LineEventsOf
<1>11. FedOK
 <2>1. 0 \in 0..written /\ FALSE \in BOOLEAN OBVIOUS
 <2> QED BY <1>10, <2>1 DEF FedOK
<1>12. OnePacketApart BY DEF OnePacketApart
<1> QED BY <1>2, <1>3, <1>6, <1>7, <1>9, <1>11, <1>12 DEF ExchangeInv

------------
(* What one event does to the journal. *)
LEMMA OneIngested ==
    ASSUME NEW e, Ingest(<<e>>)
    PROVE  /\ (\E i \in eventIds : i.id = e.id) => e \in eventIds /\ journal' = journal /\ eventIds' = eventIds
           /\ (~\E i \in eventIds : i.id = e.id) =>
                 /\ eventIds' = eventIds \cup {e}
                 /\ journal' = IF \E r \in ToSet(journal) : r.batch = Nobody /\ Metric(r) /\ r.body = e.body
                                 THEN journal ELSE Append(journal, RowOf(e))
<1> DEFINE db == [rows |-> journal, ids |-> eventIds, conflict |-> FALSE]
           after == AppendOne(db, e)
<1>1. Appended(<<e>>) = after
 <2> QED BY AppendedIsOne DEF Appended
<1>2. ~after.conflict /\ journal' = after.rows /\ eventIds' = after.ids
 <2> HIDE DEF after
 <2> QED BY <1>1 DEF Ingest
<1>3. CASE \E i \in eventIds : i.id = e.id
 <2>2. after.rows = journal /\ after.ids = eventIds /\ (after.conflict <=> e \notin eventIds)
   BY <1>3 DEF AppendOne
 <2> HIDE DEF after
 <2> QED BY <1>2, <1>3, <2>2
<1>4. CASE ~\E i \in eventIds : i.id = e.id
 <2>1. after.ids = eventIds \cup {e}
       /\ after.rows = IF \E r \in ToSet(journal) : r.batch = Nobody /\ Metric(r) /\ r.body = e.body
                         THEN journal ELSE Append(journal, RowOf(e))
   BY <1>4 DEF AppendOne, RowOf
 <2> HIDE DEF after
 <2> QED BY <1>2, <1>4, <2>1
<1> QED BY <1>3, <1>4

LEMMA SeqsGrow ==
    ASSUME NEW S, NEW T, S \subseteq T, NEW s \in Seq(S)
    PROVE  s \in Seq(T)
  OBVIOUS

\* An event that comes for the first time, and whose row is added.
LEMMA RowIsAdded ==
    ASSUME NEW e, EventsOK, eventIds' = eventIds \cup {e}, journal' = Append(journal, RowOf(e)),
           e = [id |-> e.id, body |-> e.body],
           e.body.kind \notin LineKinds => e.id[1] = "cloud" /\ e.body.kind \in {"lifecycle", "ended"}
    PROVE  /\ EventsOK'
           /\ Told' = IF e.body.kind \in LineKinds THEN Append(Told, e.id[3]) ELSE Told
           /\ SaysEnded(journal)' => SaysEnded(journal) \/ e.body.kind = "ended"
<1> DEFINE S == {RowOf(i) : i \in eventIds}
           T == {RowOf(i) : i \in eventIds \cup {e}}
<1>1. journal \in Seq(T) /\ RowOf(e) \in T
 <2>1. S \subseteq T OBVIOUS
 <2>2. journal \in Seq(S) BY DEF EventsOK
 <2> HIDE DEF S, T
 <2>3. journal \in Seq(T) BY <2>1, <2>2, SeqsGrow
 <2> QED BY <2>3 DEF T
<1>2. RowOf(e).body = e.body /\ RowOf(e).id = e.id BY DEF RowOf
<1> HIDE DEF S, T
<1>4. EventsOK'
 <2>2. journal' \in Seq({RowOf(i) : i \in eventIds'}) BY <1>1 DEF T
 <2> QED BY <2>2 DEF EventsOK
<1>5. Told' = IF e.body.kind \in LineKinds THEN Append(Told, e.id[3]) ELSE Told
 <2> QED BY <1>2, <1>1, ToldFollowsRows DEF Told, LineKinds
<1>6. SaysEnded(journal)' => SaysEnded(journal) \/ e.body.kind = "ended"
 <2>2. \A n \in 1..(Len(journal) + 1) : n \in 1..Len(journal) \/ n = Len(journal) + 1 BY <1>1
 <2>3. ASSUME NEW n \in 1..Len(journal'), journal'[n].body.kind = "ended"
       PROVE  SaysEnded(journal) \/ e.body.kind = "ended" BY <1>2, <1>1, <2>2, <2>3 DEF SaysEnded
 <2> QED BY <2>3 DEF SaysEnded
<1> QED BY <1>4, <1>5, <1>6

\* The same, when nothing of it changes.
LEMMA RowsAreKept ==
    ASSUME EventsOK, journal' = journal, eventIds' = eventIds
    PROVE  EventsOK' /\ Told' = Told /\ (SaysEnded(journal)' <=> SaysEnded(journal))
           /\ LineEventsOf(eventIds)' = LineEventsOf(eventIds)
  BY DEF EventsOK, Told, SaysEnded, LineEventsOf

LEMMA LineIngested ==
    ASSUME NEW h \in 0..Len(File), NEW l, EventsOK, Told = WholeLines[h],
           LineEventsOf(eventIds) = EventsTo(h, FALSE),
           Ingest(<<LineEvent(NumberTo(h) + 1, l)>>)
    PROVE  /\ EventsOK' /\ Told' = WithLine(Told, l)
           /\ LineEventsOf(eventIds)' = EventsTo(h, FALSE) \cup {LineEvent(NumberTo(h) + 1, l)}
           /\ SaysEnded(journal)' => SaysEnded(journal)
<1> DEFINE e == LineEvent(NumberTo(h) + 1, l)
<1>1. /\ e = [id |-> e.id, body |-> e.body] /\ e.id[3] = l /\ e.id[1] # "cloud" /\ e.body.kind \in LineKinds
      /\ e.body.kind = "metrics" => l \notin Invalid
  BY EventOfLine
<1>3. \A i \in eventIds : i.body.kind \in LineKinds <=> \E k \in WholeTo(h) : i = EventAt(k)
  BY DEF LineEventsOf, EventsTo
<1>4. \A k \in WholeTo(h) : EventAt(k) \in eventIds BY DEF LineEventsOf, EventsTo
<1>5. (\E i \in eventIds : i.id = e.id) <=> l \in ToSet(Told) \ Invalid
 <2>1. (\E k \in WholeTo(h) : EventAt(k).id = e.id) <=> l \in ToSet(WholeLines[h]) \ Invalid BY LineIsKnown
 <2> HIDE DEF e
 <2>2. (\E i \in eventIds : i.id = e.id) <=> \E k \in WholeTo(h) : EventAt(k).id = e.id
   BY <1>1, <1>3, <1>4 DEF EventsOK
 <2> QED BY <2>1, <2>2
<1>6. CASE \E i \in eventIds : i.id = e.id
 <2>1. e \in eventIds /\ journal' = journal /\ eventIds' = eventIds
  <3> HIDE DEF e
  <3> QED BY <1>6, OneIngested DEF e
 <2>2. WithLine(Told, l) = Told
  <3> HIDE DEF e
  <3> QED BY <1>5, <1>6 DEF WithLine
 <2>3. e \in EventsTo(h, FALSE)
  <3> HIDE DEF e
  <3> QED BY <1>1, <2>1 DEF LineEventsOf
 <2> QED BY <2>1, <2>2, <2>3, RowsAreKept
<1>7. CASE ~\E i \in eventIds : i.id = e.id
 <2>1. ~\E r \in ToSet(journal) : r.batch = Nobody /\ Metric(r) /\ r.body = e.body
  <3> SUFFICES ASSUME NEW r \in ToSet(journal), Metric(r), r.body = e.body PROVE FALSE OBVIOUS
  <3>1. r \in {RowOf(i) : i \in eventIds}
   <4>1. journal \in Seq({RowOf(i) : i \in eventIds}) BY DEF EventsOK
   <4>2. PICK n \in DOMAIN journal : r = journal[n] BY DEF ToSet
   <4> HIDE DEF e
   <4> QED BY <4>1, <4>2
  <3>2. PICK i \in eventIds : r = RowOf(i) BY <3>1
  <3>3. i.body = e.body /\ e.body.kind = "metrics"
   <4> HIDE DEF e
   <4> QED BY <3>2 DEF RowOf, Metric
  <3>4. PICK k \in WholeTo(h) : i = EventAt(k)
   <4> HIDE DEF e
   <4> QED BY <1>3, <3>3 DEF LineKinds
  <3>5. l \notin Invalid /\ File[k].line \notin Invalid /\ e.body.name = l /\ i.body.name = File[k].line
   <4>2. File[k].line \notin Invalid => i.body.name = File[k].line BY <3>4, EventOfLine DEF EventAt
   <4>3. l \notin Invalid BY <1>1, <3>3
   <4>4. e.body.name = l BY <4>3, EventOfLine
   <4> HIDE DEF e
   <4> QED BY <3>3, <3>4, EventOfLine, <4>2, <4>3, <4>4 DEF EventAt
  <3>6. File[k].line = l
   <4> HIDE DEF e
   <4> QED BY <3>3, <3>5
  <3>7. i = e
   <4>2. LineEvent(NumberTo(k), l) = e BY <3>5, EventOfLine
   <4> HIDE DEF e
   <4> QED BY <3>4, <3>6, <4>2 DEF EventAt
  <3> HIDE DEF e
  <3> QED BY <1>7, <3>2, <3>7
 <2>2. eventIds' = eventIds \cup {e} /\ journal' = Append(journal, RowOf(e))
  <3> HIDE DEF e
  <3> QED BY <1>7, <2>1, OneIngested DEF e
 <2> HIDE DEF e
 <2>4. EventsOK' /\ Told' = Append(Told, l) /\ (SaysEnded(journal)' => SaysEnded(journal) \/ e.body.kind = "ended")
   BY <1>1, <2>2, RowIsAdded
 <2>5. LineEventsOf(eventIds)' = LineEventsOf(eventIds) \cup {e} BY <1>1, <2>2 DEF LineEventsOf
 <2>6. e.body.kind # "ended" BY <1>1 DEF LineKinds
 <2> QED BY <1>5, <1>7, <2>4, <2>5, <2>6 DEF e, WithLine
<1> QED BY <1>6, <1>7

LEMMA LifecycleIngested ==
    ASSUME NEW n, NEW kind \in {"lifecycle", "ended"}, NEW value, EventsOK,
           Ingest(<<[id |-> <<"cloud", n, Nobody>>, body |-> [kind |-> kind, name |-> Nobody, value |-> value]]>>)
    PROVE  /\ EventsOK' /\ Told' = Told
           /\ LineEventsOf(eventIds)' = LineEventsOf(eventIds)
           /\ SaysEnded(journal)' => SaysEnded(journal) \/ kind = "ended"
<1> DEFINE e == [id |-> <<"cloud", n, Nobody>>, body |-> [kind |-> kind, name |-> Nobody, value |-> value]]
<1>1. /\ e = [id |-> e.id, body |-> e.body] /\ e.id[1] = "cloud" /\ e.body.kind = kind
      /\ e.body.kind \notin LineKinds /\ e.body.kind # "metrics"
  BY DEF LineKinds
<1>2. Ingest(<<e>>) OBVIOUS
<1> HIDE DEF e
<1>3. CASE \E i \in eventIds : i.id = e.id
 <2> QED BY <1>2, <1>3, OneIngested, RowsAreKept
<1>4. CASE ~\E i \in eventIds : i.id = e.id
 <2>2. eventIds' = eventIds \cup {e} /\ journal' = Append(journal, RowOf(e))
   BY <1>2, <1>4, <1>1, OneIngested DEF Metric
 <2>4. LineEventsOf(eventIds)' = LineEventsOf(eventIds) BY <1>1, <2>2 DEF LineEventsOf
 <2> QED BY <1>1, <2>2, RowIsAdded, <2>4
<1> QED BY <1>3, <1>4

------------
(* What a step leaves alone. *)
LEMMA FileKept == FileOK /\ UNCHANGED <<written, process>> => FileOK'
  BY DEF FileOK
LEMMA WorkerKept == WorkerOK /\ UNCHANGED <<wstate, requests, written, process>> => WorkerOK'
  BY DEF WorkerOK, PacketOK
LEMMA ServerKept == ServerOK /\ UNCHANGED <<sstate, requests, answers, wstate, written>> => ServerOK'
  BY DEF ServerOK
LEMMA ReceivingKept == ReceivingOK /\ UNCHANGED <<receiving, requests, sstate>> => ReceivingOK'
  BY DEF ReceivingOK
LEMMA EventsKept == EventsOK /\ UNCHANGED <<journal, eventIds>> => EventsOK'
  BY DEF EventsOK
LEMMA ApartKept == OnePacketApart /\ UNCHANGED <<wstate, sstate>> => OnePacketApart'
  BY DEF OnePacketApart
LEMMA FedKept ==
    FedOK /\ UNCHANGED <<journal, eventIds, process, written, receiving>> /\ sstate'.cursor = sstate.cursor => FedOK'
<1> SUFFICES ASSUME FedOK, UNCHANGED <<journal, eventIds, process, written, receiving>>, sstate'.cursor = sstate.cursor
             PROVE  FedOK'
  OBVIOUS
<1>1. PICK h \in 0..written, all \in BOOLEAN : FedTo(h, all) BY DEF FedOK
<1>3. FedTo(h, all)' BY <1>1 DEF FedTo, AllTold, Told
<1> QED BY <1>3 DEF FedOK

LEMMA NothingMoves ==
    ASSUME ExchangeInv, UNCHANGED <<journal, eventIds, written, process, wstate, requests, answers, sstate, receiving>>
    PROVE  ExchangeInv'
<1>2. ReceivingOK' /\ EventsOK' /\ FedOK' /\ OnePacketApart'
  BY ReceivingKept, EventsKept, FedKept, ApartKept DEF ExchangeInv
<1> QED BY FileKept, WorkerKept, ServerKept, <1>2 DEF ExchangeInv

\* Who drains the file is nothing the records depend on.
LEMMA SenderStep == ExchangeInv /\ (SenderLeaves \/ Synchronize) => ExchangeInv'
  BY NothingMoves DEF SenderLeaves, Synchronize, journalVars

LEMMA ScopeStep == ExchangeInv /\ ScopeMovesOn => ExchangeInv'
  BY NothingMoves DEF ScopeMovesOn, Bind, OpenScope, ProviderEnds, Mark, exchangeVars

------------
(* The Worker. *)
LEMMA NoneIsComplete ==
    ASSUME FileOK, WorkerOK, FedOK, process = "running"
    PROVE  /\ wstate.pending # NoPacket => ~wstate.pending.page.complete
           /\ \A p \in requests : ~p.page.complete
           /\ \E h \in 0..written : FedTo(h, FALSE) /\ ~SaysEnded(journal)
<1>2. PICK h \in 0..written, all \in BOOLEAN : FedTo(h, all) BY DEF FedOK
<1>3. ~all /\ ~SaysEnded(journal) BY <1>2 DEF FedTo, AllTold
<1>5. FedTo(h, FALSE) BY <1>2, <1>3
<1> QED BY <1>3, <1>5 DEF WorkerOK, PacketOK

\* The file grows, or its process ends.
LEMMA FileMoves ==
    ASSUME ExchangeInv, process = "running", FileOK', written' \in {written, written + 1},
           UNCHANGED <<journal, eventIds, wstate, requests, answers, sstate, receiving, faults>>
    PROVE  ExchangeInv'
<1>1. written \in Nat /\ written' \in Nat /\ written <= written' BY ExchangeAssumption DEF ExchangeInv, FileOK
<1>2. FileOK /\ WorkerOK /\ FedOK /\ ServerOK BY DEF ExchangeInv
<1>3. WorkerOK'
 <2>1. \A p : PacketOK(p) /\ ~p.page.complete => PacketOK(p)'
   BY <1>1 DEF PacketOK, Packets
 <2>3. \A p \in requests : PacketOK(p)' BY <1>2, <2>1, NoneIsComplete DEF WorkerOK
 <2>4. wstate.cursor <= written'
  <3> QED BY <1>1, <1>2 DEF WorkerOK
 <2> QED BY <1>2, <2>1, NoneIsComplete, <2>3, <2>4 DEF WorkerOK
<1>4. ServerOK'
 <2>2. sstate.cursor <= written' BY <1>1, <1>2 DEF ServerOK
 <2> QED BY <1>2, <2>2 DEF ServerOK
<1>6. FedOK'
 <2>1. PICK h \in 0..written : FedTo(h, FALSE) /\ ~SaysEnded(journal) BY <1>2, NoneIsComplete
 <2>3. Told' = Told BY DEF Told
 <2>4. FedTo(h, FALSE)' BY <2>1, <1>2, NoneIsComplete, <2>3 DEF FedTo, ExchangeInv, ReceivingOK
 <2>5. h \in 0..written' BY <1>1
 <2> QED BY <2>4, <2>5 DEF FedOK
<1> QED BY <1>3, <1>4, ReceivingKept, EventsKept, ApartKept, <1>6 DEF ExchangeInv

LEMMA WriteStep == ExchangeInv /\ Write => ExchangeInv'
<1> SUFFICES ASSUME ExchangeInv, Write PROVE ExchangeInv' OBVIOUS
<1> QED BY ExchangeAssumption, FileMoves DEF Write, journalVars, FileOK, ExchangeInv

LEMMA EndStep == ExchangeInv /\ EndProcess => ExchangeInv'
<1> SUFFICES ASSUME ExchangeInv, EndProcess PROVE ExchangeInv' OBVIOUS
<1> QED BY FileMoves DEF EndProcess, journalVars, FileOK, ExchangeInv

LEMMA PagesAreOK ==
    ASSUME NEW cursor \in Nat, cursor <= written, FileOK
    PROVE  /\ PageEnd(cursor) \in Nat /\ cursor <= PageEnd(cursor) /\ PageEnd(cursor) <= written
           /\ PacketOK([sequence |-> wstate.sequence + 1, page |-> PageFrom(cursor), phase |-> process])
                \/ wstate.sequence \notin Nat
<1>2. PageEnd(cursor) \in Nat /\ cursor <= PageEnd(cursor) /\ PageEnd(cursor) <= written
  BY ExchangeAssumption DEF PageEnd, FileOK
<1>3. ASSUME wstate.sequence \in Nat
      PROVE  PacketOK([sequence |-> wstate.sequence + 1, page |-> PageFrom(cursor), phase |-> process])
 <2>1. wstate.sequence + 1 \in Nat \ {0} BY <1>3
 <2>2. PageFrom(cursor) \in [start : Nat, next : Nat, complete : BOOLEAN]
   BY <1>2 DEF PageFrom
 <2>3. process \in {"running", "finished", "killed"} BY DEF FileOK
 <2> QED BY <1>2, <2>1, <2>2, <2>3 DEF PacketOK, Packets, PageFrom
<1> QED BY <1>2, <1>3

LEMMA NotNoPacket == \A p \in Packets : p # NoPacket
  BY DEF Packets, NoPacket

\* The saved packet is a real one as soon as something was saved.
LEMMA SavedPacket ==
    ASSUME ServerOK, WorkerOK, sstate.sequence # 0
    PROVE  sstate.packet \in requests /\ sstate.packet \in Packets /\ sstate.packet # NoPacket
  BY NotNoPacket DEF ServerOK, WorkerOK, PacketOK

LEMMA BuildStep == ExchangeInv /\ BuildPacket => ExchangeInv'
<1> SUFFICES ASSUME ExchangeInv, BuildPacket PROVE ExchangeInv' OBVIOUS
<1>1. FileOK /\ WorkerOK /\ ServerOK /\ OnePacketApart BY DEF ExchangeInv
<1> DEFINE p == [sequence |-> wstate.sequence + 1, page |-> PageFrom(wstate.cursor), phase |-> process]
<1>2. wstate \in [sequence : Nat, cursor : Nat, complete : BOOLEAN, pending : Packets \cup {NoPacket}]
      /\ wstate.cursor <= written /\ wstate.pending = NoPacket
  BY <1>1 DEF WorkerOK, BuildPacket
<1>3. PacketOK(p) /\ p.sequence = wstate.sequence + 1 BY <1>1, <1>2, PagesAreOK
<1>4. wstate' = [wstate EXCEPT !.pending = p] BY DEF BuildPacket
<1> HIDE DEF p
<1>5. p \in Packets BY <1>3 DEF PacketOK
<1>6. wstate' \in [sequence : Nat, cursor : Nat, complete : BOOLEAN, pending : Packets \cup {NoPacket}]
      /\ wstate'.sequence = wstate.sequence /\ wstate'.cursor = wstate.cursor /\ wstate'.pending = p
  BY <1>2, <1>4, <1>5
<1>7. UNCHANGED <<written, process, requests, answers, sstate, receiving, journal, eventIds>>
  BY DEF BuildPacket, journalVars
<1>8. \A q \in requests : q.sequence # wstate.sequence + 1
 <2> SUFFICES ASSUME NEW q \in requests, q.sequence = wstate.sequence + 1 PROVE FALSE OBVIOUS
 <2>2. q \in Packets BY <1>1 DEF WorkerOK, PacketOK
 <2> QED BY <1>1, <1>2, <2>2, NotNoPacket DEF WorkerOK
<1>9. WorkerOK'
 <2>1. \A q : PacketOK(q) => PacketOK(q)' BY <1>7 DEF PacketOK
 <2> QED BY <1>1, <1>2, <1>3, <1>6, <1>7, <1>8, <2>1 DEF WorkerOK
<1>10. ServerOK' BY <1>1, <1>6, <1>7 DEF ServerOK
<1>11. OnePacketApart'
 <2>1. sstate.sequence # wstate.sequence + 1
  <3> SUFFICES ASSUME sstate.sequence = wstate.sequence + 1 PROVE FALSE OBVIOUS
  <3>2. sstate.sequence # 0 BY <1>2
  <3> QED BY <1>1, <1>2, <3>2, SavedPacket DEF ExchangeInv, OnePacketApart
 <2> QED BY <1>1, <1>6, <1>7, <2>1 DEF OnePacketApart
<1>12. FileOK' /\ ReceivingOK' /\ EventsOK' /\ FedOK'
  BY <1>7, FileKept, ReceivingKept, EventsKept, FedKept DEF ExchangeInv
<1> QED BY <1>9, <1>10, <1>11, <1>12 DEF ExchangeInv

LEMMA SendStep == ExchangeInv /\ SendPacket => ExchangeInv'
<1> SUFFICES ASSUME ExchangeInv, SendPacket PROVE ExchangeInv' OBVIOUS
<1>1. FileOK /\ WorkerOK /\ ServerOK /\ ReceivingOK BY DEF ExchangeInv
<1>2. requests' = requests \cup {wstate.pending} /\ wstate.pending # NoPacket
      /\ UNCHANGED <<written, process, wstate, answers, sstate, receiving, journal, eventIds>>
  BY DEF SendPacket, journalVars
<1>3. WorkerOK'
 <2>2. wstate.pending.sequence <= wstate.sequence + 1 BY <1>1, <1>2 DEF WorkerOK
 <2> QED BY <1>1, <1>2, <2>2 DEF WorkerOK, PacketOK
<1>5. ReceivingOK' BY <1>1, <1>2 DEF ReceivingOK
<1>6. FileOK' /\ EventsOK' /\ FedOK' /\ OnePacketApart'
  BY <1>2, FileKept, EventsKept, FedKept, ApartKept DEF ExchangeInv
<1> QED BY <1>3, <1>1, <1>2, <1>5, <1>6 DEF ExchangeInv, ServerOK

LEMMA AcknowledgedStep == ExchangeInv /\ Acknowledged => ExchangeInv'
<1> SUFFICES ASSUME ExchangeInv, Acknowledged PROVE ExchangeInv' OBVIOUS
<1>1. FileOK /\ WorkerOK /\ ServerOK /\ OnePacketApart BY DEF ExchangeInv
<1> DEFINE p == wstate.pending
<1>2. p # NoPacket /\ p \in answers
      /\ wstate' = [sequence |-> p.sequence, cursor |-> p.page.next, complete |-> p.page.complete, pending |-> NoPacket]
      /\ UNCHANGED <<written, process, requests, answers, sstate, receiving, journal, eventIds>>
  BY DEF Acknowledged, journalVars
<1>3. wstate.sequence \in Nat /\ sstate.sequence \in Nat /\ PacketOK(p) /\ p.sequence = wstate.sequence + 1
  BY <1>1, <1>2 DEF WorkerOK, ServerOK
<1>5. sstate.sequence = wstate.sequence + 1
 <2>1. sstate.sequence <= wstate.sequence + 1 BY <1>1 DEF OnePacketApart
 <2> QED BY <1>3, <1>1, <1>2, <2>1 DEF ServerOK
<1>7. p.page.next = sstate.cursor
 <2>1. sstate.sequence # 0 BY <1>3, <1>5
 <2> QED BY <1>1, <1>5, <2>1 DEF ServerOK, OnePacketApart
<1> HIDE DEF p
<1>9. wstate' \in [sequence : Nat, cursor : Nat, complete : BOOLEAN, pending : Packets \cup {NoPacket}]
      /\ wstate'.sequence = sstate.sequence /\ wstate'.cursor = sstate.cursor /\ wstate'.pending = NoPacket
  BY <1>2, <1>3, <1>5, <1>7 DEF PacketOK, Packets
<1>10. WorkerOK'
 <2>2. \A q \in requests : q.sequence \in Nat /\ q.sequence <= wstate'.sequence
  <3> QED BY <1>3, <1>5, <1>9, <1>1 DEF Packets, WorkerOK, PacketOK
 <2>3. \A q \in requests : q.sequence <= wstate'.sequence + 1 /\ q.sequence # wstate'.sequence + 1
   BY <1>3, <1>9, <2>2
 <2>4. wstate'.cursor <= written BY <1>1, <1>9 DEF ServerOK
 <2> QED BY <1>1, <1>2, <1>9, <2>3, <2>4 DEF WorkerOK, PacketOK
<1>11. ServerOK' BY <1>1, <1>2, <1>9 DEF ServerOK
<1>12. OnePacketApart'
 <2>2. /\ wstate'.sequence <= sstate.sequence /\ sstate.sequence <= wstate'.sequence + 1
       /\ wstate'.cursor <= sstate.cursor /\ sstate.sequence # wstate'.sequence + 1
   BY <1>3, <1>9, <1>1 DEF ServerOK
 <2> QED BY <1>2, <2>2 DEF OnePacketApart
<1>13. FileOK' /\ ReceivingOK' /\ EventsOK' /\ FedOK'
  BY <1>2, FileKept, ReceivingKept, EventsKept, FedKept DEF ExchangeInv
<1> QED BY <1>10, <1>11, <1>12, <1>13 DEF ExchangeInv

------------
(* The server. *)
LEMMA AnswersMove ==
    ASSUME ExchangeInv, answers' \subseteq answers \cup {sstate.packet},
           answers' \subseteq answers \/ (sstate.packet # NoPacket),
           UNCHANGED <<journal, eventIds, written, process, wstate, requests, sstate, receiving>>
    PROVE  ExchangeInv'
<1>1. ServerOK /\ WorkerOK BY DEF ExchangeInv
<1>2. ServerOK'
 <2>2. \A p \in answers' : p \in requests /\ p.sequence <= sstate.sequence BY <1>1 DEF ServerOK
 <2> QED BY <1>1, <2>2 DEF ServerOK
<1>3. FileOK' /\ WorkerOK' /\ ReceivingOK' /\ EventsOK' /\ FedOK' /\ OnePacketApart'
  BY FileKept, WorkerKept, ReceivingKept, EventsKept, FedKept, ApartKept DEF ExchangeInv
<1> QED BY <1>2, <1>3 DEF ExchangeInv

LEMMA AnswerStep == ExchangeInv /\ (AnswerAgain \/ LoseAnswer) => ExchangeInv'
<1>2. ExchangeInv /\ LoseAnswer => ExchangeInv'
 <2> SUFFICES ASSUME ExchangeInv, LoseAnswer PROVE ExchangeInv' OBVIOUS
 <2> QED BY AnswersMove DEF LoseAnswer, journalVars
<1> QED BY AnswersMove, <1>2 DEF AnswerAgain, journalVars

LEMMA StopStep == ExchangeInv /\ StopReceive => ExchangeInv'
<1> SUFFICES ASSUME ExchangeInv, StopReceive PROVE ExchangeInv' OBVIOUS
<1>1. receiving' = NotReceiving /\ UNCHANGED <<journal, eventIds, written, process, wstate, requests, answers, sstate>>
  BY DEF StopReceive, journalVars
<1>3. FedOK'
 <2>1. PICK h \in 0..written, all \in BOOLEAN : FedTo(h, all) BY DEF ExchangeInv, FedOK
 <2>3. FedTo(h, all)' BY <1>1, <2>1 DEF FedTo, AllTold, Told
 <2> QED BY <1>1, <2>3 DEF FedOK
<1>4. FileOK' /\ WorkerOK' /\ ServerOK' /\ EventsOK' /\ OnePacketApart'
  BY <1>1, FileKept, WorkerKept, ServerKept, EventsKept, ApartKept DEF ExchangeInv
<1> QED BY <1>1, <1>3, <1>4 DEF ExchangeInv, ReceivingOK

LEMMA BeginStep == ExchangeInv /\ BeginReceive => ExchangeInv'
<1> SUFFICES ASSUME ExchangeInv, BeginReceive PROVE ExchangeInv' OBVIOUS
<1>1. WorkerOK /\ ServerOK BY DEF ExchangeInv
<1>2. PICK p \in requests :
        Follows(p) /\ receiving' = [at |-> "feed", packet |-> p, fed |-> p.page.start, importer |-> sstate.importer]
  BY DEF BeginReceive
<1>3. UNCHANGED <<journal, eventIds, written, process, wstate, requests, answers, sstate>>
  BY DEF BeginReceive, journalVars
<1>4. p \in Packets /\ p.page.start <= p.page.next /\ p.page.start \in Nat /\ p.page.next \in Nat
  BY <1>1 DEF WorkerOK, PacketOK, Packets
<1>5. sstate.importer \in Importers /\ sstate.importer = ImporterAt(sstate.cursor) BY <1>1 DEF ServerOK
<1>6. p.sequence = sstate.sequence + 1 /\ p.page.start = sstate.cursor BY <1>2 DEF Follows
<1>8. ReceivingOK' BY <1>2, <1>3, <1>4, <1>5, <1>6 DEF ReceivingOK, Receipts
<1>9. FedOK'
 <2>1. PICK h \in 0..written, all \in BOOLEAN : FedTo(h, all) BY DEF ExchangeInv, FedOK
 <2>3. receiving'.fed <= h /\ receiving'.at = "feed" BY <1>2, <1>6, <2>1 DEF FedTo
 <2>4. FedTo(h, all)' BY <1>3, <2>1, <2>3 DEF FedTo, AllTold, Told
 <2> QED BY <1>3, <2>4 DEF FedOK
<1>10. FileOK' /\ WorkerOK' /\ ServerOK' /\ EventsOK' /\ OnePacketApart'
  BY <1>3, FileKept, WorkerKept, ServerKept, EventsKept, ApartKept DEF ExchangeInv
<1> QED BY <1>8, <1>9, <1>10 DEF ExchangeInv

\* One unit further, in the file and in the importer.
LineEnds(c, d, number) == d = [c EXCEPT !.fed = @ + 1, !.importer = [chunk |-> <<>>, number |-> number]]
LineBegins(c, d, l) == d = [c EXCEPT !.fed = @ + 1, !.importer.chunk = <<l>>]
LEMMA ReceiptMoves ==
    ASSUME NEW c \in Receipts, NEW d, NEW number \in Nat, NEW l \in FileLines,
           LineEnds(c, d, number) \/ LineBegins(c, d, l)
    PROVE  /\ d \in Receipts /\ d.at = c.at /\ d.packet = c.packet /\ d.fed = c.fed + 1
           /\ LineEnds(c, d, number) => d.importer = [chunk |-> <<>>, number |-> number]
           /\ LineBegins(c, d, l) => d.importer = [chunk |-> <<l>>, number |-> c.importer.number]
<1>1. c.importer \in Importers /\ c.fed + 1 \in Nat BY DEF Receipts
<1>2. ASSUME LineEnds(c, d, number)
      PROVE  d \in Receipts /\ d.at = c.at /\ d.packet = c.packet /\ d.fed = c.fed + 1
             /\ d.importer = [chunk |-> <<>>, number |-> number]
 <2> QED BY <1>1, <1>2 DEF Receipts, LineEnds, Importers
<1>3. ASSUME LineBegins(c, d, l)
      PROVE  d \in Receipts /\ d.at = c.at /\ d.packet = c.packet /\ d.fed = c.fed + 1
             /\ d.importer = [chunk |-> <<l>>, number |-> c.importer.number]
 <2>2. [c.importer EXCEPT !.chunk = <<l>>] = [chunk |-> <<l>>, number |-> c.importer.number] BY <1>1 DEF Importers
 <2>3. d = [c EXCEPT !.fed = @ + 1, !.importer = [c.importer EXCEPT !.chunk = <<l>>]] BY <1>3 DEF LineBegins
 <2> QED BY <1>1, <2>2, <2>3 DEF Receipts, Importers
<1> QED BY <1>2, <1>3

LEMMA ImporterGoesOn ==
    ASSUME NEW n \in Nat, n + 1 \in 1..Len(File)
    PROVE  ImporterAt(n + 1) =
             IF File[n + 1].last THEN [chunk |-> <<>>, number |-> ImporterAt(n).number + 1]
             ELSE [chunk |-> <<File[n + 1].line>>, number |-> ImporterAt(n).number]
<1>1. PICK m \in 1..Len(File) : m = n + 1 OBVIOUS
<1>2. m # 0 /\ m - 1 = n BY <1>1
<1>4. ImporterAt(m) = IF File[m].last THEN [chunk |-> <<>>, number |-> NumberTo(n) + 1]
                      ELSE [chunk |-> <<File[m].line>>, number |-> NumberTo(n)]
  BY <1>2, NumbersGoOn DEF ImporterAt
<1> QED BY <1>1, <1>4 DEF ImporterAt

\* What the journal has after a unit was fed.
UnitAppended(n) ==
    IF File[n + 1].last THEN Ingest(<<LineEvent(ImporterAt(n).number + 1, File[n + 1].line)>>)
                        ELSE UNCHANGED <<journal, eventIds>>
FedFurther(n, h, all) ==
    \E g \in 0..written :
        /\ n + 1 <= g /\ h <= g
        /\ Told' = LinesTo(g, all) /\ LineEventsOf(eventIds)' = EventsTo(g, all)
        /\ all => g = h
        /\ SaysEnded(journal)' => SaysEnded(journal) /\ g = h
LEMMA UnitIsFed ==
    ASSUME FileOK, EventsOK, NEW n \in Nat, n < written, NEW h \in 0..written, NEW all \in BOOLEAN, FedTo(h, all),
           n <= h,
           UNCHANGED <<written, process, sstate>>,
           UnitAppended(n)
    PROVE  EventsOK' /\ FedFurther(n, h, all)
<1> USE DEF UnitAppended, FedFurther
<1>1. written \in 0..Len(File) /\ Len(File) \in Nat BY ExchangeAssumption DEF FileOK
<1>2. PICK m : m = n + 1 OBVIOUS
<1>3. m \in 1..Len(File) /\ m \in 0..written /\ m - 1 = n /\ h \in 0..Len(File) /\ m \in Nat /\ n \in 0..Len(File) BY <1>1, <1>2
<1>4. ImporterAt(n).number + 1 = NumberTo(n) + 1 BY DEF ImporterAt
<1>5. NumberTo(m) = IF File[m].last THEN NumberTo(n) + 1 ELSE NumberTo(n) BY <1>3, NumbersGoOn
<1>6. CASE ~File[m].last /\ m <= h
 <2>2. EventsOK' /\ Told' = Told /\ (SaysEnded(journal)' <=> SaysEnded(journal))
       /\ LineEventsOf(eventIds)' = LineEventsOf(eventIds) BY <1>2, <1>6, RowsAreKept
 <2> QED BY <1>1, <1>2, <1>6, <2>2 DEF FedTo
<1>7. CASE File[m].last /\ m <= h
 <2> DEFINE e == LineEvent(NumberTo(n) + 1, File[m].line)
 <2>1. Ingest(<<e>>) BY <1>2, <1>4, <1>7
 <2>2. e = EventAt(m) /\ m \in WholeTo(h) BY <1>3, <1>5, <1>7 DEF EventAt, WholeTo
 <2> HIDE DEF e
 <2>3. e \in eventIds BY <2>2 DEF FedTo, EventsTo, LineEventsOf
 <2>4. journal' = journal /\ eventIds' = eventIds BY <2>1, <2>3, OneIngested
 <2>6. Told = LinesTo(h, all) /\ LineEventsOf(eventIds) = EventsTo(h, all) BY DEF FedTo
 <2> QED BY <1>1, <1>2, <1>7, <2>4, RowsAreKept, <2>6
<1>8. CASE ~(m <= h)
 <2>1. n = h /\ m = h + 1 /\ h # written /\ h # Len(File) /\ h <= m BY <1>1, <1>2, <1>3, <1>8
 <2>2. all = FALSE /\ ~SaysEnded(journal) BY <2>1 DEF FedTo, HasTail, AllTold
 <2>3. Told = WholeLines[h] /\ LineEventsOf(eventIds) = EventsTo(h, FALSE) BY <2>2 DEF FedTo, LinesTo
 <2>4. WholeLines[m] = IF File[m].last THEN WithLine(WholeLines[h], File[m].line) ELSE WholeLines[h]
   BY <1>3, <2>1, LinesFollowUnits
 <2>6. (\A k \in 1..h : k \in 1..m) /\ m \in 1..m BY <1>3, <2>1
 <2>7. WholeTo(m) = IF File[m].last THEN WholeTo(h) \cup {m} ELSE WholeTo(h) BY <1>3, <2>1, <2>6 DEF WholeTo
 <2>8. EventsTo(m, FALSE) = IF File[m].last THEN EventsTo(h, FALSE) \cup {EventAt(m)} ELSE EventsTo(h, FALSE)
   BY <2>7 DEF EventsTo
 <2>9. LinesTo(m, FALSE) = WholeLines[m] BY DEF LinesTo
 <2>12. m \in 0..written /\ n + 1 <= m /\ h <= m BY <1>2, <1>3, <2>1
 <2>10. CASE File[m].last
  <3>2. LineEvent(NumberTo(h) + 1, File[m].line) = EventAt(m) BY <1>5, <2>1, <2>10 DEF EventAt
  <3>3. /\ EventsOK' /\ Told' = WithLine(Told, File[m].line)
        /\ LineEventsOf(eventIds)' = EventsTo(h, FALSE) \cup {LineEvent(NumberTo(h) + 1, File[m].line)}
        /\ SaysEnded(journal)' => SaysEnded(journal) BY <1>3, <2>3, <1>2, <1>4, <2>1, <2>10, LineIngested
  <3>4. Told' = LinesTo(m, all) /\ LineEventsOf(eventIds)' = EventsTo(m, all)
    BY <2>2, <2>3, <2>4, <2>8, <2>9, <2>10, <3>2, <3>3
  <3> QED BY <2>2, <2>12, <3>3, <3>4
 <2>11. CASE ~File[m].last
  <3>2. EventsOK' /\ Told' = Told /\ (SaysEnded(journal)' <=> SaysEnded(journal))
        /\ LineEventsOf(eventIds)' = LineEventsOf(eventIds) BY <1>2, <2>11, RowsAreKept
  <3>3. Told' = LinesTo(m, all) /\ LineEventsOf(eventIds)' = EventsTo(m, all)
    BY <2>2, <2>3, <2>4, <2>8, <2>9, <2>11, <3>2
  <3> QED BY <2>2, <2>12, <3>2, <3>3
 <2> QED BY <2>10, <2>11
<1> QED BY <1>6, <1>7, <1>8

LEMMA ReceivingIs ==
    ASSUME ExchangeInv, receiving.at \in {"feed", "lifecycle", "save"}
    PROVE  /\ receiving # NotReceiving /\ receiving \in Receipts /\ receiving.packet \in requests
           /\ PacketOK(receiving.packet) /\ receiving.fed \in Nat
           /\ receiving.packet.page.start \in Nat /\ receiving.packet.page.next \in Nat
           /\ receiving.packet.sequence = sstate.sequence + 1
           /\ receiving.packet.page.start = sstate.cursor
           /\ receiving.packet.page.start <= receiving.fed /\ receiving.fed <= receiving.packet.page.next
           /\ receiving.importer = ImporterAt(receiving.fed)
           /\ receiving.at # "feed" => receiving.fed = receiving.packet.page.next
<1>1. receiving # NotReceiving BY DEF NotReceiving
<1>2. receiving \in Receipts /\ receiving.packet \in requests /\ receiving.packet.sequence = sstate.sequence + 1
      /\ receiving.packet.page.start = sstate.cursor
      /\ receiving.fed \in receiving.packet.page.start..receiving.packet.page.next
      /\ receiving.importer = ImporterAt(receiving.fed)
      /\ (receiving.at # "feed" => receiving.fed = receiving.packet.page.next)
  BY <1>1 DEF ExchangeInv, ReceivingOK
<1>3. PacketOK(receiving.packet) BY <1>2 DEF ExchangeInv, WorkerOK
<1> QED BY <1>1, <1>2, <1>3 DEF PacketOK, Packets, Receipts

\* One line is appended, or a line is begun.
LEMMA FeedStep == ExchangeInv /\ Feed => ExchangeInv'
<1> SUFFICES ASSUME ExchangeInv, Feed PROVE ExchangeInv' OBVIOUS
<1> DEFINE n == receiving.fed
           number == receiving.importer.number + 1
           line == File[n + 1].line
<1>1. /\ receiving.at = "feed" /\ n < receiving.packet.page.next
      /\ UNCHANGED <<written, process, wstate, requests, answers, sstate>>
  BY DEF Feed
<1>2. IF File[n + 1].last
        THEN /\ Ingest(<<LineEvent(number, line)>>)
             /\ receiving' = [receiving EXCEPT !.fed = @ + 1, !.importer = [chunk |-> <<>>, number |-> number]]
        ELSE /\ receiving' = [receiving EXCEPT !.fed = @ + 1, !.importer.chunk = <<line>>]
             /\ UNCHANGED <<journal, eventIds>>
  BY DEF Feed, journalVars
<1>3. /\ receiving # NotReceiving /\ receiving \in Receipts /\ receiving.packet \in requests
      /\ receiving.packet.page.next <= written /\ receiving.packet.page.next \in Nat
      /\ receiving.importer = ImporterAt(n) /\ n \in Nat
  BY <1>1, ReceivingIs DEF PacketOK
<1>4. written \in 0..Len(File) /\ Len(File) \in Nat /\ FileOK BY ExchangeAssumption DEF FileOK, ExchangeInv
<1>5. n < written /\ n + 1 \in 1..Len(File) /\ n \in 0..Len(File) BY <1>1, <1>3, <1>4
<1>6. number \in Nat /\ line \in FileLines
 <2>2. NumberTo(n) \in Nat BY <1>5, WholeIsFinite
 <2>3. line \in FileLines BY <1>5 DEF FileLines
 <2> QED BY <1>3, <2>2, <2>3 DEF ImporterAt
<1>7. /\ receiving' \in Receipts /\ receiving'.at = "feed" /\ receiving'.packet = receiving.packet
      /\ receiving'.fed = n + 1 /\ receiving'.importer = ImporterAt(n + 1)
 <2>1. PICK d : d = receiving' OBVIOUS
 <2>2. PICK l \in FileLines : l = line BY <1>6
 <2>3. PICK k \in Nat : k = number BY <1>6
 <2>4. ImporterAt(n + 1) = IF File[n + 1].last THEN [chunk |-> <<>>, number |-> k]
                           ELSE [chunk |-> <<l>>, number |-> receiving.importer.number]
   BY <1>3, <1>5, <2>2, <2>3, ImporterGoesOn
 <2>5. IF File[n + 1].last THEN LineEnds(receiving, d, k) ELSE LineBegins(receiving, d, l)
   BY <1>2, <2>1, <2>2, <2>3 DEF LineEnds, LineBegins
 <2>6. /\ d \in Receipts /\ d.at = receiving.at /\ d.packet = receiving.packet /\ d.fed = receiving.fed + 1
       /\ LineEnds(receiving, d, k) => d.importer = [chunk |-> <<>>, number |-> k]
       /\ LineBegins(receiving, d, l) => d.importer = [chunk |-> <<l>>, number |-> receiving.importer.number]
   BY <1>3, <2>5, ReceiptMoves
 <2> QED BY <1>1, <2>1, <2>4, <2>5, <2>6
<1>8. ReceivingOK'
 <2>1. receiving.packet.sequence = sstate.sequence + 1 /\ receiving.packet.page.start = sstate.cursor
       /\ receiving.packet.page.start <= n /\ receiving.packet.page.start \in Nat
   BY <1>1, ReceivingIs
 <2> QED BY <1>1, <1>3, <1>7, <2>1 DEF ReceivingOK
<1>9. PICK h \in 0..written, all \in BOOLEAN : FedTo(h, all) BY DEF ExchangeInv, FedOK
<1>10. n <= h /\ h \in Nat BY <1>3, <1>4, <1>9 DEF FedTo
<1>11. EventsOK' /\ FedFurther(n, h, all)
 <2>1. UnitAppended(n) BY <1>2, <1>3 DEF UnitAppended
 <2>2. EventsOK /\ UNCHANGED <<written, process, sstate>> BY <1>1 DEF ExchangeInv
 <2> HIDE DEF n, number, line
 <2> QED BY <1>3, <1>4, <1>5, <1>9, <1>10, <2>1, <2>2, UnitIsFed
<1>12. FedOK'
 <2>1. PICK g \in 0..written :
            /\ n + 1 <= g /\ h <= g
            /\ Told' = LinesTo(g, all) /\ LineEventsOf(eventIds)' = EventsTo(g, all)
            /\ all => g = h
            /\ SaysEnded(journal)' => SaysEnded(journal) /\ g = h
   BY <1>11 DEF FedFurther
 <2>2. sstate.cursor <= g
  <3> QED BY <1>10, <2>1, <1>9 DEF FedTo, ExchangeInv, ServerOK
 <2>3. FedTo(g, all)' BY <1>1, <1>7, <1>9, <2>1, <2>2 DEF FedTo, AllTold
 <2> QED BY <1>1, <2>3 DEF FedOK
<1>13. FileOK' /\ WorkerOK' /\ ServerOK' /\ OnePacketApart'
  BY <1>1, FileKept, WorkerKept, ServerKept, ApartKept DEF ExchangeInv
<1> QED BY <1>8, <1>11, <1>12, <1>13 DEF ExchangeInv

LEMMA StageMoves ==
    ASSUME NEW c \in Receipts, NEW d, NEW s \in {"lifecycle", "save"}, d = [c EXCEPT !.at = s]
    PROVE  d \in Receipts /\ d.at = s /\ d.packet = c.packet /\ d.fed = c.fed /\ d.importer = c.importer
  BY DEF Receipts

\* Everything of the packet was fed, and now its last line or its lifecycle is appended.
LEMMA StageOK ==
    ASSUME ExchangeInv, receiving.at \in {"feed", "lifecycle"}, receiving.fed = receiving.packet.page.next,
           NEW s \in {"lifecycle", "save"}, receiving' = [receiving EXCEPT !.at = s],
           UNCHANGED <<written, process, wstate, requests, answers, sstate>>, EventsOK',
           NEW h \in 0..written, NEW all \in BOOLEAN,
           all => HasTail(h) /\ process = "finished",
           Told' = LinesTo(h, all), LineEventsOf(eventIds)' = EventsTo(h, all),
           sstate.cursor <= h, receiving.fed <= h,
           receiving.packet.page.complete => AllTold(h, all),
           SaysEnded(journal)' => AllTold(h, all)
    PROVE  ExchangeInv'
<1>1. receiving # NotReceiving /\ receiving \in Receipts BY ReceivingIs
<1>2. receiving' \in Receipts /\ receiving'.at = s /\ receiving'.packet = receiving.packet
      /\ receiving'.fed = receiving.fed /\ receiving'.importer = receiving.importer
  BY <1>1, StageMoves
<1>5. FedOK' BY <1>1, <1>2 DEF FedOK, FedTo, AllTold
<1>6. FileOK' /\ WorkerOK' /\ ServerOK' /\ OnePacketApart'
  BY FileKept, WorkerKept, ServerKept, ApartKept DEF ExchangeInv
<1> QED BY <1>1, <1>2, <1>5, <1>6 DEF ExchangeInv, ReceivingOK

LEMMA FinishStep == ExchangeInv /\ FinishImport => ExchangeInv'
<1> SUFFICES ASSUME ExchangeInv, FinishImport PROVE ExchangeInv' OBVIOUS
<1> DEFINE n == receiving.fed
           p == receiving.packet
<1>1. /\ receiving.at = "feed" /\ n = p.page.next
      /\ receiving' = [receiving EXCEPT !.at = "lifecycle"]
      /\ UNCHANGED <<written, process, wstate, requests, answers, sstate>>
  BY DEF FinishImport
<1>2. IF p.page.complete /\ receiving.importer.chunk # <<>>
        THEN Ingest(<<LineEvent(receiving.importer.number + 1, receiving.importer.chunk[1])>>)
        ELSE UNCHANGED <<journal, eventIds>>
  BY DEF FinishImport, journalVars
<1>3. /\ receiving # NotReceiving /\ receiving \in Receipts
      /\ p.page.complete => process = "finished" /\ n = written
      /\ receiving.importer = ImporterAt(n) /\ n \in Nat
  BY <1>1, ReceivingIs DEF PacketOK
<1>4. written \in 0..Len(File) /\ Len(File) \in Nat /\ FileOK /\ EventsOK BY ExchangeAssumption DEF FileOK, ExchangeInv
<1>5. PICK h \in 0..written, all \in BOOLEAN : FedTo(h, all) BY DEF ExchangeInv, FedOK
<1>6. n <= h /\ h \in Nat /\ sstate.cursor <= h /\ h \in 0..Len(File) BY <1>3, <1>4, <1>5 DEF FedTo
<1>7. p.page.complete => h = n /\ h = written BY <1>3, <1>4, <1>6
<1>8. CASE ~(p.page.complete /\ receiving.importer.chunk # <<>>)
 <2>1. EventsOK' /\ Told' = Told /\ (SaysEnded(journal)' <=> SaysEnded(journal))
       /\ LineEventsOf(eventIds)' = LineEventsOf(eventIds)
   BY <1>2, <1>4, <1>8, RowsAreKept
 <2>2. p.page.complete => AllTold(h, all)
  <3> SUFFICES ASSUME p.page.complete PROVE AllTold(h, all) OBVIOUS
  <3>2. n = 0 \/ File[n].last BY <1>3, <1>8 DEF ImporterAt
  <3> QED BY <1>3, <1>7, <3>2 DEF AllTold, HasTail
 <2> QED BY <1>1, <1>6, <2>1, <2>2, <1>5, StageOK DEF FedTo
<1>9. CASE p.page.complete /\ receiving.importer.chunk # <<>>
 <2>1. h = n /\ h = written /\ process = "finished" BY <1>3, <1>7, <1>9
 <2>2. n # 0 /\ ~File[n].last /\ receiving.importer.chunk = <<File[n].line>> BY <1>3, <1>9 DEF ImporterAt
 <2>3. HasTail(h) /\ h = Len(File) BY <1>4, <2>1, <2>2 DEF FileOK, HasTail
 <2> DEFINE l == File[h].line
            e == LineEvent(NumberTo(h) + 1, l)
 <2>5. Ingest(<<e>>)
  <3>1. <<l>>[1] = l OBVIOUS
  <3>2. receiving.importer.chunk = <<l>> BY <2>1, <2>2
  <3>3. LineEvent(receiving.importer.number + 1, receiving.importer.chunk[1]) = e
   <4> HIDE DEF l
   <4> QED BY <1>3, <2>1, <3>1, <3>2 DEF ImporterAt
  <3> HIDE DEF e
  <3> QED BY <1>2, <1>9, <3>3
 <2>6. e = LastEvent BY <2>3 DEF LastEvent
 <2>7. EventsOK' /\ Told' = LinesTo(h, TRUE) /\ LineEventsOf(eventIds)' = EventsTo(h, TRUE)
  <3>1. CASE all
   <4> HIDE DEF e
   <4>1. e \in eventIds BY <1>5, <2>6, <3>1 DEF FedTo, EventsTo, LineEventsOf
   <4>3. EventsOK' /\ Told' = Told /\ LineEventsOf(eventIds)' = LineEventsOf(eventIds)
     BY <1>4, <2>5, <4>1, OneIngested, RowsAreKept
   <4> QED BY <1>5, <3>1, <4>3 DEF FedTo
  <3>2. CASE ~all
   <4>1. Told = WholeLines[h] /\ LineEventsOf(eventIds) = EventsTo(h, FALSE) BY <1>5, <3>2 DEF FedTo, LinesTo
   <4>2. /\ EventsOK' /\ Told' = WithLine(Told, l)
         /\ LineEventsOf(eventIds)' = EventsTo(h, FALSE) \cup {LineEvent(NumberTo(h) + 1, l)}
     BY <1>4, <1>6, <2>5, <4>1, LineIngested
   <4> QED BY <2>6, <4>1, <4>2 DEF LinesTo, EventsTo
  <3> QED BY <3>1, <3>2
 <2> HIDE DEF e, l
 <2> QED BY <1>1, <1>6, <2>1, <2>3, <2>7, StageOK DEF AllTold
<1> QED BY <1>8, <1>9

LEMMA LifecycleStep == ExchangeInv /\ AppendLifecycle => ExchangeInv'
<1> SUFFICES ASSUME ExchangeInv, AppendLifecycle PROVE ExchangeInv' OBVIOUS
<1> DEFINE p == receiving.packet
           kind == LifecycleKind(p)
<1>1. /\ receiving.at = "lifecycle"
      /\ receiving' = [receiving EXCEPT !.at = "save"]
      /\ UNCHANGED <<written, process, wstate, requests, answers, sstate>>
      /\ Ingest(<<[id |-> <<"cloud", p.sequence, Nobody>>,
                   body |-> [kind |-> kind, name |-> Nobody, value |-> p.sequence]]>>)
  BY DEF AppendLifecycle
<1>2. receiving # NotReceiving /\ receiving.fed = p.page.next /\ receiving.fed \in Nat BY <1>1, ReceivingIs
<1>3. kind \in {"lifecycle", "ended"} /\ (kind = "ended" => p.page.complete) BY DEF LifecycleKind
<1>5. PICK h \in 0..written, all \in BOOLEAN : FedTo(h, all) BY DEF ExchangeInv, FedOK
<1> HIDE DEF kind
<1>6. /\ EventsOK' /\ Told' = Told
      /\ LineEventsOf(eventIds)' = LineEventsOf(eventIds)
      /\ SaysEnded(journal)' => SaysEnded(journal) \/ kind = "ended"
  BY <1>1, <1>3, LifecycleIngested DEF ExchangeInv
<1> QED BY <1>1, <1>2, <1>6, <1>3, <1>5, StageOK DEF FedTo

LEMMA SaveStep == ExchangeInv /\ SaveExchange => ExchangeInv'
<1> SUFFICES ASSUME ExchangeInv, SaveExchange PROVE ExchangeInv' OBVIOUS
<1> DEFINE p == receiving.packet
<1>1. /\ receiving.at = "save"
      /\ sstate' = [sequence |-> p.sequence, packet |-> p, cursor |-> p.page.next,
                    importer |-> receiving.importer, complete |-> p.page.complete]
      /\ answers' = answers \cup {p} /\ receiving' = NotReceiving
      /\ UNCHANGED <<written, process, wstate, requests, journal, eventIds>>
  BY DEF SaveExchange, journalVars
<1>2. /\ p \in requests /\ PacketOK(p) /\ p.sequence = sstate.sequence + 1 /\ p.page.start = sstate.cursor
      /\ receiving.fed = p.page.next /\ receiving.importer = ImporterAt(p.page.next) /\ receiving \in Receipts
      /\ p.page.next \in Nat /\ p.page.start \in Nat /\ p.page.start <= p.page.next /\ p.page.next <= written
      /\ receiving # NotReceiving
  BY <1>1, ReceivingIs DEF PacketOK
<1>3. p \in Packets /\ p.sequence \in Nat /\ p.page.complete \in BOOLEAN /\ receiving.importer \in Importers
  BY <1>2 DEF PacketOK, Packets, Receipts
<1>4. WorkerOK /\ ServerOK /\ OnePacketApart BY DEF ExchangeInv
<1>5. wstate.sequence \in Nat /\ sstate.sequence \in Nat /\ wstate.cursor \in Nat /\ sstate.cursor \in Nat
  BY <1>4 DEF WorkerOK, ServerOK
<1>6. sstate.sequence = wstate.sequence /\ wstate.pending = p
 <2>2. wstate.sequence <= sstate.sequence BY <1>4 DEF OnePacketApart
 <2>3. sstate.sequence = wstate.sequence BY <1>2, <1>5, <1>4, <2>2 DEF WorkerOK
 <2> QED BY <1>2, <1>4, <2>3 DEF WorkerOK
<1> HIDE DEF p
<1>7. /\ sstate' \in [sequence : Nat, packet : Packets \cup {NoPacket}, cursor : Nat,
                      importer : Importers, complete : BOOLEAN]
      /\ sstate'.sequence = p.sequence /\ sstate'.packet = p /\ sstate'.cursor = p.page.next
      /\ sstate'.importer = ImporterAt(p.page.next)
  BY <1>1, <1>2, <1>3
<1>8. ServerOK'
 <2>1. \A q \in answers' : q \in requests /\ q.sequence <= p.sequence
  <3>2. \A q \in requests : q.sequence \in Nat BY <1>4 DEF WorkerOK, PacketOK, Packets
  <3> QED BY <1>1, <1>2, <1>3, <1>5, <1>4, <3>2 DEF ServerOK
 <2> QED BY <1>1, <1>2, <1>7, <2>1, <1>5, <1>6 DEF ServerOK
<1>9. OnePacketApart'
 <2>1. wstate.cursor <= p.page.next
  <3> QED BY <1>2, <1>5, <1>4 DEF OnePacketApart
 <2> QED BY <1>1, <1>6, <1>7, <2>1, <1>2, <1>5 DEF OnePacketApart
<1>11. FedOK'
 <2>1. PICK h \in 0..written, all \in BOOLEAN : FedTo(h, all) BY DEF ExchangeInv, FedOK
 <2>3. p.page.next <= h BY <1>2, <2>1 DEF FedTo
 <2>4. FedTo(h, all)' BY <1>1, <1>7, <2>1, <2>3 DEF FedTo, AllTold, Told
 <2> QED BY <1>1, <2>4 DEF FedOK
<1>12. FileOK' /\ WorkerOK' /\ EventsOK'
  BY <1>1, FileKept, WorkerKept, EventsKept DEF ExchangeInv
<1> QED BY <1>8, <1>9, <1>1, <1>11, <1>12 DEF ExchangeInv, ReceivingOK

------------
\* Whatever happens, the invariant stays.
LEMMA ExchangeStep ==
    ExchangeInv /\ [ExchangeNext \/ ScopeMovesOn]_<<journalVars, exchangeVars>> => ExchangeInv'
<1> SUFFICES ASSUME ExchangeInv, [ExchangeNext \/ ScopeMovesOn]_<<journalVars, exchangeVars>> PROVE ExchangeInv'
  OBVIOUS
<1>1. CASE ScopeMovesOn BY <1>1, ScopeStep
<1>2. CASE UNCHANGED <<journalVars, exchangeVars>> BY <1>2, NothingMoves DEF journalVars, exchangeVars
<1>3. CASE Write \/ EndProcess BY <1>3, WriteStep, EndStep
<1>4. CASE Collecting BY <1>4, BuildStep, SendStep, AcknowledgedStep DEF Collecting
<1>5. CASE AnswerAgain \/ LoseAnswer \/ StopReceive BY <1>5, AnswerStep, StopStep
<1>6. CASE Receiving BY <1>6, BeginStep, FeedStep, FinishStep, LifecycleStep, SaveStep DEF Receiving
<1>7. CASE SenderLeaves \/ Synchronize BY <1>7, SenderStep
<1> QED BY <1>1, <1>2, <1>3, <1>4, <1>5, <1>6, <1>7 DEF ExchangeNext

\* The latest of some numbers.
LEMMA GreatestIsThere ==
    ASSUME NEW k \in Nat, NEW S \in SUBSET (1..k), S # {}
    PROVE  \E n \in S : \A m \in S : m <= n
<1> DEFINE T == {k - n : n \in S}
<1>1. T \in SUBSET Nat /\ T # {}
 <2>2. \A n \in 1..k : k - n \in Nat OBVIOUS
 <2> QED BY <2>2
<1>2. PICK t : t = Least(T) OBVIOUS
<1>3. t \in T /\ \A u \in T : t <= u
 <2> HIDE DEF T
 <2> QED BY <1>1, <1>2, LeastIsThere
<1>4. PICK n \in S : t = k - n BY <1>3
<1>5. \A m \in S : m <= n
 <2> TAKE m \in S
 <2>2. n \in Nat /\ m \in Nat OBVIOUS
 <2> QED BY <1>3, <1>4, <2>2
<1> QED BY <1>5

LEMMA EndedIsSaid == EventsOK /\ Ended => SaysEnded(journal)
<1> SUFFICES ASSUME EventsOK, Ended PROVE SaysEnded(journal) OBVIOUS
<1> DEFINE at == {n \in 1..Total : journal[n].body.kind \in {"lifecycle", "ended"}}
           n == CHOOSE n \in at : \A m \in at : m <= n
<1>1. Total \in Nat /\ Total = Len(journal) BY DEF EventsOK, Total
<1>2. at # {} /\ journal[n].body.kind = "ended" BY DEF Ended, LatestLifecycle
<1>3. \E k \in at : \A m \in at : m <= k
 <2>1. at \in SUBSET (1..Total) OBVIOUS
 <2> HIDE DEF at
 <2> QED BY <1>1, <1>2, <2>1, GreatestIsThere
<1>4. n \in at
 <2> HIDE DEF at
 <2> QED BY <1>3
<1>5. n \in 1..Len(journal)
 <2> HIDE DEF n
 <2> QED BY <1>1, <1>4
<1> HIDE DEF n
<1> QED BY <1>2, <1>5 DEF SaysEnded

LEMMA InvIsWhole == ExchangeInv => ExchangeIsWhole
<1> SUFFICES ASSUME ExchangeInv PROVE ExchangeIsWhole OBVIOUS
<1>1. FileOK /\ EventsOK /\ OnePacketApart BY DEF ExchangeInv
<1>2. written \in 0..Len(File) /\ Len(File) \in Nat BY <1>1, ExchangeAssumption DEF FileOK
<1>3. PICK h \in 0..written, all \in BOOLEAN : FedTo(h, all) BY DEF ExchangeInv, FedOK
<1>4. h \in 0..Len(File) /\ h <= written /\ h \in Nat BY <1>2
<1>5. WholeLines[h] \in Seq(FileLines) /\ WholeLines[written] \in Seq(FileLines) BY <1>2, <1>4, LinesAreOK DEF LinesOK
<1>6. Told = LinesTo(h, all) BY <1>3 DEF FedTo
<1>7. Lines(written) = IF HasTail(written) THEN WithLine(WholeLines[written], File[written].line) ELSE WholeLines[written]
  BY DEF Lines, HasTail
<1>9. IsPrefix(WholeLines[written], Lines(written)) /\ Lines(written) \in Seq(FileLines)
 <2>1. CASE HasTail(written)
  <3>1. WithLine(WholeLines[written], File[written].line) \in Seq(FileLines)
        /\ IsPrefix(WholeLines[written], WithLine(WholeLines[written], File[written].line))
    BY <1>5, <1>2, <2>1, WithOneLine DEF HasTail, FileLines
  <3> QED BY <1>7, <2>1, <3>1
 <2>2. CASE ~HasTail(written)
  <3> QED BY <1>5, <1>7, <2>2 DEF IsPrefix
 <2> QED BY <2>1, <2>2
<1>10. JournalFollowsFile
 <2>1. CASE all
  <3>1. HasTail(h) /\ h = written BY <1>2, <1>3, <1>4, <2>1 DEF FedTo, HasTail
  <3> QED BY <1>6, <1>7, <2>1, <3>1 DEF JournalFollowsFile, IsPrefix, LinesTo
 <2>2. CASE ~all
  <3>3. IsPrefix(WholeLines[h], Lines(written)) BY <1>5, <1>9, <1>2, LinesGrow, PrefixesFollow
  <3> QED BY <1>6, <2>2, <3>3 DEF JournalFollowsFile, LinesTo
 <2> QED BY <2>1, <2>2
<1>11. DrainedIsWhole
 <2> SUFFICES ASSUME Ended PROVE process = "finished" /\ Told = Lines(written) BY DEF DrainedIsWhole
 <2>2. process = "finished" /\ h = written /\ (HasTail(h) <=> all)
   BY <1>3, <1>1, EndedIsSaid DEF AllTold, FedTo
 <2> QED BY <2>2, <1>6, <1>7 DEF LinesTo
<1> QED BY <1>1, <1>10, <1>11 DEF ExchangeIsWhole

(* The journal of a cloud Attempt has the lines of its file in their
   order, each metric once, and all of them when it says that it is
   drained, whatever packets and answers were lost, late or repeated and
   wherever the server stopped while it received one; and the Worker never
   takes a page for received that the server has not saved. *)
THEOREM ExchangeStaysWhole == ExchangeSpec => []ExchangeIsWhole
<1>1. ExchangeInv /\ [ExchangeNext \/ ScopeMovesOn]_<<journalVars, exchangeVars>> => ExchangeInv'
  BY ExchangeStep
<1>2. JournalInit /\ ExchangeInit => ExchangeInv BY ExchangeBegins
<1>3. ExchangeInv => ExchangeIsWhole BY InvIsWhole
<1> QED BY <1>1, <1>2, <1>3, PTL DEF ExchangeSpec

------------
(* The W&B publisher.  What is on its way to W&B is distinct from what is
   there, and both are confirmed or reserved; a visit knows the cursor and
   the reservations, because nobody else moves them. *)
EventRow(e) == [id |-> e.id, body |-> e.body, batch |-> Nobody]
DerivedRow(b, i) == [id |-> DerivedId(b, i), body |-> b.bodies[i], batch |-> b.sha]
PubRows == {EventRow(e) : e \in Reports} \cup UNION {{DerivedRow(b, i) : i \in 1..Len(b.bodies)} : b \in Batches}

\* What RowsAreTold says of two rows, the first before the second.
TellApart(r, s) ==
    /\ r.id # s.id
    /\ (r.batch = Nobody /\ Metric(r)) =>
         /\ s.batch = Nobody => s.body # r.body
         /\ s.batch # Nobody => s.body.name # r.body.name
RecordsOK(rows, ids) ==
    /\ rows \in Seq(PubRows) /\ ids \subseteq Reports
    /\ \A n \in 1..Len(rows) : rows[n].batch = Nobody => \E e \in ids : rows[n] = EventRow(e)
    /\ \A m, n \in 1..Len(rows) : m < n => TellApart(rows[m], rows[n])
RecordsInv == RecordsOK(journal, eventIds)

------------
AnyList == Lists \cup {{}}
ListOf(w) == IF w = 0 THEN {} ELSE rebuilds[w].list
SavedStates ==
    [confirmed : Nat, sent : SUBSET Nat, finishRequested : BOOLEAN, remoteFinished : BOOLEAN, everOpened : BOOLEAN,
     repair : SUBSET Nat, repairConfirmed : BOOLEAN, missing : BOOLEAN, list : AnyList]
Cursor == scopeRow.confirmed
Here == scopeRow.wandb
OnlyDerivedAfter(n) == \A k \in n + 1..Total : journal[k].batch # Nobody

ScopeOK ==
    /\ scopeRow \in [exists : BOOLEAN, wandb : Nat, confirmed : Nat]
    /\ rebuilds \in Seq([list : Lists, old : Nat, new : Nat, finished : BOOLEAN])
    /\ Here = Len(rebuilds) /\ Len(rebuilds) <= MaxRuns
    /\ scopeRow.exists => binding # Nobody
    /\ providerEnded \in BOOLEAN
SavedOK ==
    /\ saved \in SavedStates /\ saved.confirmed <= Cursor /\ Cursor <= Total /\ saved.sent \subseteq 1..Total
    /\ saved.remoteFinished => saved.sent = {}
    /\ ~Late /\ saved.remoteFinished => (Ended \/ providerEnded) /\ OnlyDerivedAfter(Cursor)

------------
RunStates == {"none", "running", "finished", "failed", "deleted"}
WandbRuns == [rows : Seq([n : Nat, list : AnyList]), display : Nat \cup {-1}, state : RunStates]
RunOK(w) ==
    /\ IsFiniteSet(Shows(w)) /\ Len(wandb[w].rows) = Cardinality(Shows(w))
    /\ \A r \in ToSet(wandb[w].rows) : r.list = ListOf(w)
    /\ wandb[w].state = "none" => wandb[w] = NoRun
    /\ w > Len(rebuilds) => wandb[w].state = "none"
WandbOK == wandb \in [0..MaxRuns -> WandbRuns] /\ \A w \in 0..MaxRuns : RunOK(w)

Accounted(n) == n \in 1..Cursor \/ n \in saved.sent
ShownOK ==
    /\ 1..Cursor \subseteq Shows(Here) /\ \A n \in Shows(Here) : Accounted(n)
    /\ wandb[Here].display <= Cursor
    /\ saved.remoteFinished => wandb[Here].state # "none"

Items == [w : Nat, kind : {"row", "display", "finished", "failed"}, n : Nat, list : AnyList]
Framing == IF visit.at \in {"send", "repair"} THEN visit.frames ELSE <<>>
ItemOK(f) ==
    /\ f.w <= Len(rebuilds)
    /\ f.kind = "row" => f.list = ListOf(f.w) /\ f.n \notin Shows(f.w) /\ (f.w = Here => Accounted(f.n))
    /\ f.kind = "display" /\ f.w = Here => f.n <= Cursor
Once(s) == \A i, j \in DOMAIN s : s[i] = s[j] /\ s[i].kind = "row" => i = j
Apart(A, B) == \A f \in A \cap B : f.kind # "row"
ItemsOK ==
    /\ child \in Seq(Items) /\ loose \subseteq Items /\ Framing \in Seq(Items)
    /\ \A f \in ToSet(child) \cup loose \cup ToSet(Framing) : ItemOK(f)
    /\ Once(child) /\ Once(Framing)
    /\ Apart(ToSet(child), loose) /\ Apart(ToSet(child), ToSet(Framing)) /\ Apart(loose, ToSet(Framing))

------------
Plans == [confirmed : Nat, sent : SUBSET Nat, emits : SUBSET Nat, displays : BOOLEAN, finishes : BOOLEAN, acked : BOOLEAN]
Knowing == {"saved", "derived", "observe", "plan", "save"}
VisitRecords == [at : Knowing, w : Nat, confirmed : Nat, total : Nat, ended : BOOLEAN, through : Nat, list : AnyList,
             saved : SavedStates, drained : BOOLEAN, seen : SUBSET Nat, display : Nat \cup {-1}, state : RunStates,
             settled : BOOLEAN, plan : Plans, repaired : BOOLEAN]
Sendings == [at : {"send"}, w : Nat, frames : Seq(Items)]
Repairs == [at : {"repair", "repaired"}, w : Nat, through : Nat, frames : Seq(Items)]
PubVisits == {Resting} \cup VisitRecords \cup Sendings \cup Repairs

\* What the visit read of the scope.
ScopeIsRead ==
    /\ visit.confirmed <= visit.total
    /\ visit.at # "save" => visit.confirmed = Cursor
    /\ visit.total <= Total
    /\ visit.ended => providerEnded /\ (~Late => OnlyDerivedAfter(visit.total))
SavedIsRead ==
    /\ visit.saved.sent = {n \in saved.sent : n > visit.confirmed} /\ visit.saved.sent \subseteq 1..visit.through
    /\ visit.saved.confirmed = visit.confirmed /\ ~visit.saved.remoteFinished
    /\ visit.confirmed <= visit.through /\ visit.through <= Total
    /\ visit.list = ListOf(Here)
    /\ saved.remoteFinished => visit.confirmed < visit.through
    /\ ~Late /\ visit.drained /\ visit.confirmed = visit.through => Ended /\ OnlyDerivedAfter(visit.through)
\* What W&B showed.
RunIsSeen ==
    /\ visit.seen \subseteq Shows(Here) /\ visit.display <= visit.confirmed
    /\ wandb[Here].state # "none"
\* What the plan says, whatever it was computed from.
PlanIsSound(v, p) ==
    /\ v.confirmed <= p.confirmed /\ p.confirmed <= v.through
    /\ p.confirmed = v.confirmed \/ p.confirmed \in v.seen
    /\ p.emits \subseteq p.confirmed + 1..v.through /\ p.emits \cap v.saved.sent = {}
    /\ p.sent \subseteq v.saved.sent \cup p.emits /\ p.emits \subseteq p.sent
    /\ \A n \in v.saved.sent : n \in p.sent \/ n <= p.confirmed
    /\ p.displays => p.confirmed = v.through
    /\ p.finishes => /\ p.sent = {} /\ v.confirmed = v.through /\ v.through = v.total
                     /\ v.drained \/ v.ended
PlanOK ==
    /\ Cursor = visit.plan.confirmed /\ PlanIsSound(visit, visit.plan)
    /\ saved.remoteFinished => visit.plan.confirmed = visit.confirmed

VisitOK ==
    /\ visit \in PubVisits
    /\ visit.at # "rest" => Bound /\ visit.w = Here
    /\ visit.at \in Knowing => ScopeIsRead
    /\ visit.at \in {"saved", "derived", "observe", "plan", "save", "send"} => session.bound = Here
    /\ visit.at = "derived" => visit.saved = saved
    /\ visit.at \in {"observe", "plan", "save"} => SavedIsRead
    /\ visit.at \in {"plan", "save"} => RunIsSeen
    /\ visit.at = "save" => PlanOK
    /\ visit.at \in {"send", "repair", "repaired"} => ~saved.remoteFinished
    /\ \A f \in ToSet(Framing) : f.w = visit.w

------------
Watches == (SUBSET Nat) \X Int
NothingOfHere == \A f \in ToSet(child) : f.w # Here
SessionOK ==
    /\ session \in [held : BOOLEAN, watch : Watches, under : SUBSET Items, idle : Int, bound : Int]
    /\ session.watch # NoWatch => loose \subseteq session.under
    /\ NothingOfHere \/ (session.held /\ session.bound = Here) \/ visit.at = "repaired"
    /\ visit.at \in {"plan", "save"} /\ ~session.held /\ visit.settled /\ session.watch # NoWatch =>
         loose = {} /\ NothingOfHere /\ Shows(Here) \subseteq visit.seen

PublisherInv ==
    RecordsInv /\ ScopeOK /\ SavedOK /\ WandbOK /\ ShownOK /\ ItemsOK /\ VisitOK /\ SessionOK

------------
\* The greatest element, of a bounded set with one number more.
LEMMA HighestIs ==
    ASSUME NEW S, NEW n \in Nat, NEW b \in Nat, S \subseteq 0..b
    PROVE  /\ Highest(S, n) \in S \cup {n} /\ Highest(S, n) \in Nat
           /\ \A k \in S \cup {n} : k <= Highest(S, n)
<1> DEFINE T == {k + 1 : k \in S \cup {n}}
           c == b + n + 1
<1>1. \A k \in S \cup {n} : k \in Nat /\ k + 1 \in 1..c OBVIOUS
<1>2. c \in Nat /\ T \in SUBSET (1..c) /\ T # {}
 <2>2. \A t \in T : t \in 1..c BY <1>1
 <2>3. n + 1 \in T OBVIOUS
 <2> QED BY <2>2, <2>3
<1>3. PICK t \in T : \A u \in T : u <= t
 <2> HIDE DEF T, c
 <2> QED BY <1>2, GreatestIsThere
<1>4. PICK m \in S \cup {n} : t = m + 1 BY <1>3
<1>5. \A k \in S \cup {n} : k <= m
 <2> TAKE k \in S \cup {n}
 <2>2. k + 1 <= m + 1 BY <1>3, <1>4
 <2> QED BY <1>1, <2>2
<1> HIDE DEF T, c
<1>7. Highest(S, n) \in S \cup {n} /\ \A k \in S \cup {n} : k <= Highest(S, n) BY <1>5 DEF Highest
<1> QED BY <1>1, <1>7

\* The frames of a set of rows: each row once.
FramesOf(f, v, S, n) ==
    /\ f \in Seq(Items) /\ Once(f)
    /\ \A i \in 1..Len(f) : f[i] = Item(v, "row", f[i].n) /\ f[i].n \in S /\ f[i].n <= n

LEMMA FramesGoOn ==
    ASSUME NEW v, NEW S \in SUBSET Nat, NEW n \in Nat, NEW f, FramesOf(f, v, S, n),
           n + 1 \in S, v.w \in Nat, v.list \in AnyList
    PROVE  FramesOf(Append(f, Item(v, "row", n + 1)), v, S, n + 1)
<1> DEFINE x == Item(v, "row", n + 1)
           g == Append(f, x)
<1>1. x \in Items /\ x.n = n + 1 /\ x.kind = "row" /\ x = Item(v, "row", x.n) BY DEF Item, Items
<1> HIDE DEF x
<1>2. f \in Seq(Items) /\ Len(f) \in Nat BY DEF FramesOf
<1>3. g \in Seq(Items) /\ Len(g) = Len(f) + 1 /\ g[Len(f) + 1] = x /\ \A i \in 1..Len(f) : g[i] = f[i]
  BY <1>1, <1>2
<1> HIDE DEF g
<1>4. \A i \in 1..Len(g) : i = Len(f) + 1 \/ i \in 1..Len(f) BY <1>2, <1>3
<1>5. \A i \in 1..Len(f) : f[i] = Item(v, "row", f[i].n) /\ f[i].n \in S /\ f[i].n <= n BY DEF FramesOf
<1>6. \A i \in 1..Len(g) : g[i] = Item(v, "row", g[i].n) /\ g[i].n \in S /\ g[i].n <= n + 1
 <2> TAKE i \in 1..Len(g)
 <2>1. CASE i = Len(f) + 1 BY <1>1, <1>3, <2>1
 <2>2. CASE i \in 1..Len(f)
  <3>1. g[i] = f[i] /\ f[i].n \in Nat BY <1>3, <1>5, <2>2
  <3> QED BY <1>5, <2>2, <3>1
 <2> QED BY <1>4, <2>1, <2>2
<1>7. Once(g)
 <2>1. DOMAIN g = 1..Len(g) /\ DOMAIN f = 1..Len(f) BY <1>2, <1>3
 <2>2. \A i \in 1..Len(f) : g[i] # x
  <3> TAKE i \in 1..Len(f)
  <3>2. f[i].n # x.n BY <1>1, <1>5
  <3> QED BY <1>3, <3>2
 <2>4. ASSUME NEW i \in 1..Len(g), NEW j \in 1..Len(g), g[i] = g[j], g[i].kind = "row" PROVE i = j
  <3>1. CASE i \in 1..Len(f) /\ j \in 1..Len(f) BY <1>3, <2>1, <2>4, <3>1 DEF FramesOf, Once
  <3>2. CASE i = Len(f) + 1 /\ j = Len(f) + 1 BY <3>2
  <3>3. CASE i = Len(f) + 1 /\ j \in 1..Len(f) BY <1>3, <2>2, <2>4, <3>3
  <3>4. CASE j = Len(f) + 1 /\ i \in 1..Len(f) BY <1>3, <2>2, <2>4, <3>4
  <3> QED BY <1>4, <3>1, <3>2, <3>3, <3>4
 <2> QED BY <2>1, <2>4 DEF Once
<1> QED BY <1>3, <1>6, <1>7 DEF FramesOf, g, x

LEMMA RowFramesAre ==
    ASSUME NEW v, NEW b \in Nat, NEW S \in SUBSET (1..b), v.w \in Nat, v.list \in AnyList
    PROVE  FramesOf(RowFrames(v, S), v, S, b)
<1> DEFINE d == [rows |-> S, of |-> v]
           m == Highest(S, 0)
           F(f) == IsFold(f, "frames", <<>>, d, m)
           all == CHOOSE f : F(f)
           bad == {n \in Nat : n <= m /\ ~FramesOf(all[n], v, S, n)}
<1>1. S \subseteq 0..b /\ S \subseteq Nat OBVIOUS
<1>2. m \in S \cup {0} /\ m \in Nat /\ m <= b
 <2>1. 0 \in Nat OBVIOUS
 <2>2. m \in S \cup {0} /\ m \in Nat BY <1>1, <2>1, HighestIs
 <2> HIDE DEF m
 <2> QED BY <1>1, <2>2
<1>3. RowFrames(v, S) = all[m] BY DEF RowFrames, IsFold, FoldSteps
<1>4. F(all)
 <2>1. \E f : F(f) BY <1>2, FoldExists
 <2> QED BY <2>1
<1>5. all[0] = <<>> /\ \A n \in 1..m : all[n] = FoldSteps("frames", d, n, all[n - 1])
 <2> HIDE DEF all, d, m, bad
 <2>1. IsFold(all, "frames", <<>>, d, m) BY <1>4
 <2>2. m \in Nat BY <1>2
 <2> HIDE DEF F
 <2>3. FoldRuns(all, "frames", <<>>, d, m) BY <2>1, <2>2, FoldIsRun, Zenon
 <2> QED BY <2>3 DEF FoldRuns
<1> HIDE DEF all, m
<1>6. bad = {}
 <2> SUFFICES ASSUME bad # {} PROVE FALSE OBVIOUS
 <2>1. PICK n : n = Least(bad) OBVIOUS
 <2>2. n \in bad /\ \A j \in bad : n <= j
  <3>1. bad \in SUBSET Nat OBVIOUS
  <3> HIDE DEF bad
  <3> QED BY <2>1, <3>1, LeastIsThere
 <2>3. n \in Nat /\ n <= m /\ (~FramesOf(all[n], v, S, n)) BY <2>2
 <2>4. FramesOf(<<>>, v, S, 0) BY DEF FramesOf, Once
 <2>5. n # 0 BY <1>5, <2>3, <2>4
 <2>6. PICK k \in Nat : n = k + 1 BY <2>3, <2>5
 <2>7. k < n /\ k <= m /\ n \in 1..m /\ n - 1 = k BY <1>2, <2>3, <2>6
 <2>8. FramesOf(all[k], v, S, k) BY <2>2, <2>7
 <2>9. all[n] = IF n \in S THEN Append(all[k], Item(v, "row", n)) ELSE all[k] BY <1>5, <2>7 DEF FoldSteps
 <2>10. n \in S => FramesOf(all[n], v, S, n) BY <1>1, <2>6, <2>8, <2>9, FramesGoOn
 <2>11. FramesOf(all[k], v, S, n)
  <3>1. \A i \in 1..Len(all[k]) : all[k][i].n \in S /\ all[k][i].n <= k BY <2>8 DEF FramesOf
  <3>2. \A i \in 1..Len(all[k]) : all[k][i].n <= n
   <4> TAKE i \in 1..Len(all[k])
   <4>1. all[k][i].n \in Nat /\ all[k][i].n <= k BY <1>1, <3>1
   <4> QED BY <2>3, <2>7, <4>1
  <3> QED BY <2>8, <3>2 DEF FramesOf
 <2> QED BY <2>3, <2>9, <2>10, <2>11
<1>7. FramesOf(all[m], v, S, m) BY <1>2, <1>6
<1>8. \A i \in 1..Len(all[m]) : all[m][i].n <= b
 <2> TAKE i \in 1..Len(all[m])
 <2>1. all[m][i].n \in S BY <1>7 DEF FramesOf
 <2>2. \A k \in S : k <= b OBVIOUS
 <2> QED BY <2>1, <2>2
<1> QED BY <1>3, <1>7, <1>8 DEF FramesOf

------------
\* The items of a sequence that grows, shrinks or is joined to another one.
LEMMA ItemsOfTail ==
    ASSUME NEW s \in Seq(Items), s # <<>>, Once(s)
    PROVE  /\ Head(s) \in Items /\ Head(s) \in ToSet(s) /\ Tail(s) \in Seq(Items)
           /\ ToSet(Tail(s)) \subseteq ToSet(s) /\ Once(Tail(s))
           /\ Head(s).kind = "row" => Head(s) \notin ToSet(Tail(s))
<1> DEFINE t == Tail(s)
<1>1. Len(s) \in Nat /\ Len(s) >= 1 /\ Head(s) = s[1] OBVIOUS
<1>2. t \in Seq(Items) /\ Len(t) = Len(s) - 1 /\ \A i \in 1..Len(t) : t[i] = s[i + 1] OBVIOUS
<1> HIDE DEF t
<1>3. DOMAIN s = 1..Len(s) /\ DOMAIN t = 1..Len(t) BY <1>2
<1>4. \A i \in 1..Len(t) : i + 1 \in 1..Len(s) /\ i + 1 # 1 BY <1>1, <1>2
<1>5. 1 \in 1..Len(s) BY <1>1
<1>6. \A i, j \in 1..Len(s) : s[i] = s[j] /\ s[i].kind = "row" => i = j BY <1>3 DEF Once
<1>7. ToSet(t) \subseteq ToSet(s) BY <1>2, <1>3, <1>4 DEF ToSet
<1>8. Once(t)
 <2>1. ASSUME NEW i \in 1..Len(t), NEW j \in 1..Len(t), t[i] = t[j], t[i].kind = "row" PROVE i = j
  <3>1. i + 1 = j + 1 BY <1>2, <1>4, <1>6, <2>1
  <3> QED BY <1>2, <3>1
 <2> QED BY <1>3, <2>1 DEF Once
<1>9. s[1].kind = "row" => s[1] \notin ToSet(t)
 <2> SUFFICES ASSUME s[1].kind = "row", NEW i \in 1..Len(t), t[i] = s[1] PROVE FALSE BY <1>3 DEF ToSet
 <2> QED BY <1>2, <1>4, <1>5, <1>6
<1> QED BY <1>1, <1>2, <1>3, <1>5, <1>7, <1>8, <1>9 DEF t, ToSet

LEMMA ItemsOfJoined ==
    ASSUME NEW s \in Seq(Items), NEW t \in Seq(Items), Once(s), Once(t), Apart(ToSet(s), ToSet(t))
    PROVE  s \o t \in Seq(Items) /\ ToSet(s \o t) = ToSet(s) \cup ToSet(t) /\ Once(s \o t)
<1> DEFINE u == s \o t
<1>1. Len(s) \in Nat /\ Len(t) \in Nat OBVIOUS
<1>2. /\ u \in Seq(Items) /\ Len(u) = Len(s) + Len(t)
      /\ \A i \in 1..Len(s) : u[i] = s[i]
      /\ \A i \in 1..Len(t) : u[Len(s) + i] = t[i]
  OBVIOUS
<1> HIDE DEF u
<1>3. DOMAIN s = 1..Len(s) /\ DOMAIN t = 1..Len(t) /\ DOMAIN u = 1..Len(u) BY <1>2
<1>4. \A i \in 1..Len(u) : i \in 1..Len(s) \/ \E k \in 1..Len(t) : i = Len(s) + k
 <2> TAKE i \in 1..Len(u)
 <2>1. CASE i <= Len(s) BY <1>1, <2>1
 <2>2. CASE i > Len(s)
  <3>1. i - Len(s) \in 1..Len(t) /\ i = Len(s) + (i - Len(s)) BY <1>1, <1>2, <2>2
  <3> QED BY <3>1
 <2> QED BY <1>1, <2>1, <2>2
<1>5. /\ \A i \in 1..Len(s) : i \in 1..Len(u)
      /\ \A k \in 1..Len(t) : Len(s) + k \in 1..Len(u)
  BY <1>1, <1>2
<1>6. ToSet(u) = ToSet(s) \cup ToSet(t)
 <2>1. ASSUME NEW i \in 1..Len(u) PROVE u[i] \in ToSet(s) \cup ToSet(t)
  <3>1. CASE i \in 1..Len(s) BY <1>2, <1>3, <3>1 DEF ToSet
  <3>2. ASSUME NEW k \in 1..Len(t), i = Len(s) + k PROVE u[i] \in ToSet(t) BY <1>2, <1>3, <3>2 DEF ToSet
  <3> QED BY <1>4, <3>1, <3>2
 <2>2. ToSet(s) \subseteq ToSet(u) BY <1>2, <1>3, <1>5 DEF ToSet
 <2>3. ToSet(t) \subseteq ToSet(u) BY <1>2, <1>3, <1>5 DEF ToSet
 <2>4. ToSet(u) \subseteq ToSet(s) \cup ToSet(t) BY <1>3, <2>1 DEF ToSet
 <2> QED BY <2>2, <2>3, <2>4
<1>7. \A i \in 1..Len(s), k \in 1..Len(t) : s[i] = t[k] => s[i].kind # "row"
  BY <1>3 DEF Apart, ToSet
<1>8. Once(u)
 <2>1. ASSUME NEW i \in 1..Len(u), NEW j \in 1..Len(u), u[i] = u[j], u[i].kind = "row" PROVE i = j
  <3>1. CASE i \in 1..Len(s) /\ j \in 1..Len(s) BY <1>2, <1>3, <2>1, <3>1 DEF Once
  <3>2. ASSUME NEW k \in 1..Len(t), NEW l \in 1..Len(t), i = Len(s) + k, j = Len(s) + l PROVE i = j
   <4>1. t[k] = t[l] /\ t[k].kind = "row" BY <1>2, <2>1, <3>2
   <4>2. k = l BY <1>3, <4>1 DEF Once
   <4> QED BY <3>2, <4>2
  <3>3. ASSUME NEW k \in 1..Len(t), i \in 1..Len(s), j = Len(s) + k PROVE FALSE BY <1>2, <1>7, <2>1, <3>3
  <3>4. ASSUME NEW k \in 1..Len(t), j \in 1..Len(s), i = Len(s) + k PROVE FALSE BY <1>2, <1>7, <2>1, <3>4
  <3> QED BY <1>4, <3>1, <3>2, <3>3, <3>4
 <2> QED BY <1>3, <2>1 DEF Once
<1> QED BY <1>2, <1>6, <1>8 DEF u

LEMMA ItemsOfPart ==
    ASSUME NEW s \in Seq(Items), NEW k \in 0..Len(s)
    PROVE  ToSet(SubSeq(s, 1, k)) \subseteq ToSet(s)
<1>2. DOMAIN SubSeq(s, 1, k) = 1..k /\ DOMAIN s = 1..Len(s) OBVIOUS
<1> QED BY <1>2 DEF ToSet

------------
\* The records a visit goes through.
Keeps(v, d) ==
    d.w = v.w /\ d.confirmed = v.confirmed /\ d.total = v.total /\ d.ended = v.ended
KeepsReading(v, d) ==
    /\ Keeps(v, d) /\ d.through = v.through /\ d.list = v.list /\ d.saved = v.saved /\ d.drained = v.drained
KeepsSight(v, d) ==
    KeepsReading(v, d) /\ d.seen = v.seen /\ d.display = v.display /\ d.state = v.state /\ d.settled = v.settled

VisitOf(w, confirmed, total, ended) ==
    [NewVisit EXCEPT !.w = w, !.confirmed = confirmed, !.total = total, !.ended = ended]
DerivedVisit(v, s) == [v EXCEPT !.at = "derived", !.saved = s]
ObserveVisit(v, through, list, s, drained) ==
    [v EXCEPT !.at = "observe", !.through = through, !.list = list, !.saved = s, !.drained = drained]
PlanVisit(v, seen, display, state, settled) ==
    [v EXCEPT !.at = "plan", !.seen = seen, !.display = display, !.state = state, !.settled = settled]
SaveVisit(v, p, repaired) == [v EXCEPT !.at = "save", !.plan = p, !.repaired = repaired]

LEMMA NewVisitIs ==
    ASSUME NEW w \in Nat, NEW confirmed \in Nat, NEW total \in Nat, NEW ended \in BOOLEAN, NEW d,
           d = VisitOf(w, confirmed, total, ended)
    PROVE  /\ d \in VisitRecords /\ d.at = "saved" /\ d.w = w /\ d.confirmed = confirmed /\ d.total = total /\ d.ended = ended
<1>1. NoPlan \in Plans BY DEF NoPlan, Plans
<1>2. NoSaved \in SavedStates BY DEF NoSaved, SavedStates, AnyList
<1>3. NewVisit \in VisitRecords BY <1>1, <1>2 DEF NewVisit, VisitRecords, Knowing, AnyList, RunStates
<1> QED BY <1>3 DEF VisitRecords, Knowing, VisitOf, NewVisit

LEMMA DerivedVisitIs ==
    ASSUME NEW v \in VisitRecords, NEW s \in SavedStates, NEW d, d = DerivedVisit(v, s)
    PROVE  d \in VisitRecords /\ d.at = "derived" /\ Keeps(v, d) /\ d.saved = s
  BY DEF DerivedVisit, VisitRecords, Knowing, Keeps

LEMMA ObserveVisitIs ==
    ASSUME NEW v \in VisitRecords, NEW through \in Nat, NEW list \in AnyList, NEW s \in SavedStates, NEW drained \in BOOLEAN,
           NEW d, d = ObserveVisit(v, through, list, s, drained)
    PROVE  /\ d \in VisitRecords /\ d.at = "observe" /\ Keeps(v, d)
           /\ d.through = through /\ d.list = list /\ d.saved = s /\ d.drained = drained
  BY DEF ObserveVisit, VisitRecords, Knowing, Keeps

LEMMA PlanVisitIs ==
    ASSUME NEW v \in VisitRecords, NEW seen \in SUBSET Nat, NEW display \in Nat \cup {-1}, NEW state \in RunStates,
           NEW settled \in BOOLEAN, NEW d,
           d = PlanVisit(v, seen, display, state, settled)
    PROVE  /\ d \in VisitRecords /\ d.at = "plan" /\ KeepsReading(v, d)
           /\ d.seen = seen /\ d.display = display /\ d.state = state /\ d.settled = settled
  BY DEF PlanVisit, VisitRecords, Knowing, Keeps, KeepsReading

LEMMA SaveVisitIs ==
    ASSUME NEW v \in VisitRecords, NEW p \in Plans, NEW repaired \in BOOLEAN, NEW d,
           d = SaveVisit(v, p, repaired)
    PROVE  d \in VisitRecords /\ d.at = "save" /\ KeepsSight(v, d) /\ d.plan = p
  BY DEF SaveVisit, VisitRecords, Knowing, Keeps, KeepsReading, KeepsSight

LEMMA VisitStages ==
    ASSUME NEW v \in PubVisits
    PROVE  /\ v.at = "rest" <=> v = Resting
           /\ v.at \in Knowing => v \in VisitRecords
           /\ v.at = "send" => v \in Sendings
           /\ v.at \in {"repair", "repaired"} => v \in Repairs
           /\ v.at \in {"rest", "send", "repair", "repaired"} \cup Knowing
  BY DEF PubVisits, Resting, VisitRecords, Sendings, Repairs, Knowing

LEMMA RestIsVisit == Resting \in PubVisits /\ Resting.at = "rest"
  BY DEF PubVisits, Resting

\* The saved states.
LEMMA SavedFields ==
    ASSUME NEW s \in SavedStates
    PROVE  /\ s.confirmed \in Nat /\ s.sent \in SUBSET Nat /\ s.remoteFinished \in BOOLEAN /\ s.missing \in BOOLEAN
           /\ s.everOpened \in BOOLEAN /\ s.finishRequested \in BOOLEAN /\ s.repair \in SUBSET Nat
           /\ s.repairConfirmed \in BOOLEAN
  BY DEF SavedStates
StateRead(s, confirmed, sent) == [s EXCEPT !.confirmed = confirmed, !.sent = sent]
StateNext(s, confirmed, sent, repaired) ==
    [s EXCEPT !.everOpened = TRUE, !.confirmed = confirmed, !.sent = sent, !.repairConfirmed = repaired]
StateMissing(s) == [s EXCEPT !.missing = TRUE]
StateFinished(s) == [s EXCEPT !.remoteFinished = TRUE]
StateFinishing(s, b) == [s EXCEPT !.finishRequested = b]
StateReopened(s) == [s EXCEPT !.remoteFinished = FALSE, !.finishRequested = FALSE]

LEMMA SavedReads ==
    ASSUME NEW s \in SavedStates, NEW confirmed \in Nat, NEW sent \in SUBSET Nat, NEW d, d = StateRead(s, confirmed, sent)
    PROVE  /\ d \in SavedStates /\ d.confirmed = confirmed /\ d.sent = sent /\ d.remoteFinished = s.remoteFinished
           /\ d.missing = s.missing
  BY DEF SavedStates, StateRead
LEMMA SavedOpens ==
    ASSUME NEW s \in SavedStates, NEW confirmed \in Nat, NEW sent \in SUBSET Nat, NEW repaired \in BOOLEAN, NEW d,
           d = StateNext(s, confirmed, sent, repaired)
    PROVE  d \in SavedStates /\ d.confirmed = confirmed /\ d.sent = sent /\ d.remoteFinished = s.remoteFinished
  BY DEF SavedStates, StateNext
SameMarks(s, d) == d \in SavedStates /\ d.confirmed = s.confirmed /\ d.sent = s.sent
LEMMA SavedTurns ==
    ASSUME NEW s \in SavedStates, NEW b \in BOOLEAN
    PROVE  /\ SameMarks(s, StateMissing(s)) /\ StateMissing(s).remoteFinished = s.remoteFinished
           /\ SameMarks(s, StateFinished(s)) /\ StateFinished(s).remoteFinished
           /\ SameMarks(s, StateFinishing(s, b)) /\ StateFinishing(s, b).remoteFinished = s.remoteFinished
           /\ SameMarks(s, StateReopened(s)) /\ ~StateReopened(s).remoteFinished
  BY DEF SavedStates, SameMarks, StateMissing, StateFinished, StateFinishing, StateReopened
LEMMA SavedRepairs ==
    ASSUME NEW s \in SavedStates, NEW missing \in SUBSET Nat
    PROVE  /\ RecordRepair(s, missing) \in SavedStates /\ RecordRepair(s, missing).confirmed = s.confirmed
           /\ RecordRepair(s, missing).sent = s.sent /\ RecordRepair(s, missing).remoteFinished = s.remoteFinished
  BY DEF SavedStates, RecordRepair

------------
\* What is appended to the journal: reported events, and the rows of a file.
RowsGrow(rows, more) == Len(rows) <= Len(more) /\ \A n \in 1..Len(rows) : more[n] = rows[n]
Databases == [rows : Seq(PubRows), ids : SUBSET Reports, conflict : BOOLEAN]
DatabaseGrows(a, b) == a.ids \subseteq b.ids /\ RowsGrow(a.rows, b.rows)

LEMMA RowIsTold ==
    ASSUME NEW rows, NEW ids, RecordsOK(rows, ids), NEW r \in PubRows, NEW more, more = Append(rows, r),
           NEW e \in Reports, r = EventRow(e), \A i \in ids : i.id # e.id,
           ~\E s \in ToSet(rows) : s.batch = Nobody /\ Metric(s) /\ s.body = e.body
    PROVE  RecordsOK(more, ids \cup {e}) /\ RowsGrow(rows, more)
<1>1. rows \in Seq(PubRows) /\ Len(rows) \in Nat /\ ids \subseteq Reports BY DEF RecordsOK
<1>2. /\ more \in Seq(PubRows) /\ Len(more) = Len(rows) + 1 /\ more[Len(rows) + 1] = r
      /\ \A n \in 1..Len(rows) : more[n] = rows[n]
  BY <1>1
<1>3. \A n \in 1..Len(more) : n \in 1..Len(rows) \/ n = Len(rows) + 1 BY <1>1, <1>2
<1>4. \A n \in 1..Len(rows) : TellApart(rows[n], r)
 <2> TAKE n \in 1..Len(rows)
 <2>1. rows[n] \in PubRows /\ rows[n] \in ToSet(rows) BY <1>1 DEF ToSet
 <2>2. r.id = e.id /\ r.body = e.body /\ r.batch = Nobody BY DEF EventRow
 <2>3. CASE rows[n].batch = Nobody
  <3>1. PICK i \in ids : rows[n] = EventRow(i) BY <2>3 DEF RecordsOK
  <3> QED BY <2>1, <2>2, <2>3, <3>1 DEF TellApart, EventRow
 <2>4. CASE rows[n].batch # Nobody
  <3>1. PICK b \in Batches : \E i \in 1..Len(b.bodies) : rows[n] = DerivedRow(b, i)
   <4> QED BY <2>1, <2>4 DEF PubRows, EventRow
  <3>2. PICK i \in 1..Len(b.bodies) : rows[n] = DerivedRow(b, i) BY <3>1
  <3> QED BY <2>2, <2>4, <3>2, JournalAssumption DEF TellApart, DerivedRow
 <2> QED BY <2>3, <2>4
<1>5. \A m, n \in 1..Len(more) : m < n => TellApart(more[m], more[n])
 <2> TAKE m, n \in 1..Len(more)
 <2> HAVE m < n
 <2>1. m \in 1..Len(rows) BY <1>1, <1>2
 <2>2. CASE n = Len(rows) + 1 BY <1>2, <1>4, <2>1, <2>2
 <2>3. CASE n \in 1..Len(rows) BY <1>2, <2>1, <2>3 DEF RecordsOK
 <2> QED BY <1>3, <2>2, <2>3
<1> QED BY <1>1, <1>2, <1>5, <1>3 DEF RecordsOK, RowsGrow

LEMMA OneRecord ==
    ASSUME NEW db \in Databases, NEW e \in Reports, RecordsOK(db.rows, db.ids), NEW d, d = AppendOne(db, e)
    PROVE  d \in Databases /\ RecordsOK(d.rows, d.ids) /\ DatabaseGrows(db, d)
<1>1. EventRow(e) \in PubRows /\ db.rows \in Seq(PubRows) /\ Len(db.rows) \in Nat BY DEF PubRows, Databases
<1>2. RowsGrow(db.rows, db.rows) BY <1>1 DEF RowsGrow
<1>3. CASE \E i \in db.ids : i.id = e.id
 <2>2. d \in Databases /\ d.rows = db.rows /\ d.ids = db.ids BY <1>3 DEF Databases, AppendOne
 <2> QED BY <1>2, <2>2 DEF DatabaseGrows
<1>4. CASE ~\E i \in db.ids : i.id = e.id
 <2> DEFINE known == \E r \in ToSet(db.rows) : r.batch = Nobody /\ Metric(r) /\ r.body = e.body
            rows == IF known THEN db.rows ELSE Append(db.rows, EventRow(e))
 <2>1. d = [db EXCEPT !.ids = @ \cup {e}, !.rows = rows] BY <1>4 DEF AppendOne, EventRow
 <2>2. rows \in Seq(PubRows) BY <1>1
 <2>3. d \in Databases /\ d.ids = db.ids \cup {e} /\ d.rows = rows
  <3> HIDE DEF rows
  <3> QED BY <2>1, <2>2 DEF Databases
 <2>4. CASE known
  <3>2. RecordsOK(db.rows, db.ids \cup {e}) BY DEF RecordsOK
  <3> QED BY <1>2, <2>3, <2>4, <3>2 DEF DatabaseGrows
 <2>5. CASE ~known
  <3>1. d.rows = Append(db.rows, EventRow(e)) BY <2>3, <2>5
  <3>2. RecordsOK(d.rows, db.ids \cup {e}) /\ RowsGrow(db.rows, d.rows) BY <1>1, <1>4, <2>5, <3>1, RowIsTold
  <3> QED BY <2>3, <3>2 DEF DatabaseGrows
 <2> QED BY <2>4, <2>5
<1> QED BY <1>3, <1>4

LEMMA GrowthFollows ==
    ASSUME NEW a \in Databases, NEW b \in Databases, NEW c \in Databases, DatabaseGrows(a, b), DatabaseGrows(b, c)
    PROVE  DatabaseGrows(a, c)
<1>1. Len(a.rows) \in Nat /\ Len(b.rows) \in Nat /\ Len(c.rows) \in Nat BY DEF Databases
<1>2. Len(a.rows) <= Len(b.rows) /\ Len(b.rows) <= Len(c.rows) BY DEF DatabaseGrows, RowsGrow
<1>4. \A n \in 1..Len(a.rows) : c.rows[n] = a.rows[n] BY <1>1, <1>2 DEF DatabaseGrows, RowsGrow
<1> QED BY <1>1, <1>2, <1>4 DEF DatabaseGrows, RowsGrow

LEMMA RecordsAreAppended ==
    ASSUME NEW db \in Databases, RecordsOK(db.rows, db.ids), NEW events \in Seq(Reports), NEW d, d = AppendedTo(db, events)
    PROVE  d \in Databases /\ RecordsOK(d.rows, d.ids) /\ DatabaseGrows(db, d)
<1> DEFINE m == Len(events)
           F(f) == IsFold(f, "append", db, events, m)
           all == CHOOSE f : F(f)
           Good(a) == a \in Databases /\ RecordsOK(a.rows, a.ids) /\ DatabaseGrows(db, a)
           bad == {n \in Nat : n <= m /\ ~Good(all[n])}
<1>1. m \in Nat OBVIOUS
<1>2. d = all[m] BY DEF AppendedTo, IsFold, FoldSteps
<1>3. F(all)
 <2> QED BY <1>1, FoldExists
<1>4. all[0] = db /\ \A n \in 1..m : all[n] = FoldSteps("append", events, n, all[n - 1])
 <2> HIDE DEF all, m
 <2>1. IsFold(all, "append", db, events, m) BY <1>3
 <2> HIDE DEF F
 <2> QED BY <1>1, <2>1, FoldAt
<1>5. \A n \in 1..m : events[n] \in Reports OBVIOUS
<1> HIDE DEF all, m
<1>6. bad = {}
 <2> SUFFICES ASSUME bad # {} PROVE FALSE OBVIOUS
 <2>1. PICK n : n = Least(bad) OBVIOUS
 <2>2. n \in bad /\ \A j \in bad : n <= j
  <3>1. bad \in SUBSET Nat OBVIOUS
  <3> HIDE DEF bad
  <3> QED BY <2>1, <3>1, LeastIsThere
 <2>3. n \in Nat /\ n <= m /\ ~Good(all[n]) BY <2>2
 <2>4. Good(db)
  <3>2. Len(db.rows) \in Nat BY DEF Databases
  <3> QED BY <3>2 DEF DatabaseGrows, RowsGrow
 <2>6. PICK k \in Nat : n = k + 1 BY <2>3, <1>4, <2>4
 <2>7. k < n /\ k <= m /\ n \in 1..m /\ n - 1 = k BY <1>1, <2>3, <2>6
 <2>8. Good(all[k]) BY <2>2, <2>7
 <2>9. all[n] = AppendOne(all[k], events[n]) BY <1>4, <2>7 DEF FoldSteps
 <2>10. /\ all[n] \in Databases /\ RecordsOK(all[n].rows, all[n].ids) /\ DatabaseGrows(all[k], all[n])
   BY <1>5, <2>7, <2>8, <2>9, OneRecord
 <2> QED BY <2>3, <2>10, <2>8, GrowthFollows
<1>7. Good(all[m]) BY <1>1, <1>6
<1> QED BY <1>2, <1>7

LEMMA IngestGrows ==
    ASSUME RecordsInv, NEW events \in Seq(Reports), Ingest(events)
    PROVE  RecordsInv' /\ RowsGrow(journal, journal') /\ eventIds \subseteq eventIds'
<1> DEFINE db == [rows |-> journal, ids |-> eventIds, conflict |-> FALSE]
<1>1. db \in Databases /\ RecordsOK(db.rows, db.ids) BY DEF RecordsInv, RecordsOK, Databases
<1>2. PICK d : d = AppendedTo(db, events) OBVIOUS
<1>4. RecordsOK(d.rows, d.ids) /\ DatabaseGrows(db, d)
 <2> HIDE DEF db
 <2> QED BY <1>1, <1>2, RecordsAreAppended
<1> QED BY <1>2, <1>4 DEF DatabaseGrows, RecordsInv, Ingest, Appended

LEMMA DerivedGrows ==
    ASSUME RecordsInv, NEW b \in Batches, AddDerived(b)
    PROVE  /\ RecordsInv' /\ RowsGrow(journal, journal') /\ eventIds' = eventIds
           /\ \A n \in 1..Total' : n > Total => journal'[n].body.kind = "derived" /\ journal'[n].batch # Nobody
<1> DEFINE rows == [i \in 1..Len(b.bodies) |-> [id |-> DerivedId(b, i), body |-> b.bodies[i], batch |-> b.sha]]
           m == Len(journal)
           k == Len(b.bodies)
<1>1. journal \in Seq(PubRows) /\ m \in Nat /\ b.bodies \in Seq(DerivedBodies) /\ k \in Nat
  BY JournalAssumption DEF RecordsInv, RecordsOK
<1>2. rows \in Seq(PubRows) /\ Len(rows) = k /\ \A i \in 1..k : rows[i] = DerivedRow(b, i)
 <2>1. rows = [i \in 1..k |-> DerivedRow(b, i)] BY DEF DerivedRow
 <2>2. \A i \in 1..k : DerivedRow(b, i) \in PubRows BY DEF PubRows
 <2> HIDE DEF rows, k
 <2>3. rows \in [1..k -> PubRows] BY <2>1, <2>2
 <2>4. rows \in Seq(PubRows) BY <1>1, <2>3
 <2>5. DOMAIN rows = 1..k BY <2>1
 <2>6. Len(rows) = k BY <1>1, <2>4, <2>5
 <2> QED BY <2>1, <2>4, <2>6
<1>3. journal' = journal \o rows /\ eventIds' = eventIds BY DEF AddDerived
<1> HIDE DEF rows
<1>4. /\ journal' \in Seq(PubRows) /\ Len(journal') = m + k /\ \A n \in 1..m : journal'[n] = journal[n]
      /\ \A i \in 1..k : journal'[m + i] = DerivedRow(b, i)
 <2> HIDE DEF k
 <2>1. journal' \in Seq(PubRows) /\ Len(journal') = m + k /\ \A n \in 1..m : journal'[n] = journal[n]
   BY <1>1, <1>2, <1>3
 <2>2. \A i \in 1..k : m + i \in m + 1..m + k /\ (m + i) - m = i BY <1>1
 <2>3. \A i \in 1..k : journal'[m + i] = rows[i] BY <1>1, <1>2, <1>3, <2>2
 <2> QED BY <1>2, <2>1, <2>3
<1>5. \A n \in 1..Len(journal') : n \in 1..m \/ \E i \in 1..k : n = m + i
 <2> TAKE n \in 1..Len(journal')
 <2>1. CASE n <= m BY <1>1, <2>1
 <2>2. CASE n > m
  <3>1. n - m \in 1..k /\ n = m + (n - m) BY <1>1, <1>4, <2>2
  <3> QED BY <3>1
 <2> QED BY <1>1, <2>1, <2>2
<1>6. \A i \in 1..k : /\ DerivedRow(b, i).batch = b.sha /\ b.sha # Nobody
                      /\ DerivedRow(b, i).body = b.bodies[i] /\ b.bodies[i].kind = "derived"
                      /\ DerivedRow(b, i).id = DerivedId(b, i)
 <2> TAKE i \in 1..k
 <2>1. b.bodies[i] \in DerivedBodies BY <1>1
 <2> QED BY <2>1, JournalAssumption DEF DerivedRow
<1>7. \A n \in 1..m, i \in 1..k : TellApart(journal[n], DerivedRow(b, i))
 <2> TAKE n \in 1..m, i \in 1..k
 <2>1. journal[n] \in ToSet(journal) /\ journal[n] \in PubRows BY <1>1 DEF ToSet
 <2>2. journal[n].batch # b.sha BY <2>1 DEF AddDerived
 <2>3. CASE journal[n].batch = Nobody
  <3>1. PICK e \in eventIds : journal[n] = EventRow(e) BY <2>3 DEF RecordsInv, RecordsOK
  <3>2. journal[n].id # DerivedId(b, i) BY <3>1 DEF AddDerived, EventRow
  <3>3. Metric(journal[n]) => b.bodies[i].name # journal[n].body.name
   <4>1. b.bodies[i] \in ToSet(b.bodies) BY <1>1 DEF ToSet
   <4>2. Metric(journal[n]) => journal[n] \in {r \in Training : Metric(r)} BY <2>1, <2>3 DEF Training
   <4> QED BY <4>1, <4>2 DEF AddDerived
  <3> QED BY <1>6, <2>3, <3>2, <3>3 DEF TellApart
 <2>4. CASE journal[n].batch # Nobody
  <3>1. \A f \in Reports : EventRow(f).batch = Nobody BY DEF EventRow
  <3>2. PICK c \in Batches : \E j \in 1..Len(c.bodies) : journal[n] = DerivedRow(c, j) BY <2>1, <2>4, <3>1 DEF PubRows
  <3>3. PICK j \in 1..Len(c.bodies) : journal[n] = DerivedRow(c, j) BY <3>2
  <3>4. journal[n].id = DerivedId(c, j) /\ c.sha # b.sha BY <2>2, <3>3 DEF DerivedRow
  <3>5. DerivedId(c, j) # DerivedId(b, i) BY <3>4 DEF DerivedId
  <3> QED BY <1>6, <2>4, <3>4, <3>5 DEF TellApart
 <2> QED BY <2>3, <2>4
<1>8. \A i, j \in 1..k : i # j => TellApart(DerivedRow(b, i), DerivedRow(b, j))
 <2> TAKE i, j \in 1..k
 <2>1. i # j => DerivedId(b, i) # DerivedId(b, j) BY DEF DerivedId
 <2> QED BY <1>6, <2>1 DEF TellApart
<1>9. \A p, n \in 1..Len(journal') : p < n => TellApart(journal'[p], journal'[n])
 <2> TAKE p, n \in 1..Len(journal')
 <2> HAVE p < n
 <2>1. CASE n \in 1..m
  <3>1. p \in 1..m BY <1>1, <2>1
  <3> QED BY <1>4, <2>1, <3>1 DEF RecordsInv, RecordsOK
 <2>2. ASSUME NEW i \in 1..k, n = m + i PROVE TellApart(journal'[p], journal'[n])
  <3>1. CASE p \in 1..m BY <1>4, <1>7, <2>2, <3>1
  <3>2. ASSUME NEW j \in 1..k, p = m + j PROVE TellApart(journal'[p], journal'[n])
   <4>1. i # j BY <1>1, <2>2, <3>2
   <4> QED BY <1>4, <1>8, <2>2, <3>2, <4>1
  <3> QED BY <1>5, <3>1, <3>2
 <2> QED BY <1>5, <2>1, <2>2
<1>10. \A n \in 1..Len(journal') : n > m => journal'[n].body.kind = "derived" /\ journal'[n].batch # Nobody
 <2> TAKE n \in 1..Len(journal')
 <2> HAVE n > m
 <2>1. PICK i \in 1..k : n = m + i BY <1>1, <1>5
 <2>2. journal'[n] = DerivedRow(b, i) BY <1>4, <2>1
 <2> QED BY <1>6, <2>2, Zenon
<1>11. \A n \in 1..Len(journal') : journal'[n].batch = Nobody => \E e \in eventIds' : journal'[n] = EventRow(e)
 <2> TAKE n \in 1..Len(journal')
 <2> HAVE journal'[n].batch = Nobody
 <2>1. ~(n > m) BY <1>10
 <2>2. n \in 1..m BY <1>1, <1>5, <2>1
 <2> QED BY <1>3, <1>4, <2>2 DEF RecordsInv, RecordsOK
<1>12. RecordsInv'
 <2>1. eventIds' \subseteq Reports BY <1>3 DEF RecordsInv, RecordsOK
 <2> QED BY <1>4, <1>9, <1>11, <2>1 DEF RecordsInv, RecordsOK
<1>13. RowsGrow(journal, journal') BY <1>1, <1>4 DEF RowsGrow
<1> QED BY <1>3, <1>10, <1>12, <1>13 DEF Total

------------
\* What a step of the publisher keeps of the scope, and of what is confirmed or reserved.
SameScope == /\ Here' = Here /\ Len(rebuilds)' = Len(rebuilds)
             /\ \A w \in 0..Len(rebuilds) : ListOf(w)' = ListOf(w)
Onwards == SameScope /\ Cursor' \in Nat /\ Cursor <= Cursor' /\ \A n : Accounted(n) => Accounted(n)'

LEMMA ItemMoves ==
    ASSUME PublisherInv, Onwards, wandb' = wandb, NEW f \in Items, ItemOK(f)
    PROVE  ItemOK(f)'
<1>2. f.w \in 0..Len(rebuilds) /\ f.w <= Len(rebuilds)' BY DEF ItemOK, Items, Onwards, SameScope
<1>3. f.w = Here' <=> f.w = Here BY DEF Onwards, SameScope
<1>4. f.kind = "row" => f.list = ListOf(f.w)' BY <1>2 DEF ItemOK, Onwards, SameScope
<1>5. f.kind = "display" /\ f.w = Here => f.n <= Cursor'
 <2>2. f.kind = "display" /\ f.w = Here => f.n <= Cursor BY DEF ItemOK
 <2>3. Cursor' \in Nat /\ Cursor <= Cursor' BY DEF Onwards
 <2> QED BY <2>2, <2>3 DEF Items, PublisherInv, ScopeOK, Cursor
<1>6. f.kind = "row" /\ f.w = Here => Accounted(f.n)' BY DEF ItemOK, Onwards
<1> QED BY <1>2, <1>3, <1>4, <1>5, <1>6 DEF ItemOK, Shows

LEMMA RunsStay ==
    ASSUME PublisherInv, SameScope, wandb' = wandb
    PROVE  WandbOK'
<1> SUFFICES ASSUME NEW w \in 0..MaxRuns PROVE RunOK(w)' BY DEF PublisherInv, WandbOK
<1>1. RunOK(w) /\ wandb \in [0..MaxRuns -> WandbRuns] BY DEF PublisherInv, WandbOK
<1>3. Len(rebuilds)' = Len(rebuilds) /\ Len(rebuilds) \in Nat BY DEF SameScope, PublisherInv, ScopeOK
<1>4. \A r \in ToSet(wandb[w].rows) : r.list = ListOf(w)'
 <2>1. CASE w <= Len(rebuilds)
  <3> QED BY <1>1, <1>3, <2>1, PublisherAssumption DEF RunOK, SameScope
 <2>2. CASE w > Len(rebuilds)
  <3> QED BY <1>1, <2>2 DEF ToSet, RunOK, NoRun
 <2> QED BY <1>3, <2>1, <2>2, PublisherAssumption
<1> QED BY <1>1, <1>3, <1>4 DEF RunOK, Shows

LEMMA ItemsStay ==
    ASSUME PublisherInv, Onwards, wandb' = wandb, child' = child, loose' \subseteq loose, Framing' \in {<<>>, Framing}
    PROVE  ItemsOK'
<1>1. ItemsOK BY DEF PublisherInv
<1>2. ToSet(child)' = ToSet(child) BY DEF ToSet
<1>3. ToSet(Framing)' \subseteq ToSet(Framing) /\ Framing' \in Seq(Items) /\ Once(Framing)'
 <2>1. CASE Framing' = Framing BY <1>1, <2>1 DEF ItemsOK, ToSet, Once
 <2>2. CASE Framing' = <<>>
  <3> QED BY <2>2 DEF Once, ToSet
 <2> QED BY <2>1, <2>2
<1>5. \A f \in ToSet(child)' \cup loose' \cup ToSet(Framing)' : ItemOK(f)'
  BY <1>1, <1>2, <1>3, ItemMoves DEF ItemsOK, ToSet
<1>7. Apart(ToSet(child), loose)' /\ Apart(ToSet(child), ToSet(Framing))' /\ Apart(loose, ToSet(Framing))'
  BY <1>1, <1>2, <1>3 DEF ItemsOK, Apart
<1> QED BY <1>1, <1>3, <1>5, <1>7 DEF ItemsOK, Once

LEMMA ItemsAreLost ==
    ASSUME PublisherInv, Onwards, wandb' = wandb, child' = <<>>, loose' = loose \cup ToSet(child), Framing' = <<>>
    PROVE  ItemsOK'
<1>1. ItemsOK BY DEF PublisherInv
<1>3. ToSet(child) \subseteq Items /\ loose \subseteq Items BY <1>1 DEF ItemsOK, ToSet
<1>4. \A f \in ToSet(child) \cup loose : ItemOK(f)' BY <1>1, <1>3, ItemMoves DEF ItemsOK
<1> QED BY <1>3, <1>4 DEF ItemsOK, Once, Apart, ToSet

LEMMA StoreRests ==
    ASSUME PublisherInv, NoStore
    PROVE  /\ RecordsInv' /\ ScopeOK' /\ SavedOK' /\ Onwards /\ (wandb' = wandb => WandbOK' /\ ShownOK')
           /\ Total' = Total /\ Ended' = Ended /\ Here' = Here /\ Cursor' = Cursor /\ Bound' = Bound
<1>1. RecordsInv' BY DEF PublisherInv, RecordsInv, NoStore, journalVars
<1>2. ScopeOK' BY DEF PublisherInv, ScopeOK, NoStore, journalVars, Here
<1>3. Total' = Total /\ Ended' = Ended /\ Here' = Here /\ Cursor' = Cursor
  BY DEF NoStore, journalVars, Total, Ended, LatestLifecycle, Here, Cursor
<1>4. Bound' = Bound BY DEF NoStore, journalVars, Bound, Live, FenceNames
<1>5. SavedOK' BY <1>3 DEF PublisherInv, SavedOK, NoStore, journalVars, OnlyDerivedAfter
<1>6. SameScope BY <1>3 DEF NoStore, journalVars, SameScope, ListOf
<1>7. \A n : Accounted(n) <=> Accounted(n)' BY <1>3 DEF Accounted, NoStore, journalVars
<1>9. Onwards BY <1>3, <1>6, <1>7 DEF Onwards, PublisherInv, ScopeOK, Cursor
<1>10. wandb' = wandb => WandbOK' BY <1>6, RunsStay
<1>11. wandb' = wandb => ShownOK'
 <2>2. saved' = saved BY DEF NoStore, journalVars
 <2> QED BY <1>3, <1>7, <2>2 DEF ShownOK, PublisherInv, Shows
<1> QED BY <1>1, <1>2, <1>3, <1>4, <1>5, <1>9, <1>10, <1>11

LEMMA RestIsOK ==
    ASSUME visit' = Resting
    PROVE  VisitOK' /\ Framing' = <<>>
<1>1. visit'.at = "rest" BY DEF Resting
<1> QED BY <1>1, RestIsVisit DEF VisitOK, ToSet, Knowing, Framing

Sessions == [held : BOOLEAN, watch : Watches, under : SUBSET Items, idle : Int, bound : Int]
\* A session between two visits: what it watches is kept, or forgotten.
LEMMA SessionRests ==
    ASSUME PublisherInv, visit.at # "repaired" \/ child' = <<>>, visit' = Resting, Here' = Here, session' \in Sessions,
           session'.bound = session.bound,
           \/ child' = child /\ session'.held = session.held
           \/ child' = <<>>,
           session'.watch # NoWatch => loose' \subseteq session'.under
    PROVE  SessionOK'
<1>1. visit'.at = "rest" BY DEF Resting
<1>2. CASE child' = child /\ session'.held = session.held
 <2>1. NothingOfHere' <=> NothingOfHere BY <1>2 DEF NothingOfHere, ToSet
 <2>2. visit.at # "repaired" \/ NothingOfHere' BY DEF NothingOfHere, ToSet
 <2> QED BY <1>1, <1>2, <2>1, <2>2 DEF PublisherInv, SessionOK, Sessions
<1>3. CASE child' = <<>>
 <2> QED BY <1>1, <1>3 DEF SessionOK, Sessions, NothingOfHere, ToSet
<1> QED BY <1>2, <1>3

------------
\* What else happens to the scope.
LEMMA EndedStays ==
    ASSUME RecordsInv, RecordsInv', RowsGrow(journal, journal'), Ended,
           \A n \in 1..Total' : n > Total => journal'[n].body.kind = "derived"
    PROVE  Ended'
<1> DEFINE at == {n \in 1..Total : journal[n].body.kind \in {"lifecycle", "ended"}}
           last == CHOOSE n \in at : \A m \in at : m <= n
<1>1. Total \in Nat /\ Total' \in Nat /\ Total <= Total' BY DEF RecordsInv, RecordsOK, Total, RowsGrow
<1>2. \A n \in 1..Total : n \in 1..Total' /\ journal'[n] = journal[n] BY <1>1 DEF RowsGrow, Total
<1>3. at' = at
 <2> QED BY <1>2, <1>1
<1>4. at # {} /\ journal[last].body.kind = "ended"
 <2>1. LatestLifecycle = IF at = {} THEN "none" ELSE journal[last].body.kind BY DEF LatestLifecycle
 <2> HIDE DEF at, last
 <2> QED BY <2>1 DEF Ended
<1>5. last \in at
 <2>1. at \in SUBSET (1..Total) OBVIOUS
 <2> HIDE DEF at
 <2>2. \E g \in at : \A k \in at : k <= g BY <1>1, <1>4, <2>1, GreatestIsThere
 <2> QED BY <2>2
<1>7. journal'[last].body.kind = "ended" BY <1>2, <1>4, <1>5
<1>8. LatestLifecycle' = journal'[last].body.kind
 <2>1. LatestLifecycle' = IF at' = {} THEN "none" ELSE journal'[CHOOSE n \in at' : \A m \in at' : m <= n].body.kind
   BY DEF LatestLifecycle
 <2> HIDE DEF at
 <2> QED BY <1>3, <1>4, <2>1
<1> QED BY <1>7, <1>8 DEF Ended

LEMMA SessionStays ==
    ASSUME PublisherInv, UNCHANGED publisherVars, Here' = Here
    PROVE  SessionOK'
<1>2. Shows(Here)' = Shows(Here) BY DEF Shows, publisherVars
<1> QED BY <1>2 DEF PublisherInv, SessionOK, publisherVars, NothingOfHere

LEMMA PublisherWaits ==
    ASSUME PublisherInv, UNCHANGED publisherVars, Onwards, RecordsInv', ScopeOK', SavedOK', ShownOK', VisitOK'
    PROVE  PublisherInv'
<1>3. ItemsOK' BY ItemsStay DEF publisherVars, Framing
<1>4. SessionOK' BY SessionStays DEF Onwards, SameScope
<1> QED BY RunsStay, <1>3, <1>4 DEF PublisherInv, Onwards, publisherVars

\* Steps that leave the journal, the cursor and the saved state alone, between two visits.
LEMMA ScopeIsNamed ==
    ASSUME PublisherInv, UNCHANGED publisherVars, UNCHANGED <<journal, eventIds, rebuilds, saved, providerEnded>>,
           visit = Resting, Here' = Here, Cursor' = Cursor, ScopeOK'
    PROVE  PublisherInv'
<1>3. SavedOK' BY DEF PublisherInv, SavedOK, OnlyDerivedAfter, Total, Ended, LatestLifecycle
<1>4. \A n : Accounted(n) <=> Accounted(n)' BY DEF Accounted
<1>6. Onwards BY <1>4 DEF Onwards, PublisherInv, ScopeOK, Cursor, SameScope, ListOf
<1>7. ShownOK'
 <2>1. wandb' = wandb BY DEF publisherVars
 <2> QED BY <1>4, <2>1 DEF PublisherInv, ShownOK, Shows
<1>8. VisitOK' BY RestIsOK DEF publisherVars
<1> QED BY <1>3, <1>6, <1>7, <1>8, PublisherWaits DEF PublisherInv, RecordsInv

LEMMA ScopeTurns ==
    ASSUME PublisherInv, UNCHANGED publisherVars,
           \/ \E b \in Bindings : Bind(b)
           \/ OpenScope
           \/ visit = Resting /\ \E name \in {"run", "parent"} : Mark(name)
    PROVE  PublisherInv'
<1> USE DEF PublisherInv
<1>1. ASSUME NEW b \in Bindings, Bind(b) PROVE PublisherInv'
 <2>1. visit = Resting BY <1>1, VisitStages DEF Bind, VisitOK, Bound, ScopeOK
 <2> QED BY <1>1, <2>1, ScopeIsNamed DEF Bind, Here, Cursor, ScopeOK
<1>2. CASE OpenScope
 <2>1. visit = Resting BY <1>2, VisitStages DEF OpenScope, VisitOK, Bound
 <2>2. Here' = Here /\ Cursor' = Cursor BY <1>2 DEF OpenScope, Here, Cursor, ScopeOK
 <2>3. ScopeOK'
  <3> QED BY <1>2, <2>2 DEF OpenScope, ScopeOK
 <2> QED BY <1>2, <2>1, <2>2, <2>3, ScopeIsNamed DEF OpenScope
<1>3. ASSUME visit = Resting, NEW name \in {"run", "parent"}, Mark(name) PROVE PublisherInv'
 <2> QED BY <1>3, ScopeIsNamed DEF Mark, Here, Cursor, ScopeOK
<1> QED BY <1>1, <1>2, <1>3

\* The journal grows under a visit: what the visit read of it is still so.
LEMMA ScopeGrows ==
    ASSUME PublisherInv, UNCHANGED publisherVars, UNCHANGED <<binding, scopeRow, rebuilds, saved, deleted>>,
           RecordsInv', RowsGrow(journal, journal'), providerEnded' \in BOOLEAN, providerEnded => providerEnded',
           ~Late => \/ ~Ended /\ ~providerEnded
                    \/ /\ Ended => Ended'
                       /\ \A n \in 1..Total' : n > Total => journal'[n].batch # Nobody
    PROVE  PublisherInv'
<1> USE DEF PublisherInv
<1>1. Total \in Nat /\ Total' \in Nat /\ Total <= Total' BY DEF RecordsInv, RecordsOK, Total, RowsGrow
<1>2. Here' = Here /\ Cursor' = Cursor /\ Bound' = Bound /\ ScopeOK'
  BY DEF Here, Cursor, Bound, Live, FenceNames, ScopeOK
<1>3. Onwards BY <1>2 DEF Onwards, SameScope, ListOf, Accounted, ScopeOK, Cursor
<1>4. \A n \in Nat : ~(~Ended /\ ~providerEnded) /\ ~Late /\ OnlyDerivedAfter(n) => OnlyDerivedAfter(n)'
 <2> TAKE n \in Nat
 <2> HAVE ~(~Ended /\ ~providerEnded) /\ ~Late /\ OnlyDerivedAfter(n)
 <2>2. \A k \in n + 1..Total : k \in 1..Total /\ journal'[k] = journal[k] BY <1>1 DEF RowsGrow, Total
 <2>3. \A k \in n + 1..Total' : journal'[k].batch # Nobody BY <1>1, <2>2 DEF OnlyDerivedAfter
 <2> QED BY <2>3 DEF OnlyDerivedAfter
<1>5. SavedOK'
 <2>2. ~Late /\ saved.remoteFinished => (Ended' \/ providerEnded') /\ OnlyDerivedAfter(Cursor)'
  <3>2. ~Late /\ saved.remoteFinished => OnlyDerivedAfter(Cursor) /\ (Ended \/ providerEnded) BY DEF SavedOK
  <3>3. ~Late /\ saved.remoteFinished => \A k \in Cursor + 1..Total' : journal'[k].batch # Nobody
    BY <1>4, <3>2 DEF OnlyDerivedAfter, ScopeOK, Cursor
  <3> QED BY <1>2, <3>2, <3>3 DEF OnlyDerivedAfter
 <2> QED BY <1>2, <1>1, <2>2 DEF SavedOK, ScopeOK, Cursor
<1>6. ShownOK'
 <2> QED BY <1>2 DEF ShownOK, Accounted, Shows, publisherVars
<1>7. visit' = visit /\ wandb' = wandb /\ session' = session BY DEF publisherVars
<1>8. visit.at \in Knowing => ScopeIsRead'
 <2> HAVE visit.at \in Knowing
 <2>1. ScopeIsRead /\ visit \in VisitRecords BY VisitStages DEF VisitOK
 <2>2. visit.total \in Nat /\ visit.total <= Total' BY <1>1, <2>1 DEF ScopeIsRead, VisitRecords
 <2>3. visit.ended => providerEnded' /\ (~Late => OnlyDerivedAfter(visit.total)')
  <3>1. visit.ended => providerEnded /\ (~Late => OnlyDerivedAfter(visit.total)) BY <2>1 DEF ScopeIsRead
  <3> QED BY <1>7, <3>1, <1>4, <2>2 DEF OnlyDerivedAfter
 <2> QED BY <1>2, <1>7, <2>1, <2>2, <2>3 DEF ScopeIsRead
<1>9. visit.at \in {"observe", "plan", "save"} => SavedIsRead'
 <2> HAVE visit.at \in {"observe", "plan", "save"}
 <2>1. SavedIsRead /\ visit \in VisitRecords BY VisitStages DEF VisitOK, Knowing
 <2>2. visit.through \in Nat /\ visit.through <= Total' BY <1>1, <2>1 DEF SavedIsRead, VisitRecords
 <2>3. ~Late /\ visit.drained /\ visit.confirmed = visit.through => Ended' /\ OnlyDerivedAfter(visit.through)'
  <3>2. ~Late /\ visit.drained /\ visit.confirmed = visit.through
          => Ended' /\ \A k \in visit.through + 1..Total' : journal'[k].batch # Nobody
    BY <1>4, <2>2, <2>1 DEF OnlyDerivedAfter, SavedIsRead
  <3> QED BY <1>7, <3>2 DEF OnlyDerivedAfter
 <2> QED BY <1>7, <2>1, <2>2, <2>3, <1>2 DEF SavedIsRead, ListOf
<1>10. visit.at \in {"plan", "save"} => RunIsSeen'
  BY <1>2, <1>7 DEF VisitOK, RunIsSeen, Shows
<1>11. visit.at = "save" => PlanOK' BY <1>2, <1>7 DEF VisitOK, PlanOK
<1>12. ToSet(Framing)' = ToSet(Framing) BY <1>7 DEF Framing
<1>13. VisitOK' BY <1>2, <1>7, <1>8, <1>9, <1>10, <1>11, <1>12 DEF VisitOK
<1> QED BY <1>2, <1>3, <1>5, <1>6, <1>13, PublisherWaits

LEMMA JournalTurns ==
    ASSUME PublisherInv, UNCHANGED publisherVars,
           \/ (Late \/ (~Ended /\ ~providerEnded)) /\ \E events \in Seq(Reports) : Ingest(events)
           \/ \E b \in Batches : AddDerived(b)
           \/ ProviderEnds
    PROVE  PublisherInv'
<1>1. RecordsInv /\ providerEnded \in BOOLEAN BY DEF PublisherInv, ScopeOK
<1>2. ASSUME Late \/ (~Ended /\ ~providerEnded), NEW events \in Seq(Reports), Ingest(events) PROVE PublisherInv'
 <2> QED BY <1>1, <1>2, IngestGrows, ScopeGrows DEF Ingest
<1>3. ASSUME NEW b \in Batches, AddDerived(b) PROVE PublisherInv'
 <2>1. /\ RecordsInv' /\ RowsGrow(journal, journal')
       /\ \A n \in 1..Total' : n > Total => journal'[n].body.kind = "derived" /\ journal'[n].batch # Nobody
   BY <1>1, <1>3, DerivedGrows
 <2> QED BY <1>1, <1>3, <2>1, EndedStays, ScopeGrows DEF AddDerived
<1>4. CASE ProviderEnds
 <2>1. RecordsInv' /\ RowsGrow(journal, journal') BY <1>1, <1>4 DEF ProviderEnds, RecordsInv, RecordsOK, RowsGrow
 <2>2. Ended' = Ended /\ Total' = Total BY <1>4 DEF ProviderEnds, Ended, LatestLifecycle, Total
 <2>3. \A n \in 1..Total : ~(n > Total) BY <1>1 DEF RecordsInv, RecordsOK, Total
 <2> QED BY <1>1, <1>4, <2>1, <2>2, <2>3, ScopeGrows DEF ProviderEnds
<1> QED BY <1>2, <1>3, <1>4

LEMMA RebuildTurns ==
    ASSUME PublisherInv, UNCHANGED publisherVars, Overtaken = FALSE, Rebuilds
    PROVE  PublisherInv'
<1> USE DEF PublisherInv
<1>1. PICK l \in Lists : Rebuild(l) BY DEF Rebuilds
<1>2. /\ visit.at \notin {"saved", "derived"} /\ Len(rebuilds) < MaxRuns
      /\ saved.remoteFinished /\ Cursor = Total
  BY <1>1 DEF Rebuilds, Reads, Rebuild, RebuildFrom, Cursor
<1>3. visit = Resting
 <2>1. visit.at \notin {"send", "repair", "repaired"} BY <1>2 DEF VisitOK
 <2>2. visit.at \notin {"observe", "plan", "save"}
  <3> SUFFICES ASSUME visit.at \in {"observe", "plan", "save"} PROVE FALSE OBVIOUS
  <3>1. ScopeIsRead /\ SavedIsRead /\ visit \in VisitRecords BY VisitStages DEF VisitOK, Knowing
  <3>2. visit.confirmed < visit.through /\ visit.through <= Total BY <1>2, <3>1 DEF SavedIsRead
  <3>3. visit.confirmed = Cursor
   <4>1. visit.at # "save" => visit.confirmed = Cursor BY <3>1 DEF ScopeIsRead
   <4>2. visit.at = "save" => PlanOK BY DEF VisitOK
   <4> QED BY <1>2, <4>1, <4>2 DEF PlanOK
  <3>4. visit.confirmed \in Nat /\ visit.through \in Nat /\ Total \in Nat
    BY <3>1 DEF VisitRecords, RecordsInv, RecordsOK, Total
  <3> QED BY <1>2, <3>2, <3>3, <3>4
 <2> QED BY <1>2, <2>1, <2>2, VisitStages DEF VisitOK, Knowing
<1>4. /\ rebuilds' = Append(rebuilds, [list |-> l, old |-> Here, new |-> Len(rebuilds) + 1, finished |-> FALSE])
      /\ saved' = [NoSaved EXCEPT !.list = l]
      /\ scopeRow' = [scopeRow EXCEPT !.wandb = Len(rebuilds) + 1, !.confirmed = 0]
      /\ UNCHANGED <<journal, eventIds, binding, providerEnded, deleted>>
  BY <1>1 DEF Rebuild, Here
<1>5. /\ rebuilds \in Seq([list : Lists, old : Nat, new : Nat, finished : BOOLEAN]) /\ Len(rebuilds) \in Nat
      /\ scopeRow \in [exists : BOOLEAN, wandb : Nat, confirmed : Nat] /\ Here = Len(rebuilds)
  BY DEF ScopeOK
<1>6. PICK x : x = [list |-> l, old |-> Here, new |-> Len(rebuilds) + 1, finished |-> FALSE] OBVIOUS
<1>7. x \in [list : Lists, old : Nat, new : Nat, finished : BOOLEAN] BY <1>5, <1>6
<1>8. /\ rebuilds' \in Seq([list : Lists, old : Nat, new : Nat, finished : BOOLEAN])
      /\ Len(rebuilds') = Len(rebuilds) + 1
      /\ \A w \in 1..Len(rebuilds) : rebuilds'[w] = rebuilds[w]
 <2>1. rebuilds' = Append(rebuilds, x) BY <1>4, <1>6
 <2> QED BY <1>5, <1>7, <2>1
<1>9. /\ scopeRow' \in [exists : BOOLEAN, wandb : Nat, confirmed : Nat]
      /\ Here' = Len(rebuilds) + 1 /\ Cursor' = 0 /\ scopeRow'.exists = scopeRow.exists
 <2>1. PICK k \in Nat : k = Len(rebuilds) + 1 BY <1>5
 <2>2. scopeRow' = [scopeRow EXCEPT !.wandb = k, !.confirmed = 0] BY <1>4, <2>1
 <2>3. /\ scopeRow' \in [exists : BOOLEAN, wandb : Nat, confirmed : Nat]
       /\ scopeRow'.wandb = k /\ scopeRow'.confirmed = 0 /\ scopeRow'.exists = scopeRow.exists
   BY <1>5, <2>2
 <2> QED BY <2>1, <2>3 DEF Here, Cursor
<1>10. RecordsInv' /\ Total' = Total /\ Total \in Nat BY <1>4 DEF RecordsInv, RecordsOK, Total
<1>11. ScopeOK'
 <2>1. Len(rebuilds') <= MaxRuns BY <1>2, <1>5, <1>8, PublisherAssumption
 <2> QED BY <1>4, <1>8, <1>9, <2>1 DEF ScopeOK
<1>12. /\ saved' \in SavedStates /\ saved'.confirmed = 0 /\ saved'.sent = {} /\ ~saved'.remoteFinished
 <2>1. NoSaved = [confirmed |-> 0, sent |-> {}, finishRequested |-> FALSE, remoteFinished |-> FALSE,
                  everOpened |-> FALSE, repair |-> {}, repairConfirmed |-> FALSE, missing |-> FALSE, list |-> {}]
   BY DEF NoSaved
 <2> QED BY <1>4, <2>1 DEF SavedStates, AnyList
<1>13. SavedOK' BY <1>9, <1>10, <1>12 DEF SavedOK
<1>14. wandb' = wandb /\ child' = child /\ loose' = loose /\ visit' = visit /\ session' = session BY DEF publisherVars
<1>15. \A w \in 0..Len(rebuilds) : ListOf(w)' = ListOf(w)
 <2> TAKE w \in 0..Len(rebuilds)
 <2>1. w = 0 \/ w \in 1..Len(rebuilds) BY <1>5
 <2> QED BY <1>8, <2>1 DEF ListOf
<1>16. wandb[Here'] = NoRun
 <2>1. Here' \in 0..MaxRuns /\ Here' > Len(rebuilds) BY <1>2, <1>5, <1>9, PublisherAssumption
 <2> QED BY <2>1 DEF WandbOK, RunOK
<1>17. WandbOK'
 <2> SUFFICES ASSUME NEW w \in 0..MaxRuns PROVE RunOK(w)' BY <1>14 DEF WandbOK
 <2>1. RunOK(w) /\ Shows(w)' = Shows(w) BY <1>14 DEF WandbOK, Shows
 <2>2. \A r \in ToSet(wandb[w].rows) : r.list = ListOf(w)'
  <3>1. CASE w \in 0..Len(rebuilds) BY <1>15, <2>1, <3>1 DEF RunOK
  <3>2. CASE w > Len(rebuilds)
   <4>1. wandb[w].rows = <<>> BY <2>1, <3>2 DEF RunOK, NoRun
   <4> QED BY <4>1 DEF ToSet
  <3> QED BY <1>5, <3>1, <3>2, PublisherAssumption
 <2>3. w > Len(rebuilds') => w > Len(rebuilds) BY <1>5, <1>8, PublisherAssumption
 <2> QED BY <1>14, <2>1, <2>2, <2>3 DEF RunOK
<1>18. ShownOK'
 <2>1. wandb'[Here'].rows = <<>> /\ wandb'[Here'].display = -1 BY <1>14, <1>16 DEF NoRun
 <2>2. Shows(Here)' = {} BY <2>1 DEF Shows, ToSet
 <2>3. 1..Cursor' = {} BY <1>9
 <2> QED BY <1>9, <1>12, <2>1, <2>2, <2>3 DEF ShownOK
<1>19. ItemsOK'
 <2>1. Framing' = Framing BY <1>14 DEF Framing
 <2>2. \A f \in ToSet(child) \cup loose \cup ToSet(Framing) : f \in Items /\ ItemOK(f) BY DEF ItemsOK, ToSet
 <2>3. \A f \in Items : ItemOK(f) => ItemOK(f)'
  <3> TAKE f \in Items
  <3> HAVE ItemOK(f)
  <3>1. f.w \in 0..Len(rebuilds) /\ f.w # Here' /\ f.w <= Len(rebuilds')
   <4>1. f.w \in Nat /\ f.w <= Len(rebuilds) BY DEF ItemOK, Items
   <4>2. Len(rebuilds) \in Nat /\ Len(rebuilds') = Len(rebuilds) + 1 BY <1>5, <1>8
   <4>3. Here' = Len(rebuilds) + 1 BY <1>9
   <4> QED BY <4>1, <4>2, <4>3
  <3>2. Shows(f.w)' = Shows(f.w) BY <1>14 DEF Shows
  <3> QED BY <1>15, <3>1, <3>2 DEF ItemOK
 <2> QED BY <1>14, <2>1, <2>2, <2>3 DEF ItemsOK, Once, Apart
<1>20. VisitOK' BY <1>3, <1>14, RestIsOK
<1>21. SessionOK'
 <2>1. NothingOfHere'
  <3>1. \A f \in ToSet(child) : f.w <= Len(rebuilds) /\ f.w \in Nat
   <4>1. \A f \in ToSet(child) : f \in Items /\ ItemOK(f) BY DEF ItemsOK, ToSet
   <4> QED BY <4>1 DEF ItemOK, Items
  <3>2. \A f \in ToSet(child) : f.w # Here' BY <1>5, <1>9, <3>1
  <3> QED BY <1>14, <3>2 DEF NothingOfHere
 <2> QED BY <1>3, <1>14, <2>1 DEF SessionOK, Resting
<1> QED BY <1>10, <1>11, <1>13, <1>17, <1>18, <1>19, <1>20, <1>21

------------
\* What W&B gets of an item.
LEMMA VisitStays ==
    ASSUME PublisherInv, NoStore, visit' = visit, session'.bound = session.bound, Shows(Here) \subseteq Shows(Here)',
           wandb[Here].state # "none" => wandb'[Here].state # "none"
    PROVE  VisitOK'
<1>1. /\ Total' = Total /\ Ended' = Ended /\ Here' = Here /\ Cursor' = Cursor /\ Bound' = Bound
      /\ saved' = saved /\ providerEnded' = providerEnded /\ journal' = journal
  BY StoreRests DEF NoStore, journalVars
<1>2. VisitOK BY DEF PublisherInv
<1>3. ScopeIsRead => ScopeIsRead' BY <1>1 DEF ScopeIsRead, OnlyDerivedAfter
<1>4. SavedIsRead => SavedIsRead' BY <1>1 DEF SavedIsRead, OnlyDerivedAfter, ListOf, NoStore, journalVars
<1>5. RunIsSeen => RunIsSeen' BY <1>1 DEF RunIsSeen
<1>6. PlanOK => PlanOK' BY <1>1 DEF PlanOK
<1>7. ToSet(Framing)' = ToSet(Framing) BY DEF Framing
<1> QED BY <1>1, <1>2, <1>3, <1>4, <1>5, <1>6, <1>7 DEF VisitOK

WithItem(run, f) ==
    CASE f.kind = "row" -> [run EXCEPT !.rows = Append(@, [n |-> f.n, list |-> f.list]), !.state = "running"]
                    [] f.kind = "display" -> [run EXCEPT !.display = f.n]
                    [] OTHER -> [run EXCEPT !.state = f.kind]
LEMMA RunTakesItem ==
    ASSUME NEW run \in WandbRuns, NEW f \in Items, NEW more,
           more = WithItem(run, f)
    PROVE  /\ more \in WandbRuns
           /\ f.kind = "row" => /\ more.rows = Append(run.rows, [n |-> f.n, list |-> f.list])
                                /\ more.display = run.display /\ more.state = "running"
           /\ f.kind # "row" => /\ more.rows = run.rows /\ more.display \in {run.display, f.n}
                                /\ f.kind # "display" => more.display = run.display
                                /\ more.state \in {run.state, "finished", "failed"}
<1>1. f.n \in Nat /\ f.list \in AnyList /\ f.kind \in {"row", "display", "finished", "failed"} BY DEF Items
<1>2. PICK x : x = [n |-> f.n, list |-> f.list] OBVIOUS
<1>4. /\ run.rows \in Seq([n : Nat, list : AnyList]) /\ run.display \in Nat \cup {-1} /\ run.state \in RunStates
      /\ run = [rows |-> run.rows, display |-> run.display, state |-> run.state]
  BY DEF WandbRuns
<1>5. PICK rows : rows = Append(run.rows, x) OBVIOUS
<1>6. rows \in Seq([n : Nat, list : AnyList]) BY <1>1, <1>2, <1>4, <1>5
<1>7. CASE f.kind = "row"
 <2>1. more = [run EXCEPT !.rows = rows, !.state = "running"] BY <1>2, <1>5, <1>7 DEF WithItem
 <2> QED BY <1>2, <1>4, <1>5, <1>6, <1>7, <2>1 DEF WandbRuns, RunStates
<1>8. CASE f.kind = "display"
 <2> QED BY <1>1, <1>4, <1>8 DEF WandbRuns, WithItem
<1>9. CASE f.kind \in {"finished", "failed"}
 <2> QED BY <1>1, <1>4, <1>9 DEF WandbRuns, RunStates, WithItem
<1> QED BY <1>1, <1>7, <1>8, <1>9

LEMMA RowsGain ==
    ASSUME NEW rows \in Seq([n : Nat, list : AnyList]), NEW x \in [n : Nat, list : AnyList], NEW more, more = Append(rows, x)
    PROVE  ToSet(more) = ToSet(rows) \cup {x} /\ Len(more) = Len(rows) + 1
<1>1. /\ more \in Seq([n : Nat, list : AnyList]) /\ Len(more) = Len(rows) + 1 /\ Len(rows) \in Nat
      /\ \A i \in 1..Len(rows) : more[i] = rows[i]
      /\ more[Len(rows) + 1] = x
  OBVIOUS
<1>2. DOMAIN more = 1..Len(more) /\ DOMAIN rows = 1..Len(rows) BY <1>1
<1>6. ToSet(more) \subseteq ToSet(rows) \cup {x}
 <2> SUFFICES ASSUME NEW i \in 1..Len(more) PROVE more[i] \in ToSet(rows) \cup {x} BY <1>2 DEF ToSet
 <2> QED BY <1>1, <1>2 DEF ToSet
<1>7. ToSet(rows) \subseteq ToSet(more) BY <1>1, <1>2 DEF ToSet
<1>8. x \in ToSet(more) BY <1>1, <1>2 DEF ToSet
<1> QED BY <1>1, <1>6, <1>7, <1>8

LEMMA ItemArrives ==
    ASSUME PublisherInv, NEW f \in Items, ItemOK(f), NoStore, Applied(f)
    PROVE  /\ WandbOK' /\ ShownOK' /\ Shows(Here) \subseteq Shows(Here)'
           /\ wandb[Here].state # "none" => wandb'[Here].state # "none"
           /\ \A g \in Items : ItemOK(g) /\ (g = f => g.kind # "row") => ItemOK(g)'
           /\ f.w # Here => Shows(Here)' = Shows(Here)
<1> USE DEF PublisherInv
<1>1. /\ Here' = Here /\ Cursor' = Cursor /\ Onwards /\ rebuilds' = rebuilds /\ saved' = saved
  BY StoreRests DEF NoStore, journalVars
<1>2. f.w \in 0..MaxRuns /\ f.w <= Len(rebuilds) /\ Here \in 0..MaxRuns /\ wandb \in [0..MaxRuns -> WandbRuns]
  BY PublisherAssumption DEF ItemOK, Items, ScopeOK, WandbOK
<1>3. CASE Gone(f.w)
 <2>1. wandb' = wandb BY <1>2, <1>3 DEF Applied
 <2>3. Shows(Here)' = Shows(Here) BY <1>1, <2>1 DEF Shows
 <2>4. \A g \in Items : ItemOK(g) => ItemOK(g)' BY <1>1, <2>1, ItemMoves
 <2> QED BY <2>1, StoreRests, <2>3, <2>4
<1>4. CASE ~Gone(f.w)
 <2>1. PICK run : run = wandb[f.w] OBVIOUS
 <2>2. PICK more : more = WithItem(run, f) OBVIOUS
 <2>3. wandb' = [wandb EXCEPT ![f.w] = more]
  <3>1. CASE f.kind = "row"
   <4>2. wandb' = [wandb EXCEPT ![f.w] = [wandb[f.w] EXCEPT !.rows = Append(wandb[f.w].rows, [n |-> f.n, list |-> f.list]),
                                                              !.state = "running"]]
     BY <1>4, <3>1 DEF Applied
   <4> QED BY <2>1, <2>2, <3>1, <4>2 DEF WithItem
  <3>2. CASE f.kind = "display" BY <1>4, <2>1, <2>2, <3>2 DEF Applied, WithItem
  <3>3. CASE f.kind \in {"finished", "failed"} BY <1>4, <2>1, <2>2, <3>3 DEF Applied, WithItem
  <3> QED BY <3>1, <3>2, <3>3 DEF Items
 <2>4. run \in WandbRuns /\ run.state # "none" /\ RunOK(f.w) BY <1>2, <1>4, <2>1 DEF Gone, WandbOK
 <2>5. /\ more \in WandbRuns
       /\ f.kind = "row" => /\ more.rows = Append(run.rows, [n |-> f.n, list |-> f.list])
                            /\ more.display = run.display /\ more.state = "running"
       /\ f.kind # "row" => /\ more.rows = run.rows /\ more.display \in {run.display, f.n}
                            /\ f.kind # "display" => more.display = run.display
                            /\ more.state \in {run.state, "finished", "failed"}
   BY <2>2, <2>4, RunTakesItem
 <2>6. more.state # "none" BY <2>4, <2>5
 <2>7. /\ wandb' \in [0..MaxRuns -> WandbRuns] /\ wandb'[f.w] = more
       /\ \A w \in 0..MaxRuns : w # f.w => wandb'[w] = wandb[w]
   BY <1>2, <2>3, <2>5
 <2>8. /\ f.kind = "row" => ToSet(more.rows) = ToSet(run.rows) \cup {[n |-> f.n, list |-> f.list]}
                            /\ Len(more.rows) = Len(run.rows) + 1
       /\ f.kind # "row" => more.rows = run.rows
  <3>1. [n |-> f.n, list |-> f.list] \in [n : Nat, list : AnyList] BY DEF Items
  <3>2. run.rows \in Seq([n : Nat, list : AnyList]) BY <2>4 DEF WandbRuns
  <3> QED BY <2>5, <3>1, <3>2, RowsGain
 <2>9. /\ f.kind = "row" => Shows(f.w)' = Shows(f.w) \cup {f.n}
       /\ f.kind # "row" => Shows(f.w)' = Shows(f.w)
  <3>1. Shows(f.w) = {r.n : r \in ToSet(run.rows)} /\ Shows(f.w)' = {r.n : r \in ToSet(more.rows)}
    BY <2>1, <2>7 DEF Shows
  <3>2. CASE f.kind = "row"
   <4>1. PICK x : x = [n |-> f.n, list |-> f.list] OBVIOUS
   <4> QED BY <3>1, <3>2, <2>8, <4>1
  <3>3. CASE f.kind # "row" BY <2>8, <3>1, <3>3
  <3> QED BY <3>2, <3>3
 <2>10. \A w \in 0..MaxRuns : w # f.w => Shows(w)' = Shows(w) BY <2>7 DEF Shows
 <2>11. RunOK(f.w)'
  <3>1. IsFiniteSet(Shows(f.w)) /\ Len(run.rows) = Cardinality(Shows(f.w)) BY <2>1, <2>4 DEF RunOK
  <3>2. IsFiniteSet(Shows(f.w)') /\ Len(more.rows) = Cardinality(Shows(f.w)')
   <4>1. CASE f.kind = "row"
    <5>2. IsFiniteSet(Shows(f.w) \cup {f.n}) /\ Cardinality(Shows(f.w) \cup {f.n}) = Cardinality(Shows(f.w)) + 1
      BY <3>1, <4>1, FS_AddElement DEF ItemOK
    <5> QED BY <2>8, <2>9, <3>1, <4>1, <5>2
   <4> QED BY <2>8, <2>9, <3>1, <4>1
  <3>3. \A r \in ToSet(more.rows) : r.list = ListOf(f.w)'
   <4>2. \A r \in ToSet(run.rows) : r.list = ListOf(f.w) BY <2>1, <2>4 DEF RunOK
   <4>3. f.kind = "row" => f.list = ListOf(f.w) BY DEF ItemOK
   <4>4. \A r \in ToSet(more.rows) : r \in ToSet(run.rows) \/ (f.kind = "row" /\ r = [n |-> f.n, list |-> f.list])
     BY <2>8
   <4> QED BY <1>1, <4>2, <4>3, <4>4 DEF ListOf
  <3> QED BY <1>1, <1>2, <2>6, <2>7, <3>2, <3>3 DEF RunOK, ScopeOK
 <2>12. WandbOK'
  <3> SUFFICES ASSUME NEW w \in 0..MaxRuns PROVE RunOK(w)' BY <2>7 DEF WandbOK
  <3>1. CASE w # f.w
   <4>2. ListOf(w)' = ListOf(w) BY <1>1 DEF ListOf
   <4> QED BY <1>1, <2>7, <2>10, <3>1, <4>2 DEF RunOK, WandbOK
  <3> QED BY <2>11, <3>1
 <2>13. Shows(Here)' = IF f.kind = "row" /\ f.w = Here THEN Shows(Here) \cup {f.n} ELSE Shows(Here)
  <3>1. Shows(Here)' = {r.n : r \in ToSet(wandb'[Here].rows)} BY <1>1 DEF Shows
  <3>2. CASE f.w = Here BY <2>9, <3>1, <3>2 DEF Shows
  <3>3. CASE f.w # Here BY <1>2, <2>7, <3>1, <3>3 DEF Shows
  <3> QED BY <3>2, <3>3
 <2>14. wandb[Here].state # "none" => wandb'[Here].state # "none" BY <1>2, <2>6, <2>7
 <2>15. ShownOK'
  <3>1. \A n \in Shows(Here)' : Accounted(n)'
   <4> TAKE n \in Shows(Here)'
   <4>1. CASE n \in Shows(Here) BY <1>1, <4>1 DEF ShownOK, Onwards
   <4>2. CASE f.kind = "row" /\ f.w = Here /\ n = f.n BY <1>1, <4>2 DEF ItemOK, Onwards
   <4> QED BY <2>13, <4>1, <4>2
  <3>2. wandb'[Here].display <= Cursor
   <4>1. CASE f.w = Here
    <5>2. f.kind = "display" => f.n <= Cursor BY <4>1 DEF ItemOK
    <5> QED BY <2>5, <2>7, <4>1, <2>1, <5>2 DEF ShownOK
   <4>2. CASE f.w # Here BY <1>2, <2>7, <4>2 DEF ShownOK
   <4> QED BY <4>1, <4>2
  <3>4. saved.remoteFinished => wandb'[Here].state # "none" BY <2>14 DEF ShownOK
  <3> QED BY <1>1, <3>1, <3>2, <2>13, <3>4 DEF ShownOK
 <2>16. \A g \in Items : ItemOK(g) /\ (g = f => g.kind # "row") => ItemOK(g)'
  <3> TAKE g \in Items
  <3> HAVE ItemOK(g) /\ (g = f => g.kind # "row")
  <3>2. g.kind = "row" => g.n \notin Shows(g.w)'
   <4>1. CASE g.kind = "row" /\ f.kind = "row" /\ g.w = f.w /\ g.n = f.n
    <5>2. g = f BY <4>1 DEF Items, ItemOK
    <5> QED BY <4>1, <5>2
   <4>2. CASE g.w # f.w BY <2>10, PublisherAssumption, <4>2 DEF ItemOK, Items, ScopeOK
   <4>3. CASE g.w = f.w /\ ~(g.kind = "row" /\ f.kind = "row" /\ g.n = f.n) BY <2>9, <4>3 DEF ItemOK
   <4> QED BY <4>1, <4>2, <4>3
  <3>4. Accounted(g.n) => Accounted(g.n)' BY <1>1 DEF Onwards
  <3> QED BY <1>1, <3>2, <3>4 DEF ItemOK, ListOf
 <2> QED BY <2>12, <2>13, <2>14, <2>15, <2>16
<1> QED BY <1>3, <1>4

LEMMA DeliverKeeps ==
    ASSUME PublisherInv, Deliver
    PROVE  PublisherInv'
<1> USE DEF PublisherInv
<1>1. /\ RecordsInv' /\ ScopeOK' /\ SavedOK' /\ Here' = Here /\ rebuilds' = rebuilds
  BY StoreRests DEF Deliver, NoStore, journalVars
<1>2. PICK f : f = Head(child) OBVIOUS
<1>3. /\ child \in Seq(Items) /\ child # <<>> /\ Once(child) /\ child' = Tail(child)
      /\ loose' = loose /\ visit' = visit /\ session' = session
  BY DEF Deliver, ItemsOK
<1>4. /\ f \in Items /\ f \in ToSet(child) /\ child' \in Seq(Items)
      /\ ToSet(child') \subseteq ToSet(child) /\ Once(child')
      /\ f.kind = "row" => f \notin ToSet(child')
  BY <1>2, <1>3, ItemsOfTail
<1>6. /\ WandbOK' /\ ShownOK' /\ Shows(Here) \subseteq Shows(Here)'
      /\ wandb[Here].state # "none" => wandb'[Here].state # "none"
      /\ \A g \in Items : ItemOK(g) /\ (g = f => g.kind # "row") => ItemOK(g)'
      /\ f.w # Here => Shows(Here)' = Shows(Here) BY <1>2, <1>4, ItemArrives DEF Deliver, ItemsOK
<1>9. ItemsOK'
 <2>1. \A g \in ToSet(child') \cup loose \cup ToSet(Framing) : g \in Items /\ ItemOK(g) /\ (g = f => g.kind # "row")
  <3>1. \A g \in ToSet(child) \cup loose \cup ToSet(Framing) : g \in Items /\ ItemOK(g) BY DEF ItemsOK, ToSet
  <3>2. f \in loose \cup ToSet(Framing) => f.kind # "row" BY <1>4 DEF ItemsOK, Apart
  <3> QED BY <1>4, <3>1, <3>2
 <2>2. \A g \in ToSet(child') \cup loose \cup ToSet(Framing) : ItemOK(g)' BY <1>6, <2>1
 <2>3. Apart(ToSet(child'), loose) /\ Apart(ToSet(child'), ToSet(Framing)) BY <1>4 DEF ItemsOK, Apart
 <2>4. ToSet(child)' = ToSet(child') /\ Once(child)' BY <1>4
 <2> QED BY <1>3, <1>4, <2>2, <2>3, <2>4 DEF ItemsOK, Framing
<1>10. SessionOK'
 <2>1. NothingOfHere => NothingOfHere' /\ f.w # Here BY <1>1, <1>4 DEF NothingOfHere
 <2> QED BY <1>1, <1>3, <2>1, <1>6 DEF SessionOK
<1> QED BY <1>1, <1>6, <1>3, VisitStays, <1>9, <1>10 DEF Deliver

LEMMA ArriveKeeps ==
    ASSUME PublisherInv, Arrive
    PROVE  PublisherInv'
<1> USE DEF PublisherInv
<1>1. /\ RecordsInv' /\ ScopeOK' /\ SavedOK' /\ Here' = Here /\ rebuilds' = rebuilds
  BY StoreRests DEF Arrive, NoStore, journalVars
<1>2. PICK f \in loose : Applied(f) /\ loose' = loose \ {f} BY DEF Arrive
<1>3. child' = child /\ visit' = visit /\ session' = session BY DEF Arrive
<1>6. /\ WandbOK' /\ ShownOK' /\ Shows(Here) \subseteq Shows(Here)'
      /\ wandb[Here].state # "none" => wandb'[Here].state # "none"
      /\ \A g \in Items : ItemOK(g) /\ (g = f => g.kind # "row") => ItemOK(g)'
  BY <1>2, ItemArrives DEF Arrive, ItemsOK
<1>9. ItemsOK'
 <2>1. \A g \in ToSet(child) \cup loose' \cup ToSet(Framing) : g \in Items /\ ItemOK(g) /\ (g = f => g.kind # "row")
  <3>2. f \in ToSet(child) \cup ToSet(Framing) => f.kind # "row" BY DEF ItemsOK, Apart
  <3> QED BY <1>2, <3>2 DEF ItemsOK, ToSet
 <2>2. \A g \in ToSet(child) \cup loose' \cup ToSet(Framing) : ItemOK(g)' BY <1>6, <2>1
 <2>3. Apart(ToSet(child), loose') /\ Apart(loose', ToSet(Framing)) /\ loose' \subseteq Items
   BY <1>2 DEF ItemsOK, Apart
 <2> QED BY <1>3, <2>2, <2>3 DEF ItemsOK, Framing
<1>10. SessionOK'
 <2>2. loose # {} /\ loose' \subseteq loose BY <1>2
 <2> QED BY <1>1, <1>3, <2>2 DEF SessionOK, NothingOfHere
<1> QED BY <1>1, <1>6, <1>3, VisitStays, <1>9, <1>10 DEF Arrive

\* A step that leaves W&B and the store alone, and brings no item.
LEMMA LoseKeeps ==
    ASSUME PublisherInv, Lose
    PROVE  PublisherInv'
<1> USE DEF PublisherInv
<1>1. /\ RecordsInv' /\ ScopeOK' /\ SavedOK' /\ Onwards /\ WandbOK' /\ ShownOK' /\ Here' = Here
  BY StoreRests DEF Lose
<1>2. /\ loose' \subseteq loose /\ child' = child /\ visit' = visit /\ session' = session /\ wandb' = wandb
  BY DEF Lose
<1>4. ItemsOK' BY <1>1, <1>2, ItemsStay DEF Framing
<1>5. Shows(Here)' = Shows(Here) BY <1>1, <1>2 DEF Shows
<1>7. SessionOK'
 <2>2. loose = {} => loose' = {} BY <1>2
 <2>3. session.watch # NoWatch => loose' \subseteq session.under BY <1>2 DEF SessionOK
 <2> QED BY <1>1, <1>2, <1>5, <2>2, <2>3 DEF SessionOK, NothingOfHere
<1> QED BY <1>1, <1>4, <1>2, <1>5, VisitStays, <1>7 DEF Lose

\* The visit ends, and the store and W&B stay: the items stay, or the child loses them.
LEMMA VisitEnds ==
    ASSUME PublisherInv, NoStore, wandb' = wandb, visit' = Resting, visit.at # "repaired" \/ child' = <<>>,
           session' \in Sessions,
           \/ child' = child /\ loose' = loose /\ session'.held = session.held
           \/ child' = <<>> /\ loose' = loose \cup ToSet(child),
           session'.watch # NoWatch => loose' \subseteq session'.under,
           session'.bound = session.bound \/ child' = <<>>
    PROVE  PublisherInv'
<1> USE DEF PublisherInv
<1>1. /\ RecordsInv' /\ ScopeOK' /\ SavedOK' /\ Onwards /\ WandbOK' /\ ShownOK' /\ Here' = Here
  BY StoreRests
<1>2. VisitOK' /\ Framing' = <<>> BY RestIsOK
<1>4. SessionOK'
 <2>1. CASE session'.bound = session.bound BY <1>1, <2>1, SessionRests
 <2>2. CASE child' = <<>>
  <3> QED BY <2>2 DEF SessionOK, Sessions, Resting, NothingOfHere, ToSet
 <2> QED BY <2>1, <2>2
<1> QED BY <1>1, <1>2, ItemsStay, ItemsAreLost, <1>4

LEMMA ForgetIs ==
    ASSUME session \in Sessions, Forget
    PROVE  /\ session' \in Sessions /\ session'.watch = NoWatch /\ session'.held = session.held
           /\ session'.bound = session.bound
<1>1. NoWatch \in Watches BY DEF NoWatch, Watches
<1> QED BY <1>1 DEF Forget, Sessions

LEMMA LostIs ==
    ASSUME session \in Sessions, Lost
    PROVE  session' \in Sessions /\ session'.watch = NoWatch /\ session'.bound = session.bound
<1>1. NoWatch \in Watches BY DEF NoWatch, Watches
<1> QED BY <1>1 DEF Lost, Sessions

LEMMA StopsKeep ==
    ASSUME PublisherInv, CallFails \/ Crash
    PROVE  PublisherInv'
<1> USE DEF PublisherInv
<1>1. session \in Sessions BY DEF SessionOK, Sessions
<1>2. CASE CallFails
 <2>1. /\ NoStore /\ wandb' = wandb /\ visit' = Resting /\ visit.at = "observe"
       /\ (Forget /\ UNCHANGED <<child, loose>>) \/ Lost
   BY <1>2 DEF CallFails
 <2>2. CASE Forget /\ UNCHANGED <<child, loose>>
  <3> QED BY <2>1, <2>2, <1>1, ForgetIs, VisitEnds
 <2>3. CASE Lost
  <3> QED BY <2>1, <2>3, <1>1, LostIs, VisitEnds DEF Lost
 <2> QED BY <2>1, <2>2, <2>3
<1>3. CASE Crash
 <2>1. session' \in Sessions /\ session'.watch = NoWatch
  <3>2. session' = [held |-> FALSE, watch |-> NoWatch, under |-> {}, idle |-> -1, bound |-> -1]
    BY <1>3 DEF Crash, NewSession
  <3> HIDE DEF NoWatch, Watches
  <3> QED BY <3>2 DEF Sessions, NoWatch, Watches
 <2> QED BY <1>3, <2>1, VisitEnds DEF Crash
<1> QED BY <1>2, <1>3

LEMMA DeleteRunKeeps ==
    ASSUME PublisherInv, DeleteRun
    PROVE  PublisherInv'
<1> USE DEF PublisherInv
<1>1. /\ RecordsInv' /\ ScopeOK' /\ SavedOK' /\ Onwards /\ Here' = Here /\ Cursor' = Cursor
      /\ rebuilds' = rebuilds /\ saved' = saved
  BY StoreRests DEF DeleteRun, NoStore, journalVars
<1>2. PICK w \in 0..MaxRuns : ~Gone(w) /\ wandb' = [wandb EXCEPT ![w].state = "deleted"] BY DEF DeleteRun
<1>3. child' = child /\ loose' = loose /\ visit' = visit /\ session' = session /\ NoStore BY DEF DeleteRun
<1>4. /\ wandb' \in [0..MaxRuns -> WandbRuns] /\ wandb'[w].state = "deleted"
      /\ \A x \in 0..MaxRuns : wandb'[x].rows = wandb[x].rows /\ wandb'[x].display = wandb[x].display
      /\ \A x \in 0..MaxRuns : x # w => wandb'[x] = wandb[x]
 <2>1. wandb \in [0..MaxRuns -> WandbRuns] BY DEF WandbOK
 <2> QED BY <1>2, <2>1 DEF WandbRuns, RunStates
<1>5. Here \in 0..MaxRuns BY PublisherAssumption DEF ScopeOK
<1>6. \A x \in 0..MaxRuns : Shows(x)' = Shows(x) BY <1>4 DEF Shows
<1>7. Shows(Here)' = Shows(Here)
 <2> QED BY <1>4, <1>5, <1>1 DEF Shows
<1>8. WandbOK'
 <2> SUFFICES ASSUME NEW x \in 0..MaxRuns PROVE RunOK(x)' BY <1>4 DEF WandbOK
 <2>2. x = w => wandb[x].state # "none" BY <1>2 DEF Gone
 <2> QED BY <1>1, <1>4, <1>6, <2>2 DEF RunOK, WandbOK, ListOf
<1>9. wandb[Here].state # "none" => wandb'[Here].state # "none" BY <1>4, <1>5
<1>10. ShownOK' BY <1>1, <1>4, <1>5, <1>7, <1>9 DEF ShownOK, Onwards
<1>11. VisitOK' BY <1>3, <1>7, <1>9, VisitStays
<1>13. ItemsOK'
 <2>1. \A f \in ToSet(child) \cup loose \cup ToSet(Framing) : f \in Items /\ ItemOK(f) BY DEF ItemsOK, ToSet
 <2>2. \A f \in Items : ItemOK(f) => ItemOK(f)'
  <3> TAKE f \in Items
  <3> HAVE ItemOK(f)
  <3>2. ListOf(f.w)' = ListOf(f.w) /\ (Accounted(f.n) => Accounted(f.n)') BY <1>1 DEF ListOf, Onwards
  <3> QED BY <1>1, <1>6, PublisherAssumption, <3>2 DEF ItemOK, Items, ScopeOK
 <2> QED BY <1>3, <2>1, <2>2 DEF ItemsOK, Framing
<1>14. SessionOK'
 <2> QED BY <1>1, <1>3, <1>7 DEF SessionOK, NothingOfHere
<1> QED BY <1>1, <1>8, <1>10, <1>11, <1>13, <1>14

------------
LEMMA SendKeeps ==
    ASSUME PublisherInv, Send
    PROVE  PublisherInv'
<1> USE DEF PublisherInv
<1>1. visit.at = "send" /\ visit' = Resting /\ NoStore /\ wandb' = wandb BY DEF Send
<1>2. /\ RecordsInv' /\ ScopeOK' /\ SavedOK' /\ Onwards /\ WandbOK' /\ ShownOK' /\ Here' = Here
  BY <1>1, StoreRests
<1>3. VisitOK' /\ Framing' = <<>> BY <1>1, RestIsOK
<1>4. PICK frames : frames = visit.frames OBVIOUS
<1>5. Framing = frames /\ frames \in Seq(Items) /\ session.bound = Here /\ session \in Sessions
  BY <1>1, <1>4 DEF Framing, ItemsOK, VisitOK, SessionOK, Sessions
<1>6. /\ child \in Seq(Items) /\ loose \subseteq Items /\ Once(child) /\ Once(frames)
      /\ Apart(ToSet(child), loose) /\ Apart(ToSet(child), ToSet(frames)) /\ Apart(loose, ToSet(frames))
  BY <1>5 DEF ItemsOK
<1>7. \A f \in ToSet(child) \cup loose \cup ToSet(frames) : f \in Items /\ ItemOK(f)'
 <2> QED BY <1>1, <1>2, <1>5, <1>6, ItemMoves DEF ItemsOK, ToSet
<1>8. ToSet(Framing)' = {} BY <1>3 DEF ToSet
<1>9. CASE /\ child' \in {child, child \o frames}
           /\ session' = [session EXCEPT !.held = TRUE] /\ UNCHANGED <<loose, failures>>
 <2>2. /\ child' \in Seq(Items) /\ ToSet(child') \subseteq ToSet(child) \cup ToSet(frames) /\ Once(child')
   BY <1>6, <1>9, <1>5, ItemsOfJoined
 <2>4. ItemsOK'
  <3>2. Once(Framing)' /\ Framing' \in Seq(Items) BY <1>3 DEF Once
  <3>3. Apart(ToSet(child), loose)' /\ Apart(ToSet(child), ToSet(Framing))' /\ Apart(loose, ToSet(Framing))'
    BY <1>8, <1>9, <1>6, <2>2 DEF Apart
  <3>4. Once(child)' BY <2>2 DEF Once
  <3>5. \A f \in ToSet(child)' \cup loose' \cup ToSet(Framing)' : ItemOK(f)' BY <1>8, <1>9, <1>7, <2>2
  <3> QED BY <1>6, <1>9, <2>2, <3>2, <3>3, <3>4, <3>5 DEF ItemsOK
 <2>6. SessionOK' BY <1>1, <1>2, <1>9, <1>5 DEF SessionOK, Sessions, Resting
 <2> QED BY <1>2, <1>3, <2>4, <2>6
<1>10. ASSUME NEW k \in 0..Len(frames),
              session' = [session EXCEPT !.held = FALSE, !.watch = NoWatch, !.under = {}],
              loose' = loose \cup ToSet(child) \cup ToSet(SubSeq(frames, 1, k)), child' = <<>>
       PROVE  PublisherInv'
 <2>2. \A f \in loose' : f \in Items /\ ItemOK(f)' BY <1>7, <1>10, <1>5, ItemsOfPart
 <2>3. ToSet(child)' = {} BY <1>10 DEF ToSet
 <2>4. ItemsOK'
  <3>2. Once(child)' /\ Once(Framing)' BY <1>3, <1>10 DEF Once
  <3>3. \A f \in ToSet(child)' \cup loose' \cup ToSet(Framing)' : ItemOK(f)' BY <1>8, <2>2, <2>3
  <3>4. child' \in Seq(Items) /\ Framing' \in Seq(Items) /\ loose' \subseteq Items BY <1>3, <1>10, <2>2
  <3> QED BY <1>8, <2>3, <3>2, <3>3, <3>4 DEF ItemsOK, Apart
 <2>5. session' \in Sessions /\ session'.watch = NoWatch
  <3>1. NoWatch \in Watches BY DEF NoWatch, Watches
  <3> QED BY <1>5, <1>10, <3>1 DEF Sessions
 <2>6. SessionOK'
  <3> QED BY <1>1, <2>5, <2>3 DEF SessionOK, Sessions, Resting, NothingOfHere
 <2> QED BY <1>2, <1>3, <2>4, <2>6
<1> QED
 <2> QED BY <1>9, <1>10, <1>4 DEF Send

\* A visit goes on, and nothing else moves.
LEMMA OnlyVisitMoves ==
    ASSUME PublisherInv, NoStore, wandb' = wandb, child' = child, loose' = loose, visit' \in VisitRecords
    PROVE  /\ RecordsInv' /\ ScopeOK' /\ SavedOK' /\ WandbOK' /\ ShownOK' /\ ItemsOK'
           /\ Total' = Total /\ Ended' = Ended /\ Here' = Here /\ Cursor' = Cursor /\ Bound' = Bound
           /\ Framing' = <<>> /\ visit' \in PubVisits /\ NothingOfHere' = NothingOfHere
<1>1. /\ RecordsInv' /\ ScopeOK' /\ SavedOK' /\ WandbOK' /\ ShownOK' /\ Onwards
      /\ Total' = Total /\ Ended' = Ended /\ Here' = Here /\ Cursor' = Cursor /\ Bound' = Bound
  BY StoreRests
<1>2. Framing' = <<>> /\ visit' \in PubVisits BY DEF VisitRecords, Knowing, Framing, PubVisits
<1>5. NothingOfHere' = NothingOfHere BY <1>1 DEF NothingOfHere
<1> QED BY <1>1, <1>2, ItemsStay, <1>5

LEMMA VisitRowKeeps ==
    ASSUME PublisherInv, VisitRow
    PROVE  PublisherInv'
<1> USE DEF PublisherInv
<1>1. /\ visit = Resting /\ Bound /\ NoStore /\ wandb' = wandb /\ child' = child /\ loose' = loose
  BY DEF VisitRow, Quiet
<1>2. /\ Here \in Nat /\ Cursor \in Nat /\ Total \in Nat /\ providerEnded \in BOOLEAN /\ Cursor <= Total
  BY DEF ScopeOK, SavedOK, RecordsInv, RecordsOK, Total, Here, Cursor
<1>3. /\ visit' \in VisitRecords /\ visit'.at = "saved" /\ visit'.w = Here /\ visit'.confirmed = Cursor
      /\ visit'.total = Total /\ visit'.ended = providerEnded
 <2>2. PICK w \in Nat, c \in Nat, t \in Nat, e \in BOOLEAN : w = Here /\ c = Cursor /\ t = Total /\ e = providerEnded
   BY <1>2
 <2>3. visit' = VisitOf(w, c, t, e) BY <2>2 DEF VisitOf, VisitRow, Here, Cursor
 <2> QED BY <2>2, <2>3, NewVisitIs
<1>4. /\ session' \in Sessions /\ session'.bound = Here
      /\ session' = session \/ (session'.watch = NoWatch /\ session.bound # Here)
 <2>2. session' = IF session.bound = Here THEN session ELSE [NewSession EXCEPT !.bound = Here]
   BY DEF VisitRow, Here
 <2>3. CASE session.bound # Here
  <3>2. session' = [held |-> FALSE, watch |-> NoWatch, under |-> {}, idle |-> -1, bound |-> Here]
    BY <2>2, <2>3 DEF NewSession
  <3> HIDE DEF NoWatch, Watches
  <3> QED BY <1>2, <2>3, <3>2 DEF Sessions, NoWatch, Watches
 <2> QED BY <2>2, <2>3 DEF SessionOK, Sessions
<1>5. /\ RecordsInv' /\ ScopeOK' /\ SavedOK' /\ WandbOK' /\ ShownOK' /\ ItemsOK'
      /\ Total' = Total /\ Ended' = Ended /\ Here' = Here /\ Cursor' = Cursor /\ Bound' = Bound
      /\ Framing' = <<>> /\ visit' \in PubVisits /\ NothingOfHere' = NothingOfHere
  BY <1>1, <1>3, OnlyVisitMoves
<1>6. ScopeIsRead'
 <2>1. providerEnded' = providerEnded BY <1>1 DEF NoStore, journalVars
 <2>3. OnlyDerivedAfter(visit.total)' BY <1>3, <1>5, <1>2 DEF OnlyDerivedAfter
 <2> QED BY <1>2, <1>3, <1>5, <2>1, <2>3 DEF ScopeIsRead
<1>7. VisitOK' BY <1>1, <1>3, <1>4, <1>5, <1>6 DEF VisitOK, ToSet
<1>8. SessionOK'
 <2> QED BY <1>1, <1>3, <1>4, <1>5 DEF SessionOK, Sessions, Resting
<1> QED BY <1>5, <1>7, <1>8

LEMMA ListIsExcluded ==
    ASSUME PublisherInv
    PROVE  Excluded = ListOf(Here) /\ ListOf(Here) \in AnyList /\ Here \in Nat /\ Total \in Nat
<1>1. PICK T : T = [list : Lists, old : Nat, new : Nat, finished : BOOLEAN] OBVIOUS
<1>2. rebuilds \in Seq(T) /\ Here = Len(rebuilds) BY <1>1 DEF PublisherInv, ScopeOK
<1>3. Here \in Nat BY <1>2
<1>4. Total \in Nat BY DEF PublisherInv, RecordsInv, RecordsOK, Total
<1>5. CASE rebuilds = <<>> BY <1>2, <1>3, <1>4, <1>5 DEF Excluded, ListOf, AnyList
<1>6. CASE rebuilds # <<>>
 <2>1. Len(rebuilds) # 0 /\ Len(rebuilds) \in 1..Len(rebuilds) BY <1>2, <1>6
 <2>2. rebuilds[Len(rebuilds)] \in T BY <1>2, <2>1
 <2> QED BY <1>1, <1>2, <1>3, <1>4, <1>6, <2>1, <2>2 DEF Excluded, ListOf, AnyList, Last
<1> QED BY <1>5, <1>6

LEMMA ReadingIs ==
    ASSUME PublisherInv, visit.at \in {"saved", "derived"}, NEW s \in SavedStates, s.sent \subseteq 1..Total,
           ~s.remoteFinished, NEW d, d = Reading(visit, s)
    PROVE  /\ d \in VisitRecords /\ d.at = "observe" /\ Keeps(visit, d)
           /\ d.saved.sent = {n \in s.sent : n > visit.confirmed} /\ d.saved.confirmed = visit.confirmed
           /\ ~d.saved.remoteFinished /\ d.saved.sent \subseteq 1..d.through
           /\ d.confirmed <= d.through /\ d.through <= Total /\ d.list = ListOf(Here)
           /\ d.confirmed = d.through => d.through = Total
           /\ d.drained => Ended
<1> USE DEF PublisherInv
<1>1. /\ visit \in VisitRecords /\ visit.confirmed = Cursor /\ visit.confirmed \in Nat
      /\ Total \in Nat /\ Cursor \in Nat /\ Cursor <= Total
  BY VisitStages DEF VisitOK, Knowing, ScopeIsRead, RecordsInv, RecordsOK, Total, ScopeOK, SavedOK, Cursor
<1> DEFINE sent == {n \in s.sent : n > visit.confirmed}
           far == Highest(sent, visit.confirmed)
           reach == Highest({Window, far - visit.confirmed}, 0)
           through == IF visit.confirmed + reach < Total THEN visit.confirmed + reach ELSE Total
           drained == through = visit.total /\ Ended
           kept == [s EXCEPT !.confirmed = visit.confirmed, !.sent = sent]
<1>2. d = [visit EXCEPT !.at = "observe", !.through = through, !.list = Excluded, !.saved = kept, !.drained = drained]
  BY DEF Reading
<1>3. sent \subseteq 1..Total /\ sent \in SUBSET Nat OBVIOUS
<1>4. far \in Nat /\ far >= visit.confirmed /\ \A n \in sent : n <= far
 <2> HIDE DEF sent
 <2>1. sent \subseteq 0..Total BY <1>1, <1>3
 <2> QED BY <1>1, <2>1, HighestIs
<1> HIDE DEF far
<1>5. reach \in Nat /\ reach >= Window /\ reach >= far - visit.confirmed /\ Window >= 1
 <2>1. PICK gap \in Nat : gap = far - visit.confirmed BY <1>1, <1>4
 <2>2. {Window, gap} \subseteq 0..(Window + gap) /\ Window + gap \in Nat /\ Window >= 1 /\ 0 \in Nat
   BY <2>1, PublisherAssumption
 <2> QED BY <2>1, <2>2, HighestIs
<1> HIDE DEF reach
<1>6. /\ through \in Nat /\ visit.confirmed <= through /\ through <= Total
      /\ visit.confirmed = through => through = Total
      /\ through = Total \/ through >= far
  BY <1>1, <1>4, <1>5, PublisherAssumption
<1>7. sent \subseteq 1..through
 <2> SUFFICES ASSUME NEW n \in sent PROVE n \in 1..through OBVIOUS
 <2> HIDE DEF sent, through
 <2> QED BY <1>1, <1>4, <1>6, <1>3
<1>8. Excluded = ListOf(Here) /\ Excluded \in AnyList BY ListIsExcluded
<1>9. PICK k : k = kept OBVIOUS
<1>10. k \in SavedStates /\ k.confirmed = visit.confirmed /\ k.sent = sent /\ ~k.remoteFinished
 <2>1. k = StateRead(s, visit.confirmed, sent) BY <1>9 DEF StateRead
 <2> HIDE DEF sent
 <2> QED BY <1>1, <1>3, <2>1, SavedReads
<1>11. drained \in BOOLEAN BY DEF Ended
<1>12. drained => Ended OBVIOUS
<1>13. d = ObserveVisit(visit, through, Excluded, k, drained) BY <1>2, <1>9 DEF ObserveVisit
<1> HIDE DEF sent, through, drained, kept
<1>14. /\ d \in VisitRecords /\ d.at = "observe" /\ Keeps(visit, d)
       /\ d.through = through /\ d.list = Excluded /\ d.saved = k /\ d.drained = drained
  BY <1>1, <1>6, <1>8, <1>10, <1>11, <1>13, ObserveVisitIs
<1>15. d.confirmed = visit.confirmed BY <1>14 DEF Keeps
<1>16. k.sent = {n \in s.sent : n > visit.confirmed} BY <1>10 DEF sent
<1> QED BY <1>6, <1>7, <1>8, <1>10, <1>12, <1>14, <1>15, <1>16

------------
\* A visit that goes on keeps what it read of the scope.
LEMMA ScopeReadStays ==
    ASSUME PublisherInv, visit.at \in Knowing, NoStore, Keeps(visit, visit'), visit'.at = "save" \/ visit'.confirmed = Cursor
    PROVE  ScopeIsRead'
<1>2. ScopeIsRead BY DEF PublisherInv, VisitOK
<1> QED BY StoreRests, <1>2 DEF ScopeIsRead, Keeps, OnlyDerivedAfter, NoStore, journalVars

LEMMA SessionGoesOn ==
    ASSUME PublisherInv, NoStore, wandb' = wandb, child' = child, loose' = loose, session' = session,
           visit.at # "repaired", visit'.at \notin {"plan", "save"}
    PROVE  SessionOK'
<1>1. Here' = Here BY StoreRests
<1> QED BY <1>1 DEF PublisherInv, SessionOK, NothingOfHere

LEMMA VisitReads ==
    ASSUME PublisherInv, visit.at \in {"saved", "derived"}, NEW s \in SavedStates, s.sent = saved.sent, ~s.remoteFinished,
           saved.remoteFinished => visit.confirmed < Total, visit' = Reading(visit, s), session' = session, NoStore, Quiet
    PROVE  PublisherInv'
<1>1. /\ visit \in VisitRecords /\ ScopeIsRead /\ Bound /\ visit.w = Here /\ session.bound = Here
      /\ visit.confirmed = Cursor /\ visit.confirmed \in Nat
  BY VisitStages DEF PublisherInv, VisitOK, Knowing, ScopeIsRead, ScopeOK, Cursor
<1>2. PICK d : d = Reading(visit, s) OBVIOUS
<1>4. /\ d \in VisitRecords /\ d.at = "observe" /\ Keeps(visit, d)
      /\ d.saved.sent = {n \in s.sent : n > visit.confirmed} /\ d.saved.confirmed = visit.confirmed
      /\ ~d.saved.remoteFinished /\ d.saved.sent \subseteq 1..d.through
      /\ d.confirmed <= d.through /\ d.through <= Total /\ d.list = ListOf(Here)
      /\ d.confirmed = d.through => d.through = Total
      /\ d.drained => Ended BY <1>2, ReadingIs DEF PublisherInv, SavedOK
<1>5. visit' = d /\ wandb' = wandb /\ child' = child /\ loose' = loose BY <1>2 DEF Quiet
<1>6. /\ RecordsInv' /\ ScopeOK' /\ SavedOK' /\ WandbOK' /\ ShownOK' /\ ItemsOK'
      /\ Total' = Total /\ Ended' = Ended /\ Here' = Here /\ Cursor' = Cursor /\ Bound' = Bound
      /\ Framing' = <<>> /\ visit' \in PubVisits /\ NothingOfHere' = NothingOfHere
  BY <1>4, <1>5, OnlyVisitMoves
<1>7. d.confirmed = visit.confirmed /\ d.w = visit.w BY <1>4 DEF Keeps
<1>8. ScopeIsRead' BY <1>1, <1>4, <1>5, <1>7, ScopeReadStays DEF Knowing
<1>9. SavedIsRead'
 <2>1. saved' = saved /\ ListOf(Here)' = ListOf(Here) BY <1>6 DEF NoStore, journalVars, ListOf
 <2>2. d.through \in Nat /\ Total \in Nat BY <1>4 DEF VisitRecords, PublisherInv, RecordsInv, RecordsOK, Total
 <2>3. saved.remoteFinished => d.confirmed < d.through BY <1>1, <1>4, <1>7, <2>2
 <2>4. d.confirmed = d.through => OnlyDerivedAfter(d.through)
  <3> QED BY <1>4, <2>2 DEF OnlyDerivedAfter
 <2>5. OnlyDerivedAfter(d.through)' <=> OnlyDerivedAfter(d.through)
   BY <1>6 DEF OnlyDerivedAfter, NoStore, journalVars
 <2>6. visit'.confirmed = visit'.through /\ visit'.drained => Ended' /\ OnlyDerivedAfter(visit.through)'
  <3> QED BY <1>4, <1>5, <1>6, <2>4 DEF OnlyDerivedAfter, NoStore, journalVars
 <2> QED BY <1>4, <1>5, <1>6, <1>7, <2>1, <2>3, <2>6 DEF SavedIsRead
<1>10. VisitOK'
 <2>1. ToSet(Framing)' = {} BY <1>6 DEF ToSet
 <2> QED BY <1>1, <1>4, <1>5, <1>6, <1>7, <1>8, <1>9, <2>1 DEF VisitOK, Knowing
<1> QED BY <1>6, <1>10, <1>4, <1>5, SessionGoesOn DEF PublisherInv

LEMMA VisitSavedKeeps ==
    ASSUME PublisherInv, VisitSaved
    PROVE  PublisherInv'
<1>1. /\ visit.at = "saved" /\ NoStore /\ wandb' = wandb /\ child' = child /\ loose' = loose /\ Quiet
  BY DEF VisitSaved, Quiet
<1>2. /\ session \in Sessions /\ (session.watch # NoWatch => loose \subseteq session.under)
      /\ visit \in VisitRecords /\ ScopeIsRead /\ Bound /\ visit.w = Here /\ session.bound = Here
      /\ saved \in SavedStates
  BY <1>1, VisitStages DEF PublisherInv, SessionOK, Sessions, VisitOK, Knowing, SavedOK
<1>3. CASE saved.missing
 <2>1. session' = [session EXCEPT !.idle = visit.total] /\ visit' = Resting BY <1>3 DEF VisitSaved
 <2>3. /\ session' \in Sessions /\ session'.watch = session.watch /\ session'.held = session.held
       /\ session'.bound = session.bound /\ session'.under = session.under
   BY <1>2, <2>1 DEF Sessions, VisitRecords
 <2> QED BY <1>1, <1>2, <2>1, <2>3, VisitEnds
<1>4. CASE ~saved.missing /\ saved.remoteFinished
 <2>1. visit' = [visit EXCEPT !.at = "derived", !.saved = saved] /\ session' = session BY <1>4 DEF VisitSaved
 <2>2. PICK s \in SavedStates : s = saved BY <1>2
 <2>3. PICK d : d = DerivedVisit(visit, s) OBVIOUS
 <2>4. visit' = d BY <2>1, <2>2, <2>3 DEF DerivedVisit
 <2>5. d \in VisitRecords /\ d.at = "derived" /\ Keeps(visit, d) /\ d.saved = s BY <1>2, <2>3, DerivedVisitIs
 <2>6. /\ RecordsInv' /\ ScopeOK' /\ SavedOK' /\ WandbOK' /\ ShownOK' /\ ItemsOK'
       /\ Here' = Here /\ Bound' = Bound /\ Framing' = <<>> /\ visit' \in PubVisits
   BY <1>1, <2>4, <2>5, OnlyVisitMoves
 <2>7. ScopeIsRead'
  <3>1. visit'.confirmed = Cursor BY <1>1, <1>2, <2>4, <2>5 DEF ScopeIsRead, Keeps
  <3> QED BY <1>1, <2>4, <2>5, <3>1, ScopeReadStays DEF Knowing
 <2>8. VisitOK'
  <3>1. ToSet(Framing)' = {} BY <2>6 DEF ToSet
  <3>2. saved' = saved BY <1>1 DEF NoStore, journalVars
  <3> QED BY <1>2, <2>1, <2>2, <2>4, <2>5, <2>6, <2>7, <3>1, <3>2 DEF VisitOK, Knowing, Keeps
 <2>9. SessionOK' BY <1>1, <2>1, <2>4, <2>5, SessionGoesOn
 <2> QED BY <2>6, <2>8, <2>9 DEF PublisherInv
<1>5. CASE ~saved.missing /\ ~saved.remoteFinished
 <2>1. CASE saved.confirmed > visit.confirmed
  <3>1. visit' = Resting /\ Forget BY <1>5, <2>1 DEF VisitSaved
  <3> QED BY <1>1, <3>1, <1>2, ForgetIs, VisitEnds
 <2>2. CASE ~(saved.confirmed > visit.confirmed)
  <3>2. PICK s \in SavedStates : s = saved BY <1>2
  <3> QED BY <1>1, <1>5, <2>2, <3>2, VisitReads DEF VisitSaved
 <2> QED BY <2>1, <2>2
<1> QED BY <1>2, <1>3, <1>4, <1>5

LEMMA VisitFinishedKeeps ==
    ASSUME PublisherInv, VisitFinished
    PROVE  PublisherInv'
<1>1. /\ visit.at = "derived" /\ NoStore /\ Quiet /\ wandb' = wandb /\ child' = child /\ loose' = loose
      /\ session' = session
  BY DEF VisitFinished, Quiet
<1>2. /\ session \in Sessions /\ (session.watch # NoWatch => loose \subseteq session.under)
      /\ saved \in SavedStates /\ visit.saved = saved /\ visit.confirmed = Cursor
      /\ Cursor \in Nat /\ Total \in Nat
  BY <1>1 DEF PublisherInv, SessionOK, Sessions, VisitOK, SavedOK, ScopeIsRead, Knowing, ScopeOK, Cursor,
              RecordsInv, RecordsOK, Total
<1>3. CASE visit' = Resting BY <1>1, <1>2, <1>3, VisitEnds
<1>4. CASE /\ DerivedAfter(visit.confirmed)
           /\ visit' = Reading(visit, [visit.saved EXCEPT !.remoteFinished = FALSE, !.finishRequested = FALSE])
 <2>1. PICK s \in SavedStates : s = saved BY <1>2
 <2>2. PICK t : t = StateReopened(s) OBVIOUS
 <2>3. t \in SavedStates /\ t.sent = saved.sent /\ ~t.remoteFinished BY <2>1, <2>2, SavedTurns DEF SameMarks
 <2>4. visit' = Reading(visit, t) BY <1>2, <1>4, <2>1, <2>2 DEF StateReopened
 <2>5. visit.confirmed < Total BY <1>2, <1>4 DEF DerivedAfter
 <2> QED BY <1>1, <2>3, <2>4, <2>5, VisitReads
<1> QED BY <1>3, <1>4 DEF VisitFinished

------------
\* A saved state: it keeps what is confirmed and what is reserved.
LEMMA StateIsSaved ==
    ASSUME PublisherInv, NEW s \in SavedStates, NEW done \in BOOLEAN, SavePublication(s, done),
           UNCHANGED <<journal, eventIds, binding, scopeRow, providerEnded, deleted>>, wandb' = wandb,
           s.confirmed <= Cursor, s.sent \subseteq 1..Total, \A n \in saved.sent : n <= Cursor \/ n \in s.sent,
           s.remoteFinished => /\ s.sent = {} /\ wandb[Here].state # "none"
                               /\ (~Late => (Ended \/ providerEnded) /\ OnlyDerivedAfter(Cursor))
    PROVE  /\ RecordsInv' /\ ScopeOK' /\ SavedOK' /\ WandbOK' /\ ShownOK' /\ Onwards /\ saved' = s
           /\ Total' = Total /\ Here' = Here /\ Cursor' = Cursor /\ Bound' = Bound
<1> USE DEF PublisherInv
<1>1. /\ RecordsInv' /\ Total' = Total /\ Ended' = Ended /\ Here' = Here /\ Cursor' = Cursor
      /\ saved' = s /\ Cursor \in Nat
 <2>1. journal' = journal /\ eventIds' = eventIds /\ scopeRow' = scopeRow OBVIOUS
 <2>2. RecordsInv' BY <2>1 DEF RecordsInv
 <2>3. Total' = Total /\ Ended' = Ended BY <2>1 DEF Total, Ended, LatestLifecycle
 <2>4. Here' = Here /\ Cursor' = Cursor BY <2>1 DEF Here, Cursor
 <2>5. saved' = s BY DEF SavePublication
 <2>6. Cursor \in Nat BY DEF ScopeOK, Cursor
 <2> QED BY <2>2, <2>3, <2>4, <2>5, <2>6
<1>2. Bound' = Bound BY DEF Bound, Live, FenceNames
<1>3. PICK T : T = [list : Lists, old : Nat, new : Nat, finished : BOOLEAN] OBVIOUS
<1>4. rebuilds \in Seq(T) /\ Here = Len(rebuilds) /\ Len(rebuilds) \in Nat BY <1>3 DEF ScopeOK
<1>5. rebuilds' = [n \in 1..Len(rebuilds) |->
                    [rebuilds[n] EXCEPT !.finished = rebuilds[n].finished \/ (done /\ rebuilds[n].new = scopeRow.wandb)]]
  BY <1>4 DEF SavePublication
<1>6. \A n \in 1..Len(rebuilds) : rebuilds'[n] \in T /\ rebuilds'[n].list = rebuilds[n].list
 <2> TAKE n \in 1..Len(rebuilds)
 <2>1. PICK r \in T : r = rebuilds[n] BY <1>4
 <2>2. PICK b \in BOOLEAN : b = (r.finished \/ (done /\ r.new = scopeRow.wandb)) OBVIOUS
 <2>3. rebuilds'[n] = [r EXCEPT !.finished = b] BY <1>5, <2>1, <2>2
 <2> QED BY <1>3, <2>1, <2>3
<1>7. rebuilds' \in Seq(T) /\ Len(rebuilds') = Len(rebuilds)
 <2>1. rebuilds' \in [1..Len(rebuilds) -> T] BY <1>5, <1>6
 <2>2. rebuilds' \in Seq(T) BY <1>4, <2>1
 <2>3. DOMAIN rebuilds' = 1..Len(rebuilds) BY <1>5
 <2> QED BY <1>4, <2>2, <2>3
<1>8. ScopeOK' BY <1>1, <1>3, <1>4, <1>7 DEF ScopeOK
<1>9. \A w \in 0..Len(rebuilds) : ListOf(w)' = ListOf(w)
 <2> TAKE w \in 0..Len(rebuilds)
 <2>1. w = 0 \/ w \in 1..Len(rebuilds) BY <1>4
 <2> QED BY <1>6, <2>1 DEF ListOf
<1>10. \A n : Accounted(n) => Accounted(n)'
 <2> SUFFICES ASSUME NEW n, Accounted(n) PROVE Accounted(n)' OBVIOUS
 <2>1. n \in saved.sent => n \in 1..Total BY DEF SavedOK
 <2>2. n \in 1..Cursor \/ n \in s.sent BY <1>1, <2>1 DEF Accounted, RecordsInv, RecordsOK, Total
 <2> QED BY <1>1, <2>2 DEF Accounted
<1>11. Onwards BY <1>1, <1>7, <1>9, <1>10 DEF Onwards, SameScope
<1>12. SavedOK'
 <2>1. OnlyDerivedAfter(Cursor)' <=> OnlyDerivedAfter(Cursor) BY <1>1 DEF OnlyDerivedAfter
 <2> QED BY <1>1, <2>1 DEF SavedOK
<1>13. WandbOK' BY <1>11, RunsStay DEF Onwards
<1>14. ShownOK'
 <2>1. Shows(Here)' = Shows(Here) BY <1>1 DEF Shows
 <2> QED BY <1>1, <1>10, <2>1 DEF ShownOK
<1> QED BY <1>1, <1>2, <1>8, <1>11, <1>12, <1>13, <1>14

------------
\* What the plan of a visit says.
LEMMA PlanSays ==
    ASSUME PublisherInv, visit.at = "plan", NEW p, p = Planned(visit)
    PROVE  p \in Plans /\ PlanIsSound(visit, p) /\ (Hole(visit) => p.confirmed = visit.confirmed /\ ~p.acked)
<1> USE DEF PublisherInv
<1>1. /\ visit \in VisitRecords /\ SavedIsRead /\ RunIsSeen
  BY VisitStages DEF VisitOK, Knowing
<1>2. /\ visit.confirmed \in Nat /\ visit.through \in Nat /\ visit.display \in Nat \cup {-1}
      /\ visit.saved \in SavedStates /\ visit.seen \in SUBSET Nat /\ visit.drained \in BOOLEAN /\ visit.ended \in BOOLEAN
      /\ visit.confirmed <= visit.through /\ visit.saved.sent \subseteq 1..visit.through
  BY <1>1 DEF VisitRecords, SavedIsRead
<1> DEFINE at == Shown(visit)
           low == {n \in visit.seen : n <= visit.through}
<1>3. at \in low \cup {visit.confirmed} /\ at \in Nat /\ \A k \in low \cup {visit.confirmed} : k <= at
 <2>1. low \subseteq 0..visit.through BY <1>2
 <2>2. at = Highest(low, visit.confirmed) BY DEF Shown
 <2> HIDE DEF low, at
 <2> QED BY <1>2, <2>1, <2>2, HighestIs
<1>4. visit.confirmed <= at /\ at <= visit.through /\ (at = visit.confirmed \/ at \in visit.seen) BY <1>2, <1>3
<1>5. \A n \in visit.seen : n \in 1..visit.through => n <= at BY <1>2, <1>3
<1> HIDE DEF at, low
<1>6. /\ p.confirmed = (IF Hole(visit) THEN visit.confirmed ELSE at)
      /\ p.sent = (IF Hole(visit) THEN visit.saved.sent ELSE Reserved(visit) \cup Emits(visit))
      /\ p.emits = Emits(visit)
      /\ p.displays = (AllShown(visit) /\ visit.display # at)
      /\ p.finishes = Finishes(visit)
      /\ p.acked = (AllShown(visit) /\ visit.display = at)
      /\ p = [confirmed |-> p.confirmed, sent |-> p.sent, emits |-> p.emits, displays |-> p.displays,
              finishes |-> p.finishes, acked |-> p.acked]
  BY DEF Planned, at
<1>7. /\ Emits(visit) \subseteq at + 1..visit.through /\ Emits(visit) \cap visit.saved.sent = {}
      /\ Hole(visit) => Emits(visit) = {}
 <2>1. CASE Hole(visit) BY <2>1 DEF Emits
 <2>2. CASE ~Hole(visit)
  <3>2. \A n \in at + 1..visit.through : n \in at + 1..n BY <1>2, <1>3
  <3> QED BY <2>2, <3>2 DEF Emits, at
 <2> QED BY <2>1, <2>2
<1>8. Reserved(visit) = {n \in visit.saved.sent : n \notin visit.seen} BY DEF Reserved
<1>9. p \in Plans
 <2>3. visit.saved.sent \subseteq Nat BY <1>2 DEF SavedStates
 <2>4. p.sent \in SUBSET Nat /\ p.emits \in SUBSET Nat BY <1>6, <1>8, <1>2, <1>3, <1>7, <2>3
 <2>5. p.displays \in BOOLEAN /\ p.finishes \in BOOLEAN /\ p.acked \in BOOLEAN BY <1>6 DEF Finishes
 <2> QED BY <1>6, <1>2, <1>3, <2>4, <2>5 DEF Plans
<1>10. visit.confirmed <= p.confirmed /\ p.confirmed <= visit.through /\ (p.confirmed = visit.confirmed \/ p.confirmed \in visit.seen)
  BY <1>2, <1>4, <1>6
<1>11. p.emits \subseteq p.confirmed + 1..visit.through
  BY <1>6, <1>7
<1>12. p.sent \subseteq visit.saved.sent \cup p.emits /\ p.emits \subseteq p.sent BY <1>6, <1>7, <1>8
<1>13. \A n \in visit.saved.sent : n \in p.sent \/ n <= p.confirmed BY <1>2, <1>5, <1>6, <1>8
<1>14. p.displays => p.confirmed = visit.through BY <1>6 DEF AllShown, at
<1>15. ASSUME p.finishes PROVE /\ p.sent = {} /\ visit.confirmed = visit.through /\ visit.through = visit.total
                               /\ visit.drained \/ visit.ended
 <2>1. AllShown(visit) /\ visit.display = at /\ Terminal(visit) BY <1>6, <1>15 DEF Finishes, at
 <2>2. ~Hole(visit) /\ at = visit.through BY <2>1 DEF AllShown, at
 <2>3. visit.confirmed = visit.through BY <1>1, <1>2, <2>1, <2>2 DEF RunIsSeen
 <2>4. visit.saved.sent = {}
  <3> QED BY <1>2, <2>3, <1>1 DEF SavedIsRead
 <2>5. Emits(visit) = {} BY <1>2, <1>7, <2>2
 <2> QED BY <1>6, <1>8, <2>1, <2>2, <2>3, <2>4, <2>5 DEF Terminal
<1>16. p.emits \cap visit.saved.sent = {} BY <1>6, <1>7
<1>17. PlanIsSound(visit, p) BY <1>10, <1>11, <1>12, <1>13, <1>14, <1>15, <1>16 DEF PlanIsSound
<1> QED BY <1>9, <1>17, <1>6 DEF AllShown

------------
\* A Run is created only when nothing of the scope was ever reserved or confirmed.
LEMMA CreatedIsEmpty ==
    ASSUME PublisherInv, visit.at = "observe", MayCreate(visit)
    PROVE  wandb[Here].rows = <<>> /\ Shows(Here) = {}
<1> USE DEF PublisherInv
<1>1. visit \in VisitRecords /\ SavedIsRead /\ ScopeIsRead BY VisitStages DEF VisitOK, Knowing
<1>2. Cursor = 0 /\ visit.saved.sent = {}
 <2> QED BY <1>1 DEF MayCreate, Must, ScopeIsRead, VisitRecords
<1>3. saved.sent = {}
 <2>2. visit.saved.sent = {n \in saved.sent : n > 0} BY <1>1, <1>2 DEF SavedIsRead, ScopeIsRead
 <2> QED BY <1>2, <2>2 DEF SavedOK
<1>4. Shows(Here) = {} BY <1>2, <1>3 DEF ShownOK, Accounted
<1>5. Here \in 0..MaxRuns BY PublisherAssumption DEF ScopeOK
<1>7. wandb[Here].rows \in Seq([n : Nat, list : AnyList]) BY <1>5 DEF WandbOK, WandbRuns
<1> QED BY <1>4, <1>5, FS_EmptySet, <1>7 DEF WandbOK, RunOK

LEMMA ObserveOpens ==
    ASSUME PublisherInv, visit.at = "observe", Gone(Here) => MayCreate(visit),
           NEW run, run = (IF Gone(Here) THEN [NoRun EXCEPT !.state = "running"] ELSE wandb[Here]),
           wandb' = [wandb EXCEPT ![Here] = run],
           visit' = PlanVisit(visit, {r.n : r \in ToSet(run.rows)}, run.display, run.state, Settled),
           NoStore, UNCHANGED <<session, child, loose, failures>>
    PROVE  PublisherInv'
<1> USE DEF PublisherInv
<1>1. /\ visit \in VisitRecords /\ SavedIsRead /\ ScopeIsRead /\ visit.confirmed = Cursor /\ Bound
      /\ visit.w = Here /\ session.bound = Here
  BY VisitStages DEF VisitOK, Knowing, ScopeIsRead
<1>2. /\ RecordsInv' /\ ScopeOK' /\ SavedOK' /\ Onwards
      /\ Total' = Total /\ Ended' = Ended /\ Here' = Here /\ Cursor' = Cursor /\ Bound' = Bound
      /\ saved' = saved /\ rebuilds' = rebuilds /\ Cursor \in Nat
  BY StoreRests DEF NoStore, journalVars, ScopeOK, Cursor
<1>3. Here \in 0..MaxRuns /\ wandb \in [0..MaxRuns -> WandbRuns] /\ Here = Len(rebuilds)
  BY PublisherAssumption DEF ScopeOK, WandbOK
<1>4. /\ run \in WandbRuns /\ run.rows = wandb[Here].rows /\ run.state # "none" /\ run.display <= Cursor
 <2>1. CASE Gone(Here)
  <3>2. run = [rows |-> <<>>, display |-> -1, state |-> "running"] BY <2>1 DEF NoRun
  <3>3. <<>> \in Seq([n : Nat, list : AnyList]) OBVIOUS
  <3>4. run \in WandbRuns
   <4>1. PICK e \in Seq([n : Nat, list : AnyList]) : e = <<>> BY <3>3
   <4>2. PICK z \in Nat \cup {-1} : z = -1 OBVIOUS
   <4>3. PICK t \in RunStates : t = "running" BY DEF RunStates
   <4>4. run = [rows |-> e, display |-> z, state |-> t] BY <3>2, <4>1, <4>2, <4>3
   <4> QED BY <4>4 DEF WandbRuns
  <3>5. run.rows = <<>> /\ run.display = -1 /\ run.state # "none" BY <3>2
  <3> QED BY <1>2, <2>1, CreatedIsEmpty, <3>4, <3>5
 <2>2. CASE ~Gone(Here)
  <3>2. wandb[Here].display <= Cursor /\ wandb[Here].state # "none" BY <2>2 DEF Gone, ShownOK
  <3> QED BY <1>3, <2>2, <3>2
 <2> QED BY <2>1, <2>2
<1>5. /\ wandb' \in [0..MaxRuns -> WandbRuns] /\ wandb'[Here] = run
      /\ \A w \in 0..MaxRuns : wandb'[w].rows = wandb[w].rows
      /\ \A w \in 0..MaxRuns : w # Here => wandb'[w] = wandb[w]
  BY <1>3, <1>4
<1>6. \A w \in 0..MaxRuns : Shows(w)' = Shows(w) BY <1>5 DEF Shows
<1>7. Shows(Here)' = Shows(Here)
 <2> QED BY <1>3, <1>5, <1>2 DEF Shows
<1>8. PICK seen : seen = {r.n : r \in ToSet(run.rows)} OBVIOUS
<1>9. seen = Shows(Here) /\ seen \in SUBSET Nat
 <2>2. PICK T : T = [n : Nat, list : AnyList] OBVIOUS
 <2>3. run.rows \in Seq(T) BY <1>4, <2>2 DEF WandbRuns
 <2>4. \A r \in ToSet(run.rows) : r \in T BY <2>3 DEF ToSet
 <2> QED BY <1>8, <1>4, <2>2, <2>4 DEF Shows
<1>10. PICK settled \in BOOLEAN : settled = Settled BY DEF Settled
<1>11. PICK display \in Nat \cup {-1}, state \in RunStates : display = run.display /\ state = run.state
  BY <1>4 DEF WandbRuns
<1>12. PICK d : d = PlanVisit(visit, seen, display, state, settled) OBVIOUS
<1>13. visit' = d BY <1>8, <1>10, <1>11, <1>12
<1>14. /\ d \in VisitRecords /\ d.at = "plan" /\ KeepsReading(visit, d)
       /\ d.seen = seen /\ d.display = display /\ d.state = state /\ d.settled = settled
  BY <1>1, <1>9, <1>12, PlanVisitIs
<1>15. Framing = <<>> /\ Framing' = <<>> /\ visit' \in PubVisits BY <1>13, <1>14 DEF Framing, PubVisits
<1>16. WandbOK'
 <2> SUFFICES ASSUME NEW x \in 0..MaxRuns PROVE RunOK(x)' BY <1>5 DEF WandbOK
 <2>1. RunOK(x) /\ ListOf(x)' = ListOf(x) BY <1>2 DEF WandbOK, ListOf
 <2> QED BY <1>2, <1>3, <1>4, <1>5, <1>6, <2>1 DEF RunOK
<1>17. ShownOK' BY <1>2, <1>4, <1>5, <1>7 DEF ShownOK, Onwards
<1>18. ItemsOK'
 <2>2. \A f \in Items : ItemOK(f) => ItemOK(f)'
  <3> TAKE f \in Items
  <3> HAVE ItemOK(f)
  <3>1. f.w \in 0..MaxRuns BY PublisherAssumption DEF ItemOK, Items, ScopeOK
  <3>2. ListOf(f.w)' = ListOf(f.w) /\ (Accounted(f.n) => Accounted(f.n)') BY <1>2 DEF ListOf, Onwards
  <3> QED BY <1>2, <1>6, <3>1, <3>2 DEF ItemOK
 <2> QED BY <1>15, <2>2 DEF ItemsOK, ToSet
<1>19. ScopeIsRead'
 <2> QED BY <1>1, <1>13, <1>14, ScopeReadStays DEF Knowing, KeepsReading, Keeps
<1>20. SavedIsRead'
 <2>1. ListOf(Here)' = ListOf(Here) BY <1>2 DEF ListOf
 <2>2. OnlyDerivedAfter(visit.through)' <=> OnlyDerivedAfter(visit.through)
   BY <1>2, <1>13, <1>14 DEF OnlyDerivedAfter, NoStore, journalVars, KeepsReading
 <2> QED BY <1>1, <1>2, <1>13, <1>14, <2>1, <2>2 DEF SavedIsRead, KeepsReading, Keeps
<1>21. RunIsSeen'
 <2>1. d.confirmed = Cursor /\ display <= Cursor BY <1>1, <1>4, <1>11, <1>14 DEF KeepsReading, Keeps
 <2> QED BY <1>2, <1>4, <1>5, <1>7, <1>9, <1>13, <1>14, <2>1 DEF RunIsSeen
<1>22. VisitOK'
 <2>1. ToSet(Framing)' = {} BY <1>15 DEF ToSet
 <2>2. d.w = Here /\ session' = session BY <1>1, <1>14 DEF KeepsReading, Keeps
 <2> QED BY <1>1, <1>2, <1>13, <1>14, <1>15, <1>19, <1>20, <1>21, <2>1, <2>2 DEF VisitOK, Knowing
<1>23. SessionOK'
 <2>3. session.watch # NoWatch /\ Settled => loose = {} BY DEF SessionOK, Settled
 <2>4. visit'.settled = Settled /\ visit'.seen = Shows(Here) /\ visit'.at = "plan" BY <1>9, <1>10, <1>13, <1>14
 <2>5. /\ session' = session /\ child' = child /\ loose' = loose /\ visit.at # "repaired"
       /\ session \in Sessions /\ (session.watch # NoWatch => loose \subseteq session.under)
       /\ NothingOfHere \/ (session.held /\ session.bound = Here)
   BY DEF SessionOK, Sessions
 <2>6. ~session.held /\ visit'.settled /\ session.watch # NoWatch
         => loose = {} /\ NothingOfHere /\ Shows(Here)' \subseteq visit'.seen
   BY <1>7, <2>3, <2>4 DEF SessionOK
 <2> QED BY <1>2, <2>4, <2>5, <2>6 DEF SessionOK, Sessions, NothingOfHere
<1> QED BY <1>2, <1>16, <1>17, <1>18, <1>22, <1>23

\* The visit ends with a saved state, and the items stay or are lost.
LEMMA SavingEnds ==
    ASSUME PublisherInv, ScopeOK', RecordsInv', SavedOK', WandbOK', ShownOK', Onwards, wandb' = wandb, visit' = Resting,
           visit.at # "repaired" \/ child' = <<>>, session' \in Sessions, session'.bound = session.bound,
           \/ child' = child /\ loose' = loose /\ session'.held = session.held
           \/ child' = <<>> /\ loose' = loose \cup ToSet(child),
           session'.watch # NoWatch => loose' \subseteq session'.under
    PROVE  PublisherInv'
<1>1. VisitOK' /\ Framing' = <<>> BY RestIsOK
<1>4. SessionOK' BY SessionRests DEF Onwards, SameScope
<1> QED BY <1>1, ItemsStay, ItemsAreLost, <1>4 DEF PublisherInv

LEMMA ObserveKeeps ==
    ASSUME PublisherInv, Observe
    PROVE  PublisherInv'
<1>1. visit.at = "observe" /\ visit.w = Here /\ visit \in VisitRecords
  BY VisitStages DEF Observe, PublisherInv, VisitOK, Knowing
<1>2. CASE /\ Gone(visit.w) => MayCreate(visit)
           /\ LET run == IF Gone(visit.w) THEN [NoRun EXCEPT !.state = "running"] ELSE wandb[visit.w]
              IN /\ wandb' = [wandb EXCEPT ![visit.w] = run]
                 /\ visit' = [visit EXCEPT !.at = "plan", !.seen = {r.n : r \in ToSet(run.rows)},
                                           !.display = run.display, !.state = run.state, !.settled = Settled]
           /\ NoStore /\ UNCHANGED <<session, child, loose, failures>>
 <2>1. PICK run : run = (IF Gone(Here) THEN [NoRun EXCEPT !.state = "running"] ELSE wandb[Here]) OBVIOUS
 <2>3. visit' = PlanVisit(visit, {r.n : r \in ToSet(run.rows)}, run.display, run.state, Settled)
   BY <1>1, <1>2, <2>1 DEF PlanVisit
 <2> QED BY <1>1, <1>2, <2>1, <2>3, ObserveOpens
<1>3. CASE /\ SavePublication([visit.saved EXCEPT !.missing = TRUE], FALSE)
           /\ session' = [session EXCEPT !.watch = NoWatch, !.under = {}, !.idle = visit.total]
           /\ visit' = Resting
           /\ UNCHANGED <<journal, eventIds, binding, scopeRow, providerEnded, deleted>> /\ Quiet
 <2>1. /\ SavedIsRead /\ ScopeIsRead /\ visit.saved \in SavedStates /\ visit.confirmed = Cursor /\ Cursor \in Nat
       /\ visit.total \in Int /\ session \in Sessions
   BY <1>1 DEF PublisherInv, VisitOK, VisitRecords, ScopeIsRead, Knowing, ScopeOK, Cursor, SessionOK, Sessions
 <2>2. PICK v \in SavedStates : v = visit.saved BY <2>1
 <2>3. PICK s : s = StateMissing(v) OBVIOUS
 <2>4. s \in SavedStates /\ s.confirmed = v.confirmed /\ s.sent = v.sent /\ ~s.remoteFinished
   BY <2>1, <2>2, <2>3, SavedTurns DEF SameMarks, SavedIsRead
 <2>5. SavePublication(s, FALSE) BY <1>3, <2>2, <2>3 DEF StateMissing
 <2>6. s.confirmed <= Cursor /\ s.sent \subseteq 1..Total /\ \A n \in saved.sent : n <= Cursor \/ n \in s.sent
  <3>2. s.sent = {n \in saved.sent : n > Cursor} /\ s.confirmed = Cursor BY <2>1, <2>2, <2>4 DEF SavedIsRead
  <3> QED BY <2>1, <3>2 DEF PublisherInv, SavedOK
 <2>7. wandb' = wandb /\ child' = child /\ loose' = loose BY <1>3 DEF Quiet
 <2>8. RecordsInv' /\ ScopeOK' /\ SavedOK' /\ WandbOK' /\ ShownOK' /\ Onwards
   BY <1>3, <2>4, <2>5, <2>6, <2>7, StateIsSaved
 <2>9. session' \in Sessions /\ session'.watch = NoWatch /\ session'.held = session.held /\ session'.bound = session.bound
  <3>1. NoWatch \in Watches BY DEF NoWatch, Watches
  <3> QED BY <1>3, <2>1, <3>1 DEF Sessions
 <2> QED BY <1>1, <1>3, <2>7, <2>8, <2>9, SavingEnds
<1> QED BY <1>2, <1>3 DEF Observe

------------
\* The cursor moves to what is proven.
LEMMA CursorMoves ==
    ASSUME PublisherInv, NEW t \in Nat, NEW observed, ConfirmationPlan(Here, t, observed), DOMAIN observed \subseteq Shows(Here),
           Confirmed(t)
    PROVE  /\ scopeRow' \in [exists : BOOLEAN, wandb : Nat, confirmed : Nat] /\ scopeRow'.exists = scopeRow.exists
           /\ Here' = Here /\ Cursor' = t /\ Cursor <= t /\ t <= Total /\ 1..t \subseteq Shows(Here)
<1> USE DEF PublisherInv
<1>1. Cursor <= t /\ t <= Total BY DEF ConfirmationPlan, Cursor
<1>2. scopeRow \in [exists : BOOLEAN, wandb : Nat, confirmed : Nat] /\ Cursor \in Nat BY DEF ScopeOK, Cursor
<1>3. PICK c \in Nat : c = IF Cursor > t THEN Cursor ELSE t BY <1>2
<1>6. /\ scopeRow' \in [exists : BOOLEAN, wandb : Nat, confirmed : Nat] /\ scopeRow'.exists = scopeRow.exists
      /\ scopeRow'.wandb = scopeRow.wandb /\ scopeRow'.confirmed = c BY <1>2, <1>3 DEF Confirmed, Cursor
<1>8. \A n \in 1..t : n \in Shows(Here)
 <2> TAKE n \in 1..t
 <2>1. CASE n <= Cursor
  <3> QED BY <1>2, <2>1 DEF ShownOK
 <2>2. CASE n > Cursor
  <3>1. n \in (IF Cursor = 0 THEN 1 ELSE Cursor)..t BY <1>2, <2>2
  <3> QED BY <3>1 DEF ConfirmationPlan, Cursor
 <2> QED BY <1>2, <2>1, <2>2
<1> QED BY <1>1, <1>2, <1>3, <1>6, <1>8 DEF Here, Cursor

LEMMA CursorGoesOn ==
    ASSUME PublisherInv, UNCHANGED <<journal, eventIds, binding, rebuilds, saved, providerEnded, deleted>>, wandb' = wandb,
           scopeRow' \in [exists : BOOLEAN, wandb : Nat, confirmed : Nat], scopeRow'.exists = scopeRow.exists,
           Here' = Here, Cursor <= Cursor', Cursor' <= Total, 1..Cursor' \subseteq Shows(Here)
    PROVE  /\ RecordsInv' /\ ScopeOK' /\ SavedOK' /\ WandbOK' /\ ShownOK' /\ Onwards
           /\ Total' = Total /\ Ended' = Ended /\ Bound' = Bound
<1> USE DEF PublisherInv
<1>1. /\ RecordsInv' /\ Total' = Total /\ Ended' = Ended /\ Bound' = Bound /\ Cursor' \in Nat /\ Cursor \in Nat
      /\ Total \in Nat
 <2>2. Ended' = Ended BY DEF Ended, LatestLifecycle, Total
 <2>3. Bound' = Bound BY DEF Bound, Live, FenceNames
 <2>4. Cursor' \in Nat /\ Cursor \in Nat BY DEF ScopeOK, Cursor
 <2> QED BY <2>2, <2>3, <2>4 DEF RecordsInv, RecordsOK, Total
<1>3. SavedOK'
 <2>1. \A n \in Cursor' + 1..Total : n \in Cursor + 1..Total
  <3>1. PICK c \in Nat, e \in Nat, t \in Nat : c = Cursor /\ e = Cursor' /\ t = Total BY <1>1
  <3>2. c <= e BY <3>1
  <3>3. \A n \in e + 1..t : n \in c + 1..t BY <3>2
  <3> QED BY <3>1, <3>3
 <2>3. saved.confirmed <= Cursor' /\ saved.confirmed \in Nat BY <1>1 DEF SavedOK, SavedStates
 <2> QED BY <1>1, <2>1, <2>3 DEF SavedOK, OnlyDerivedAfter
<1>4. \A n : Accounted(n) => Accounted(n)' BY <1>1 DEF Accounted
<1>5. Onwards BY <1>1, <1>4 DEF Onwards, SameScope, ListOf
<1>6. WandbOK' BY <1>5, RunsStay DEF Onwards
<1>7. ShownOK'
 <2>2. wandb[Here].display <= Cursor'
  <3>2. wandb[Here].display \in Int /\ wandb[Here].display <= Cursor
    BY PublisherAssumption DEF WandbRuns, ShownOK, ScopeOK, WandbOK
  <3> QED BY <1>1, <3>2
 <2> QED BY <1>4, <2>2 DEF ShownOK, Shows
<1> QED BY <1>1, <1>3, <1>5, <1>6, <1>7 DEF ScopeOK

LEMMA ConfirmKeeps ==
    ASSUME PublisherInv, Confirm
    PROVE  PublisherInv'
<1> DEFINE proof == [n \in visit.seen |-> journal[n].id]
           known(p) == p.confirmed > visit.confirmed \/ p.acked
           proven(p) == ConfirmationPlan(Here, p.confirmed, proof)
           beyond == Hole(visit) /\ visit.saved.sent = {}
           again(p) == visit.saved.repair # {} /\ \A n \in visit.saved.repair : n <= p.confirmed
<1>1. /\ visit.at = "plan" /\ visit \in VisitRecords /\ visit.w = Here /\ Bound /\ session.bound = Here
      /\ SavedIsRead /\ ScopeIsRead /\ RunIsSeen /\ visit.confirmed = Cursor /\ Cursor \in Nat
      /\ session \in Sessions /\ (session.watch # NoWatch => loose \subseteq session.under)
  BY VisitStages DEF Confirm, PublisherInv, VisitOK, Knowing, ScopeIsRead, SessionOK, Sessions, ScopeOK, Cursor
<1>2. PICK p : p = Planned(visit) OBVIOUS
<1>3. p \in Plans /\ PlanIsSound(visit, p) /\ (Hole(visit) => p.confirmed = visit.confirmed /\ ~p.acked)
  BY <1>1, <1>2, PlanSays
<1>4. /\ IF known(p) /\ proven(p) THEN Confirmed(p.confirmed) ELSE UNCHANGED scopeRow
      /\ IF beyond \/ (known(p) /\ ~proven(p))
           THEN visit' = Resting /\ Forget
           ELSE visit' = SaveVisit(visit, p, again(p)) /\ session' = session
      /\ UNCHANGED <<journal, eventIds, binding, rebuilds, saved, providerEnded, deleted>>
      /\ wandb' = wandb /\ child' = child /\ loose' = loose
  BY <1>1, <1>2 DEF Confirm, SaveVisit, Quiet
<1>5. PICK b \in BOOLEAN : b = again(p) OBVIOUS
<1>6. DOMAIN proof = visit.seen /\ p.confirmed \in Nat /\ visit.seen \subseteq Shows(Here)
  BY <1>1, <1>3 DEF Plans, RunIsSeen
<1>7. PICK shown : shown = proof OBVIOUS
<1>9. DOMAIN shown \subseteq Shows(Here) BY <1>6, <1>7
<1> HIDE DEF proof, again, beyond
<1>10. known(p) /\ proven(p) =>
         /\ scopeRow' \in [exists : BOOLEAN, wandb : Nat, confirmed : Nat] /\ scopeRow'.exists = scopeRow.exists
         /\ Here' = Here /\ Cursor' = p.confirmed /\ Cursor <= p.confirmed /\ p.confirmed <= Total
         /\ 1..p.confirmed \subseteq Shows(Here) BY <1>4, <1>6, <1>7, <1>9, CursorMoves
<1>11. ~(known(p) /\ proven(p)) => scopeRow' = scopeRow BY <1>4
<1>12. /\ scopeRow' \in [exists : BOOLEAN, wandb : Nat, confirmed : Nat] /\ scopeRow'.exists = scopeRow.exists
       /\ Here' = Here /\ Cursor <= Cursor' /\ Cursor' <= Total /\ 1..Cursor' \subseteq Shows(Here)
 <2>1. CASE known(p) /\ proven(p) BY <1>10, <2>1
 <2>2. CASE ~(known(p) /\ proven(p)) BY <1>1, <1>11, <2>2 DEF PublisherInv, ScopeOK, SavedOK, ShownOK, Here, Cursor
 <2> QED BY <2>1, <2>2
<1>13. /\ RecordsInv' /\ ScopeOK' /\ SavedOK' /\ WandbOK' /\ ShownOK' /\ Onwards
       /\ Total' = Total /\ Ended' = Ended /\ Bound' = Bound
  BY <1>4, <1>12, CursorGoesOn
<1>14. CASE beyond \/ (known(p) /\ ~proven(p))
 <2>1. visit' = Resting /\ Forget BY <1>4, <1>14
 <2> QED BY <1>1, <1>4, <1>13, <2>1, ForgetIs, SavingEnds
<1>15. CASE ~(beyond \/ (known(p) /\ ~proven(p)))
 <2>1. PICK d : d = SaveVisit(visit, p, b) OBVIOUS
 <2>2. visit' = d /\ session' = session BY <1>4, <1>5, <1>15, <2>1
 <2>3. d \in VisitRecords /\ d.at = "save" /\ KeepsSight(visit, d) /\ d.plan = p BY <1>1, <1>3, <2>1, SaveVisitIs
 <2>4. /\ d.w = visit.w /\ d.confirmed = visit.confirmed /\ d.total = visit.total /\ d.ended = visit.ended
       /\ d.through = visit.through /\ d.list = visit.list /\ d.saved = visit.saved /\ d.drained = visit.drained
       /\ d.seen = visit.seen /\ d.display = visit.display /\ d.state = visit.state /\ d.settled = visit.settled
   BY <2>3 DEF KeepsSight, KeepsReading, Keeps
 <2>5. Framing' = <<>> /\ visit' \in PubVisits BY <2>2, <2>3 DEF Framing, PubVisits
 <2>7. Cursor' = p.confirmed
  <3>1. CASE known(p) BY <1>10, <1>15, <3>1
  <3>2. CASE ~known(p)
   <4> QED BY <1>1, <1>6, <1>11, <3>2, <1>3 DEF Cursor, PlanIsSound
  <3> QED BY <3>1, <3>2
 <2>8. ScopeIsRead'
  <3>1. providerEnded' = providerEnded /\ journal' = journal BY <1>4
  <3> QED BY <1>1, <1>13, <2>2, <2>3, <2>4, <3>1 DEF ScopeIsRead, OnlyDerivedAfter
 <2>9. SavedIsRead'
  <3>1. saved' = saved /\ journal' = journal /\ rebuilds' = rebuilds BY <1>4
  <3> QED BY <1>1, <1>12, <1>13, <2>2, <2>4, <3>1 DEF SavedIsRead, OnlyDerivedAfter, ListOf
 <2>10. RunIsSeen'
  <3> QED BY <1>1, <1>4, <1>12, <2>2, <2>4 DEF RunIsSeen, Shows
 <2>11. PlanOK'
  <3>1. PlanIsSound(d, p) BY <1>3, <2>4 DEF PlanIsSound
  <3>2. saved.remoteFinished => p.confirmed = visit.confirmed
   <4> HAVE saved.remoteFinished
   <4>3. p.confirmed \in Shows(Here) => p.confirmed <= Cursor
     BY <1>1 DEF PublisherInv, ShownOK, Accounted, SavedOK
   <4>4. visit.confirmed <= p.confirmed BY <1>3 DEF PlanIsSound
   <4> QED BY <1>1, <1>6, <1>3, <4>3, <4>4 DEF PlanIsSound
  <3>3. saved' = saved BY <1>4
  <3> QED BY <2>2, <2>3, <2>4, <2>7, <3>1, <3>2, <3>3 DEF PlanOK
 <2>12. VisitOK'
  <3>1. ToSet(Framing)' = {} BY <2>5 DEF ToSet
  <3> QED BY <1>1, <1>12, <1>13, <2>2, <2>3, <2>4, <2>5, <2>8, <2>9, <2>10, <2>11, <3>1 DEF VisitOK, Knowing
 <2>13. SessionOK'
  <3>1. NothingOfHere' <=> NothingOfHere BY <1>4, <1>12 DEF NothingOfHere
  <3>2. Shows(Here)' = Shows(Here) BY <1>4, <1>12 DEF Shows
  <3> QED BY <1>1, <1>4, <1>12, <2>2, <2>3, <2>4, <3>1, <3>2 DEF PublisherInv, SessionOK
 <2> QED BY <1>13, <1>4, <2>5, ItemsStay, <2>12, <2>13 DEF PublisherInv
<1> QED BY <1>14, <1>15

------------
\* The state a visit saves.
LEMMA NextIs ==
    ASSUME PublisherInv, visit.at = "save", NEW s, s = NextSaved(visit)
    PROVE  /\ s \in SavedStates /\ s.confirmed = Cursor /\ s.sent = visit.plan.sent /\ ~s.remoteFinished
           /\ s.sent \subseteq 1..Total /\ \A n \in saved.sent : n <= Cursor \/ n \in s.sent
<1> USE DEF PublisherInv
<1>1. /\ visit \in VisitRecords /\ SavedIsRead /\ PlanOK /\ Cursor \in Nat /\ Total \in Nat
  BY VisitStages DEF VisitOK, Knowing, ScopeOK, Cursor, RecordsInv, RecordsOK, Total
<1>2. /\ visit.plan \in Plans /\ visit.saved \in SavedStates /\ visit.repaired \in BOOLEAN
      /\ visit.through \in Nat /\ visit.confirmed \in Nat
  BY <1>1 DEF VisitRecords
<1>3. PICK v \in SavedStates, p \in Plans : v = visit.saved /\ p = visit.plan BY <1>2
<1>4. PICK b \in BOOLEAN : b = (v.repairConfirmed \/ visit.repaired) OBVIOUS
<1>5. s = StateNext(v, p.confirmed, p.sent, b) BY <1>3, <1>4 DEF NextSaved, StateNext
<1>6. p.confirmed \in Nat /\ p.sent \in SUBSET Nat BY DEF Plans
<1>7. s \in SavedStates /\ s.confirmed = p.confirmed /\ s.sent = p.sent /\ s.remoteFinished = v.remoteFinished
  BY <1>5, <1>6, SavedOpens
<1>8. PlanIsSound(visit, p) /\ Cursor = p.confirmed BY <1>1, <1>3 DEF PlanOK
<1>9. p.sent \subseteq 1..Total
 <2>1. visit.through <= Total /\ visit.saved.sent \subseteq 1..visit.through BY <1>1 DEF SavedIsRead
 <2>3. \A n \in 1..visit.through : n \in 1..Total BY <1>1, <1>2, <2>1
 <2>4. \A n \in p.confirmed + 1..visit.through : n \in 1..visit.through BY <1>2, <1>6
 <2> QED BY <1>8, <2>1, <2>3, <2>4 DEF PlanIsSound
<1>10. ASSUME NEW n \in saved.sent PROVE n <= Cursor \/ n \in p.sent
 <2>1. n \in 1..Total BY DEF SavedOK
 <2>2. CASE n > visit.confirmed
  <3> QED BY <1>8, <1>1, <2>2 DEF PlanIsSound, SavedIsRead
 <2>3. CASE n <= visit.confirmed
  <3> QED BY <1>1, <1>2, <2>1, <2>3, <1>8 DEF PlanIsSound
 <2> QED BY <1>1, <1>2, <2>1, <2>2, <2>3
<1> QED BY <1>1, <1>3, <1>7, <1>8, <1>9, <1>10 DEF SavedIsRead

LEMMA NextIsSaved ==
    ASSUME PublisherInv, visit.at = "save", NEW s \in SavedStates, s.confirmed = Cursor, s.sent = visit.plan.sent,
           ~s.remoteFinished, Saving(s, FALSE), wandb' = wandb
    PROVE  /\ RecordsInv' /\ ScopeOK' /\ SavedOK' /\ WandbOK' /\ ShownOK' /\ Onwards /\ saved' = s
           /\ Total' = Total /\ Here' = Here /\ Cursor' = Cursor /\ Bound' = Bound
<1>1. PICK t : t = NextSaved(visit) OBVIOUS
<1>3. s.confirmed <= Cursor BY DEF PublisherInv, ScopeOK, Cursor
<1> QED BY <1>1, NextIs, <1>3, StateIsSaved DEF Saving

\* What a visit at the end of its plan knows.
LEMMA SaveKnows ==
    ASSUME PublisherInv, visit.at = "save"
    PROVE  /\ visit \in VisitRecords /\ ScopeIsRead /\ SavedIsRead /\ RunIsSeen /\ PlanOK /\ Bound /\ visit.w = Here
           /\ session.bound = Here /\ session \in Sessions /\ (session.watch # NoWatch => loose \subseteq session.under)
           /\ visit.plan \in Plans /\ Framing = <<>>
           /\ Cursor \in Nat /\ Total \in Nat /\ Here \in 0..MaxRuns /\ Here = Len(rebuilds)
  BY VisitStages, PublisherAssumption
  DEF PublisherInv, VisitOK, Knowing, SessionOK, Sessions, VisitRecords, Framing, ScopeOK, Cursor, RecordsInv, RecordsOK, Total

LEMMA SaveFinishKeeps ==
    ASSUME PublisherInv, SaveFinished
    PROVE  PublisherInv'
<1>1. visit.at = "save" /\ FinishSeen(visit) /\ visit' = Resting /\ session' = session /\ wandb' = wandb
      /\ child' = child /\ loose' = loose
  BY DEF SaveFinished, Quiet
<1>2. /\ visit \in VisitRecords /\ ScopeIsRead /\ SavedIsRead /\ RunIsSeen /\ PlanOK
      /\ session \in Sessions /\ (session.watch # NoWatch => loose \subseteq session.under)
      /\ visit.plan \in Plans /\ Cursor \in Nat /\ Total \in Nat
  BY <1>1, SaveKnows
<1>3. PICK t : t = NextSaved(visit) OBVIOUS
<1>4. /\ t \in SavedStates /\ t.confirmed = Cursor /\ t.sent = visit.plan.sent
      /\ t.sent \subseteq 1..Total /\ \A n \in saved.sent : n <= Cursor \/ n \in t.sent
  BY <1>1, <1>3, NextIs
<1>5. PICK s : s = StateFinished(t) OBVIOUS
<1>6. s \in SavedStates /\ s.confirmed = Cursor /\ s.sent = visit.plan.sent BY <1>4, <1>5, SavedTurns DEF SameMarks
<1>7. /\ SavePublication(s, TRUE)
      /\ UNCHANGED <<journal, eventIds, binding, scopeRow, providerEnded, deleted>>
  BY <1>3, <1>5 DEF SaveFinished, Saving, StateFinished
<1>8. /\ visit.plan.sent = {} /\ visit.confirmed = visit.through /\ visit.through = visit.total
      /\ visit.drained \/ visit.ended
      /\ visit.plan.confirmed = visit.through /\ Cursor = visit.plan.confirmed
 <2>2. visit.through \in Nat /\ visit.plan.confirmed \in Nat BY <1>2 DEF VisitRecords, Plans
 <2> QED BY <1>1, <1>2, <2>2 DEF PlanIsSound, PlanOK, FinishSeen
<1>9. ~Late => (Ended \/ providerEnded) /\ OnlyDerivedAfter(Cursor)
 <2>1. CASE visit.drained BY <1>2, <1>8, <2>1 DEF SavedIsRead
 <2>2. CASE visit.ended BY <1>2, <1>8, <2>2 DEF ScopeIsRead
 <2> QED BY <1>8, <2>1, <2>2
<1>10. wandb[Here].state # "none" BY <1>2 DEF RunIsSeen
<1>11. s.confirmed <= Cursor BY <1>2, <1>6
<1>12. RecordsInv' /\ ScopeOK' /\ SavedOK' /\ WandbOK' /\ ShownOK' /\ Onwards
  BY <1>1, <1>4, <1>6, <1>7, <1>8, <1>9, <1>10, <1>11, StateIsSaved
<1> QED BY <1>1, <1>2, <1>12, SavingEnds

LEMMA SaveQuietKeeps ==
    ASSUME PublisherInv, SaveQuiet \/ AwaitChild
    PROVE  PublisherInv'
<1>1. visit.at = "save" /\ visit' = Resting /\ wandb' = wandb /\ Saving(NextSaved(visit), FALSE)
  BY DEF SaveQuiet, AwaitChild, Quiet
<1>2. /\ visit \in VisitRecords /\ session \in Sessions /\ (session.watch # NoWatch => loose \subseteq session.under)
  BY <1>1, SaveKnows
<1>3. PICK s : s = NextSaved(visit) OBVIOUS
<1>5. Saving(s, FALSE) BY <1>1, <1>3
<1>6. RecordsInv' /\ ScopeOK' /\ SavedOK' /\ WandbOK' /\ ShownOK' /\ Onwards
  BY <1>1, <1>3, NextIs, <1>5, NextIsSaved
<1>7. CASE SaveQuiet
 <2>1. PICK n : n = IF visit.through = visit.total THEN visit.total ELSE session.idle OBVIOUS
 <2>3. n \in Int BY <1>2, <2>1 DEF VisitRecords, Sessions
 <2>4. session' \in Sessions /\ session'.watch = NoWatch /\ session'.held = session.held /\ session'.bound = session.bound
  <3>1. NoWatch \in Watches BY DEF NoWatch, Watches
  <3> QED BY <1>2, <1>7, <2>1, <2>3, <3>1 DEF Sessions, SaveQuiet
 <2> QED BY <1>1, <1>6, <2>4, <1>7, SavingEnds DEF SaveQuiet, Quiet
<1>8. CASE AwaitChild
 <2>2. CASE session' = session /\ UNCHANGED <<child, loose, failures>>
   BY <1>1, <1>2, <1>6, <2>2, SavingEnds
 <2>3. CASE Watching(visit) /\ UNCHANGED <<child, loose, failures>>
  <3>1. PICK x : x = Evidence(visit) OBVIOUS
  <3>2. x \in Watches BY <1>2, <3>1 DEF Evidence, Watches, VisitRecords
  <3>4. loose \in SUBSET Items BY DEF PublisherInv, ItemsOK
  <3>5. session' \in Sessions /\ session'.under = loose /\ session'.held = session.held /\ session'.bound = session.bound
    BY <1>2, <3>2, <2>3, <3>1, <3>4 DEF Sessions, Watching
  <3> QED BY <1>1, <1>6, <2>3, <3>5, SavingEnds
 <2>4. CASE Lost
  <3>2. child' = <<>> /\ loose' = loose \cup ToSet(child) BY <2>4 DEF Lost
  <3> QED BY <1>1, <1>6, <1>2, <2>4, LostIs, <3>2, SavingEnds
 <2> QED BY <1>8, <2>2, <2>3, <2>4 DEF AwaitChild, Abandon
<1> QED BY <1>7, <1>8

------------
\* What is to be sent: rows that are not shown and not on their way, each once.
Sound(frames, fresh) ==
    /\ frames \in Seq(Items) /\ Once(frames)
    /\ \A f \in ToSet(frames) : /\ f \in Items /\ f.w = Here
                                /\ f.kind = "row" => f.n \in fresh /\ f.list = ListOf(Here)
                                /\ f.kind = "display" => f.n <= Cursor

LEMMA RowsAreSound ==
    ASSUME PublisherInv, NEW v, v.w = Here, v.list = ListOf(Here), NEW S \in SUBSET (1..Total)
    PROVE  Sound(RowFrames(v, S), S)
<1>1. Here \in Nat /\ Total \in Nat /\ ListOf(Here) \in AnyList BY ListIsExcluded
<1>2. PICK b \in Nat : b = Total BY <1>1
<1>4. PICK frames : frames = RowFrames(v, S) OBVIOUS
<1>5. FramesOf(frames, v, S, b) BY <1>1, <1>2, <1>4, RowFramesAre
<1>6. frames \in Seq(Items) /\ Once(frames) BY <1>5 DEF FramesOf
<1>7. ASSUME NEW f \in ToSet(frames)
      PROVE  f \in Items /\ f.w = Here /\ f.kind = "row" /\ f.n \in S /\ f.list = ListOf(Here)
 <2>1. PICK i \in 1..Len(frames) : f = frames[i] BY <1>6 DEF ToSet
 <2>2. f = Item(v, "row", f.n) /\ f.n \in S /\ f \in Items BY <1>5, <1>6, <2>1 DEF FramesOf
 <2> QED BY <2>2 DEF Item
<1> QED BY <1>4, <1>6, <1>7 DEF Sound

LEMMA OneMore ==
    ASSUME PublisherInv, NEW frames, NEW fresh, Sound(frames, fresh), NEW x \in Items, x.w = Here, x.kind # "row",
           x.kind = "display" => x.n <= Cursor
    PROVE  Sound(frames \o <<x>>, fresh)
<1> DEFINE one == <<x>>
<1>1. one \in Seq(Items) /\ Once(one) /\ ToSet(one) = {x} BY DEF Once, ToSet
<1> HIDE DEF one
<1>3. /\ frames \o one \in Seq(Items) /\ ToSet(frames \o one) = ToSet(frames) \cup ToSet(one) /\ Once(frames \o one)
  BY <1>1, ItemsOfJoined DEF Sound, Apart
<1>5. Sound(frames \o one, fresh) BY <1>3, <1>1 DEF Sound
<1> QED BY <1>5 DEF one

\* Reserved rows are sent: nothing else has them.
LEMMA FramesGoOut ==
    ASSUME PublisherInv, Onwards, wandb' = wandb, child' = child, loose' = loose, Framing = <<>>,
           NEW frames, Framing' = frames, NEW fresh, Sound(frames, fresh),
           \A n \in fresh : Accounted(n)' /\ n \notin Shows(Here),
           \A f \in ToSet(child) \cup loose : f.kind = "row" /\ f.w = Here => f.n \notin fresh
    PROVE  ItemsOK'
<1>1. ItemsOK /\ Here = Len(rebuilds) BY DEF PublisherInv, ScopeOK
<1>2. \A f \in ToSet(child) \cup loose : f \in Items /\ ItemOK(f)'
 <2> QED BY <1>1, ItemMoves DEF ItemsOK, ToSet
<1>3. \A f \in ToSet(frames) : ItemOK(f)'
 <2> TAKE f \in ToSet(frames)
 <2>1. /\ f \in Items /\ f.w = Here /\ (f.kind = "row" => f.n \in fresh /\ f.list = ListOf(Here))
       /\ f.kind = "display" => f.n <= Cursor
   BY DEF Sound
 <2>2. Here' = Here /\ Len(rebuilds)' = Len(rebuilds) /\ Cursor' \in Nat /\ Cursor <= Cursor' BY DEF Onwards, SameScope
 <2>3. ListOf(f.w)' = ListOf(Here) /\ Here \in Nat
  <3> QED BY <2>1, <1>1 DEF Onwards, SameScope, Items
 <2>5. f.kind = "display" => f.n <= Cursor'
  <3> QED BY <2>1, <2>2 DEF Items, PublisherInv, ScopeOK, Cursor
 <2>6. f.kind = "row" => f.list = ListOf(f.w)' /\ f.n \notin Shows(f.w)' /\ Accounted(f.n)'
   BY <2>1, <2>3 DEF Shows
 <2> QED BY <1>1, <2>1, <2>2, <2>3, <2>5, <2>6 DEF ItemOK
<1>5. Once(frames) /\ frames \in Seq(Items) BY DEF Sound
<1> QED BY <1>1, <1>2, <1>3, <1>5 DEF ItemsOK, Apart, Sound

LEMMA SendingIsOK ==
    ASSUME PublisherInv, NEW frames, NEW fresh, Sound(frames, fresh), visit' = [at |-> "send", w |-> Here, frames |-> frames],
           Bound, Bound' = Bound, Here' = Here, session'.bound = Here, ~saved'.remoteFinished
    PROVE  VisitOK' /\ Framing' = frames
<1>2. /\ visit' \in Sendings /\ visit'.at = "send" /\ visit'.w = Here /\ visit'.frames = frames
  BY DEF Sendings, Sound, PublisherInv, ScopeOK, Here
<1>3. Framing' = frames /\ visit' \in PubVisits BY <1>2 DEF Framing, PubVisits
<1> QED BY <1>2, <1>3 DEF VisitOK, Knowing, Sound

\* The session of a visit that goes on to send.
LEMMA SessionSends ==
    ASSUME PublisherInv, session' \in Sessions, session'.watch = NoWatch, session'.held = session.held,
           session'.bound = session.bound, child' = child, loose' = loose, Here' = Here, visit.at # "repaired",
           visit'.at \in {"send", "repair"}
    PROVE  SessionOK'
<1> QED BY DEF PublisherInv, SessionOK, Sessions, NothingOfHere

LEMMA SaveActionsKeeps ==
    ASSUME PublisherInv, SaveActions
    PROVE  PublisherInv'
<1>1. /\ visit.at = "save" /\ Forget /\ wandb' = wandb /\ child' = child /\ loose' = loose
      /\ Saving([NextSaved(visit) EXCEPT !.finishRequested = NextSaved(visit).finishRequested \/ visit.plan.finishes], FALSE)
  BY DEF SaveActions, Quiet
<1>2. /\ visit \in VisitRecords /\ SavedIsRead /\ PlanOK /\ Bound /\ visit.w = Here
      /\ session.bound = Here /\ session \in Sessions /\ visit.plan \in Plans /\ Framing = <<>>
      /\ Cursor \in Nat /\ Total \in Nat /\ Here \in 0..MaxRuns
  BY <1>1, SaveKnows
<1>3. PICK t : t = NextSaved(visit) OBVIOUS
<1>4. /\ t \in SavedStates /\ t.confirmed = Cursor /\ t.sent = visit.plan.sent /\ ~t.remoteFinished
      /\ t.sent \subseteq 1..Total
  BY <1>1, <1>3, NextIs
<1>5. PICK b \in BOOLEAN : b = (t.finishRequested \/ visit.plan.finishes) OBVIOUS
<1>6. PICK s : s = StateFinishing(t, b) OBVIOUS
<1>7. s \in SavedStates /\ s.confirmed = Cursor /\ s.sent = visit.plan.sent /\ ~s.remoteFinished
  BY <1>4, <1>6, SavedTurns DEF SameMarks
<1>9. /\ RecordsInv' /\ ScopeOK' /\ SavedOK' /\ WandbOK' /\ ShownOK' /\ Onwards /\ saved' = s
      /\ Total' = Total /\ Here' = Here /\ Cursor' = Cursor /\ Bound' = Bound
  BY <1>1, <1>7, <1>3, <1>5, <1>6, NextIsSaved DEF StateFinishing
<1>10. /\ session' \in Sessions /\ session'.watch = NoWatch /\ session'.held = session.held
       /\ session'.bound = session.bound
  BY <1>1, <1>2, ForgetIs
<1>11. PICK p \in Plans : p = visit.plan BY <1>2
<1>12. PlanIsSound(visit, p) /\ Cursor = p.confirmed BY <1>2, <1>11 DEF PlanOK
<1>13. visit.list = ListOf(Here) /\ visit.list \in AnyList /\ visit.through \in Nat /\ Here \in Nat
  BY <1>2, PublisherAssumption DEF SavedIsRead, VisitRecords
<1>14. p.emits \subseteq 1..Total
 <2> QED BY <1>4, <1>11, <1>12 DEF PlanIsSound
<1> DEFINE rows == RowFrames(visit, p.emits)
           shown == IF p.displays THEN rows \o <<Item(visit, "display", visit.through)>> ELSE rows
           frames == IF p.finishes THEN shown \o <<Item(visit, Goal(visit), visit.through)>> ELSE shown
<1>15. Sound(rows, p.emits) BY <1>2, <1>13, <1>14, RowsAreSound
<1>16. Sound(shown, p.emits)
 <2> HIDE DEF rows
 <2>1. CASE p.displays
  <3>1. PICK x : x = Item(visit, "display", visit.through) OBVIOUS
  <3>2. x \in Items /\ x.w = Here /\ x.kind = "display" /\ x.n = visit.through BY <1>2, <1>13, <3>1 DEF Item, Items
  <3>3. x.n <= Cursor BY <1>2, <1>12, <1>13, <2>1, <3>2 DEF PlanIsSound
  <3> QED BY <2>1, <3>1, <1>15, <3>2, <3>3, OneMore
 <2>2. CASE ~p.displays BY <1>15, <2>2
 <2> QED BY <2>1, <2>2
<1>17. Sound(frames, p.emits)
 <2> HIDE DEF shown
 <2>1. CASE p.finishes
  <3>1. PICK x : x = Item(visit, Goal(visit), visit.through) OBVIOUS
  <3>2. x \in Items /\ x.w = Here /\ x.kind \in {"finished", "failed"} BY <1>2, <1>13, <3>1 DEF Item, Items, Goal
  <3> QED BY <2>1, <3>1, <1>16, <3>2, OneMore
 <2>2. CASE ~p.finishes BY <1>16, <2>2
 <2> QED BY <2>1, <2>2
<1>18. visit' = [at |-> "send", w |-> Here, frames |-> frames]
 <2>1. visit' = [at |-> "send", w |-> visit.w,
                 frames |-> rows \o (IF p.displays THEN <<Item(visit, "display", visit.through)>> ELSE <<>>)
                                 \o (IF p.finishes THEN <<Item(visit, Goal(visit), visit.through)>> ELSE <<>>)]
   BY <1>11 DEF SaveActions
 <2>2. rows \in Seq(Items) /\ shown \in Seq(Items) BY <1>15, <1>16 DEF Sound
 <2>3. rows \o (IF p.displays THEN <<Item(visit, "display", visit.through)>> ELSE <<>>) = shown
  <3> HIDE DEF rows
  <3> QED BY <2>2
 <2>4. shown \o (IF p.finishes THEN <<Item(visit, Goal(visit), visit.through)>> ELSE <<>>) = frames
  <3> HIDE DEF shown
  <3> QED BY <2>2
 <2> HIDE DEF rows, shown, frames
 <2> QED BY <1>2, <2>1, <2>3, <2>4
<1> HIDE DEF frames
<1>19. VisitOK' /\ Framing' = frames BY <1>2, <1>7, <1>9, <1>10, <1>17, <1>18, SendingIsOK
<1>20. ASSUME NEW n \in p.emits PROVE Accounted(n)' /\ ~Accounted(n)
 <2>1. n \in p.sent /\ n \notin visit.saved.sent /\ n \in p.confirmed + 1..visit.through /\ visit.confirmed <= p.confirmed
   BY <1>12 DEF PlanIsSound
 <2>3. n \notin 1..Cursor BY <1>2, <1>12, <1>13, <2>1
 <2>5. n \notin saved.sent BY <1>2, <2>1, <1>12, <1>13 DEF SavedIsRead, VisitRecords
 <2> QED BY <1>7, <1>9, <1>11, <2>1, <2>3, <2>5 DEF Accounted
<1>21. \A n \in Shows(Here) : Accounted(n) BY DEF PublisherInv, ShownOK
<1>22. \A f \in ToSet(child) \cup loose : f.kind = "row" /\ f.w = Here => Accounted(f.n)
  BY DEF PublisherInv, ItemsOK, ItemOK
<1>23. ItemsOK' BY <1>1, <1>2, <1>9, <1>17, <1>19, <1>20, <1>21, <1>22, FramesGoOut
<1>24. SessionOK'
 <2> QED BY <1>1, <1>9, <1>10, <1>18, SessionSends
<1> QED BY <1>9, <1>19, <1>23, <1>24 DEF PublisherInv

------------
\* What was seen twice, with nothing under way: nothing of this W&B Run is left to arrive.
LEMMA NothingArrives ==
    ASSUME PublisherInv, visit.at = "save", ~session.held, Unchanged(visit), visit.settled
    PROVE  loose = {} /\ NothingOfHere /\ Shows(Here) \subseteq visit.seen
<1>2. visit.display # -2 BY SaveKnows DEF VisitRecords
<1> QED BY <1>2 DEF PublisherInv, SessionOK, Unchanged, Evidence, NoWatch

LEMMA RecoverKeeps ==
    ASSUME PublisherInv, Recover
    PROVE  PublisherInv'
<1>1. /\ visit.at = "save" /\ Forget /\ wandb' = wandb /\ child' = child /\ loose' = loose
      /\ ~session.held /\ Unchanged(visit) /\ visit.settled
  BY DEF Recover, Quiet
<1>2. /\ visit \in VisitRecords /\ SavedIsRead /\ PlanOK /\ Bound /\ visit.w = Here
      /\ session.bound = Here /\ session \in Sessions /\ visit.plan \in Plans /\ Framing = <<>>
      /\ Cursor \in Nat /\ Total \in Nat /\ Here \in 0..MaxRuns
  BY <1>1, SaveKnows
<1>3. loose = {} /\ NothingOfHere /\ Shows(Here) \subseteq visit.seen BY <1>1, NothingArrives
<1>4. /\ session' \in Sessions /\ session'.watch = NoWatch /\ session'.held = session.held
      /\ session'.bound = session.bound
  BY <1>1, <1>2, ForgetIs
<1>5. PICK missing : missing = Missing(visit.plan.sent, visit.seen, visit.plan.confirmed, visit.through) OBVIOUS
<1>7. IF missing \subseteq visit.plan.sent
        THEN /\ Saving(RecordRepair(NextSaved(visit), missing), FALSE)
             /\ visit' = [at |-> "send", w |-> visit.w, frames |-> RowFrames(visit, missing)]
        ELSE visit' = Resting /\ NoStore
  BY <1>5 DEF Recover
<1>8. CASE ~(missing \subseteq visit.plan.sent)
 <2> QED BY <1>1, <1>4, <1>7, <1>8, VisitEnds
<1>9. CASE missing \subseteq visit.plan.sent
 <2>1. PICK t : t = NextSaved(visit) OBVIOUS
 <2>2. /\ t \in SavedStates /\ t.confirmed = Cursor /\ t.sent = visit.plan.sent /\ ~t.remoteFinished
       /\ t.sent \subseteq 1..Total
   BY <1>1, <2>1, NextIs
 <2>3. missing \in SUBSET (1..Total) BY <1>9, <2>2
 <2>5. PICK s : s = RecordRepair(t, missing) OBVIOUS
 <2>6. s \in SavedStates /\ s.confirmed = Cursor /\ s.sent = visit.plan.sent /\ ~s.remoteFinished
   BY <2>2, <1>2, <2>3, <2>5, SavedRepairs
 <2>8. /\ RecordsInv' /\ ScopeOK' /\ SavedOK' /\ WandbOK' /\ ShownOK' /\ Onwards /\ saved' = s
       /\ Total' = Total /\ Here' = Here /\ Cursor' = Cursor /\ Bound' = Bound
   BY <1>1, <2>6, <1>7, <1>9, <2>1, <2>5, NextIsSaved
 <2>9. PICK frames : frames = RowFrames(visit, missing) OBVIOUS
 <2>11. Sound(frames, missing) BY <1>2, <2>3, <2>9, RowsAreSound DEF SavedIsRead
 <2>12. visit' = [at |-> "send", w |-> Here, frames |-> frames] BY <1>2, <1>7, <1>9, <2>9
 <2>13. VisitOK' /\ Framing' = frames BY <1>2, <1>4, <2>6, <2>8, <2>11, <2>12, SendingIsOK
 <2>14. \A n \in missing : Accounted(n)' /\ n \notin Shows(Here)
   BY <1>3, <1>5, <1>9, <2>6, <2>8 DEF Accounted, Missing
 <2>15. \A f \in ToSet(child) \cup loose : f.kind = "row" /\ f.w = Here => f.n \notin missing
   BY <1>3 DEF NothingOfHere
 <2>16. ItemsOK' BY <1>1, <1>2, <2>8, <2>11, <2>13, <2>14, <2>15, FramesGoOut
 <2>18. SessionOK' BY <1>1, <1>4, <2>8, <2>12, SessionSends
 <2> QED BY <2>8, <2>13, <2>16, <2>18 DEF PublisherInv
<1> QED BY <1>8, <1>9

------------
\* The operator repairs: what is reserved and not shown goes out once more.
LEMMA RepairKeeps ==
    ASSUME PublisherInv, Repair
    PROVE  PublisherInv'
<1>1. /\ visit = Resting /\ session = NewSession /\ child = <<>> /\ loose = {} /\ Bound /\ ~saved.remoteFinished
      /\ session' = session /\ wandb' = wandb /\ child' = child /\ loose' = loose
  BY DEF Repair, Quiet
<1>2. /\ Excluded = ListOf(Here) /\ ListOf(Here) \in AnyList /\ Here \in Nat /\ Total \in Nat
  BY ListIsExcluded
<1>3. /\ Framing = <<>> /\ visit.at = "rest" /\ Cursor \in Nat /\ saved \in SavedStates /\ saved.sent \subseteq 1..Total
      /\ saved.confirmed <= Cursor
  BY <1>1 DEF Framing, Resting, PublisherInv, ScopeOK, Cursor, SavedOK
<1> DEFINE through == Highest({n \in saved.sent : n <= Total}, Cursor)
<1>4. PICK missing : missing = Missing(saved.sent, Shows(Here), Cursor, through) OBVIOUS
<1>6. PICK far : far = Highest(missing \cup Shows(Here), 0) OBVIOUS
<1>7. PICK v : v = [w |-> Here, list |-> Excluded] OBVIOUS
<1>8. PICK frames : frames = RowFrames(v, missing) OBVIOUS
<1>9. /\ missing \subseteq saved.sent /\ Saving(RecordRepair(saved, missing), FALSE)
      /\ visit' = [at |-> "repair", w |-> Here, through |-> far, frames |-> frames]
  BY <1>4, <1>6, <1>7, <1>8 DEF Repair, Here, Cursor
<1>10. missing \in SUBSET (1..Total) /\ missing \in SUBSET Nat BY <1>2, <1>3, <1>9
<1>11. far \in Nat
 <2>1. \A n \in Shows(Here) : n \in 0..Total
  <3> QED BY <1>2, <1>3 DEF Accounted, PublisherInv, ShownOK, SavedOK
 <2>2. \A n \in 1..Total : n \in 0..Total BY <1>2
 <2>3. missing \cup Shows(Here) \subseteq 0..Total BY <1>10, <2>1, <2>2
 <2> QED BY <1>2, <1>6, <2>3, HighestIs
<1>12. PICK s : s = RecordRepair(saved, missing) OBVIOUS
<1>13. s \in SavedStates /\ s.confirmed = saved.confirmed /\ s.sent = saved.sent /\ ~s.remoteFinished
  BY <1>1, <1>3, <1>10, <1>12, SavedRepairs
<1>15. /\ RecordsInv' /\ ScopeOK' /\ SavedOK' /\ WandbOK' /\ ShownOK' /\ Onwards /\ saved' = s
       /\ Total' = Total /\ Here' = Here /\ Cursor' = Cursor /\ Bound' = Bound
  BY <1>1, <1>3, <1>13, <1>9, <1>12, StateIsSaved DEF Saving
<1>16. Sound(frames, missing)
 <2> QED BY <1>8, <1>10, <1>2, <1>7, RowsAreSound
<1>17. visit'.at = "repair" /\ visit'.w = Here /\ visit'.frames = frames /\ visit' \in Repairs
  BY <1>2, <1>9, <1>11, <1>16 DEF Repairs, Sound
<1>18. Framing' = frames /\ visit' \in PubVisits BY <1>17 DEF Framing, PubVisits
<1>19. VisitOK'
 <2>1. \A f \in ToSet(Framing)' : f.w = Here BY <1>16, <1>18 DEF Sound
 <2> QED BY <1>1, <1>13, <1>15, <1>17, <1>18, <2>1 DEF VisitOK, Knowing
<1>20. ItemsOK'
 <2>1. \A n \in missing : Accounted(n)' /\ n \notin Shows(Here)
   BY <1>4, <1>9, <1>13, <1>15 DEF Accounted, Missing
 <2>2. \A f \in ToSet(child) \cup loose : f.kind = "row" /\ f.w = Here => f.n \notin missing BY <1>1 DEF ToSet
 <2> QED BY <1>1, <1>3, <1>15, <1>16, <1>18, <2>1, <2>2, FramesGoOut
<1>21. SessionOK'
 <2>1. session' \in Sessions /\ session'.watch = NoWatch BY <1>1 DEF PublisherInv, SessionOK, Sessions, NewSession
 <2> QED BY <1>1, <1>3, <1>15, <1>17, <2>1, SessionSends
<1> QED BY <1>15, <1>19, <1>20, <1>21 DEF PublisherInv

LEMMA RepairSendsKeeps ==
    ASSUME PublisherInv, RepairSends
    PROVE  PublisherInv'
<1> USE DEF PublisherInv
<1>1. /\ visit.at = "repair" /\ child' = visit.frames /\ NoStore /\ session' = session /\ wandb' = wandb /\ loose' = loose
      /\ visit' = [visit EXCEPT !.at = "repaired"]
  BY DEF RepairSends
<1>2. /\ RecordsInv' /\ ScopeOK' /\ SavedOK' /\ Onwards /\ WandbOK' /\ ShownOK' /\ Here' = Here /\ Bound' = Bound
      /\ saved' = saved
  BY <1>1, StoreRests DEF NoStore, journalVars
<1>3. PICK frames : frames = visit.frames OBVIOUS
<1>4. Framing = frames /\ child' = frames /\ visit \in Repairs BY <1>1, <1>3, VisitStages DEF Framing, VisitOK
<1>5. visit' \in Repairs /\ visit'.at = "repaired" /\ visit'.w = visit.w BY <1>1, <1>4 DEF Repairs
<1>6. Framing' = <<>> /\ visit' \in PubVisits BY <1>5 DEF Framing, PubVisits
<1>7. ToSet(Framing)' = {} BY <1>6 DEF ToSet
<1>8. VisitOK' BY <1>1, <1>2, <1>5, <1>6, <1>7 DEF VisitOK, Knowing
<1>9. ItemsOK'
 <2>1. frames \in Seq(Items) /\ loose \subseteq Items /\ Once(frames) /\ Apart(loose, ToSet(frames))
   BY <1>4 DEF ItemsOK
 <2>2. \A f \in ToSet(frames) \cup loose : f \in Items /\ ItemOK(f)'
  <3> QED BY <1>1, <1>2, <1>4, <2>1, ItemMoves DEF ItemsOK, ToSet
 <2>3. ToSet(child)' = ToSet(frames) /\ Once(child)' BY <1>4, <2>1 DEF ToSet, Once
 <2>4. Apart(ToSet(child), loose)' BY <1>1, <2>1, <2>3 DEF Apart
 <2>5. Once(Framing)' /\ Apart(ToSet(child), ToSet(Framing))' /\ Apart(loose, ToSet(Framing))'
   BY <1>6, <1>7 DEF Once, Apart
 <2> QED BY <1>1, <1>4, <1>6, <1>7, <2>1, <2>2, <2>3, <2>4, <2>5 DEF ItemsOK
<1> QED BY <1>2, <1>8, <1>9, <1>1, <1>5 DEF SessionOK

------------
StateRepaired(s, t) == [s EXCEPT !.confirmed = t, !.repairConfirmed = TRUE, !.sent = {n \in s.sent : n > t}]
LEMMA SavedIsRepaired ==
    ASSUME NEW s \in SavedStates, NEW t \in Nat, NEW d, d = StateRepaired(s, t)
    PROVE  d \in SavedStates /\ d.confirmed = t /\ d.sent = {n \in s.sent : n > t} /\ d.remoteFinished = s.remoteFinished
  BY DEF SavedStates, StateRepaired

\* What the operator's repair confirms.
LEMMA RepairConfirmsKeeps ==
    ASSUME PublisherInv, RepairConfirms
    PROVE  PublisherInv'
<1> USE DEF PublisherInv
<1>1. /\ visit.at = "repaired" /\ child = <<>> /\ visit' = Resting /\ session' = session
      /\ wandb' = wandb /\ child' = child /\ loose' = loose
      /\ UNCHANGED <<journal, eventIds, binding, providerEnded, deleted>>
  BY DEF RepairConfirms, Quiet
<1>2. /\ visit \in Repairs /\ visit.w = Here /\ ~saved.remoteFinished /\ saved \in SavedStates
      /\ saved.sent \subseteq 1..Total /\ Cursor \in Nat /\ Total \in Nat
      /\ session \in Sessions /\ (session.watch # NoWatch => loose \subseteq session.under)
  BY <1>1, VisitStages DEF VisitOK, SavedOK, ScopeOK, Cursor, RecordsInv, RecordsOK, Total, SessionOK, Sessions
<1>3. PICK t \in Nat : t = visit.through BY <1>2 DEF Repairs
<1>4. PICK s : s = StateRepaired(saved, t) OBVIOUS
<1>5. s \in SavedStates /\ s.confirmed = t /\ s.sent = {n \in saved.sent : n > t} /\ ~s.remoteFinished
  BY <1>2, <1>4, SavedIsRepaired
<1>6. SavePublication(s, FALSE) BY <1>3, <1>4 DEF RepairConfirms, StateRepaired
<1>7. PICK observed : observed = [n \in Shows(Here) |-> journal[n].id] OBVIOUS
<1>9. ConfirmationPlan(Here, t, observed) /\ Confirmed(t) BY <1>2, <1>3, <1>7 DEF RepairConfirms
<1>10. /\ scopeRow' \in [exists : BOOLEAN, wandb : Nat, confirmed : Nat] /\ scopeRow'.exists = scopeRow.exists
       /\ Here' = Here /\ Cursor' = t /\ Cursor <= t /\ t <= Total /\ 1..t \subseteq Shows(Here)
  BY <1>7, <1>9, CursorMoves
<1>11. saved' = s /\ rebuilds' = rebuilds
 <2>1. PICK T : T = [list : Lists, old : Nat, new : Nat, finished : BOOLEAN] OBVIOUS
 <2>2. rebuilds \in Seq(T) BY <2>1 DEF ScopeOK
 <2>4. rebuilds' = [n \in DOMAIN rebuilds |->
                     [rebuilds[n] EXCEPT !.finished = rebuilds[n].finished \/ (FALSE /\ rebuilds[n].new = scopeRow.wandb)]]
   BY <1>6 DEF SavePublication
 <2>5. ASSUME NEW n \in DOMAIN rebuilds PROVE rebuilds'[n] = rebuilds[n]
  <3>1. PICK r \in T : r = rebuilds[n] BY <2>2
  <3>2. PICK b \in BOOLEAN : b = (r.finished \/ (FALSE /\ r.new = scopeRow.wandb)) OBVIOUS
  <3>4. b = r.finished BY <2>1, <3>2
  <3> QED BY <2>1, <3>1, <2>4, <3>2, <3>4
 <2>7. rebuilds = [n \in DOMAIN rebuilds |-> rebuilds[n]] BY <2>2
 <2> QED BY <1>6, <2>5, <2>4, <2>7 DEF SavePublication
<1>12. /\ RecordsInv' /\ Total' = Total BY <1>1 DEF RecordsInv, RecordsOK, Total
<1>13. ScopeOK' BY <1>1, <1>10, <1>11 DEF ScopeOK
<1>14. SavedOK' BY <1>2, <1>5, <1>10, <1>11, <1>12 DEF SavedOK
<1>15. \A n : Accounted(n) => Accounted(n)'
 <2> SUFFICES ASSUME NEW n, Accounted(n) PROVE Accounted(n)' OBVIOUS
 <2>1. CASE n \in 1..Cursor
  <3> QED BY <1>10, <1>2, <2>1 DEF Accounted
 <2>2. CASE n \in saved.sent
  <3>2. n > t \/ n \in 1..t BY <1>2, <2>2
  <3> QED BY <1>5, <1>10, <1>11, <2>2, <3>2 DEF Accounted
 <2> QED BY <2>1, <2>2 DEF Accounted
<1>16. Onwards BY <1>10, <1>11, <1>15 DEF Onwards, SameScope, ListOf
<1>17. WandbOK' BY <1>1, <1>16, RunsStay DEF Onwards
<1>18. ShownOK'
 <2>1. Shows(Here)' = Shows(Here) BY <1>1, <1>10 DEF Shows
 <2>2. wandb[Here].display <= t
  <3>2. wandb[Here].display \in Int /\ wandb[Here].display <= Cursor
    BY PublisherAssumption DEF WandbRuns, ShownOK, ScopeOK, WandbOK
  <3> QED BY <1>2, <1>10, <3>2
 <2> QED BY <1>1, <1>5, <1>10, <1>11, <1>15, <2>1, <2>2 DEF ShownOK
<1> QED BY <1>1, <1>2, <1>12, <1>13, <1>14, <1>16, <1>17, <1>18, SavingEnds

------------
LEMMA NoRunIsSound == NoRun \in WandbRuns /\ NoRun.rows = <<>> /\ NoRun.display = -1 /\ NoRun.state = "none"
  BY DEF NoRun, WandbRuns, RunStates

LEMMA PublisherStarts ==
    ASSUME JournalInit, PublisherInit
    PROVE  PublisherInv
<1> USE DEF JournalInit, PublisherInit
<1>1. Total = 0 /\ Len(rebuilds) = 0 /\ Here = 0 /\ Cursor = 0 BY DEF Total, Here, Cursor, NoScope
<1>2. RecordsInv
 <2> QED BY <1>1 DEF RecordsInv, RecordsOK, Total
<1>3. ScopeOK
 <2>1. scopeRow \in [exists : BOOLEAN, wandb : Nat, confirmed : Nat] /\ ~scopeRow.exists BY DEF NoScope
 <2>2. rebuilds \in Seq([list : Lists, old : Nat, new : Nat, finished : BOOLEAN]) OBVIOUS
 <2> QED BY <1>1, <2>1, <2>2, PublisherAssumption DEF ScopeOK
<1>4. saved \in SavedStates /\ saved.confirmed = 0 /\ saved.sent = {} /\ ~saved.remoteFinished
 <2> QED BY DEF SavedStates, AnyList, NoSaved
<1>5. SavedOK BY <1>1, <1>4 DEF SavedOK
<1>6. \A w \in 0..MaxRuns : wandb[w] = NoRun /\ Shows(w) = {}
 <2> TAKE w \in 0..MaxRuns
 <2> QED BY NoRunIsSound DEF Shows, ToSet
<1>7. WandbOK
 <2> SUFFICES ASSUME NEW w \in 0..MaxRuns PROVE RunOK(w) BY NoRunIsSound DEF WandbOK
 <2>3. wandb[w].rows = <<>> /\ wandb[w].state = "none" BY <1>6, NoRunIsSound
 <2>4. ToSet(wandb[w].rows) = {} /\ Len(wandb[w].rows) = 0 BY <2>3 DEF ToSet
 <2> QED BY <1>6, FS_EmptySet, <2>3, <2>4 DEF RunOK
<1>8. ShownOK
 <2>2. wandb[Here].display = -1 /\ Shows(Here) = {} BY <1>6, <1>1, PublisherAssumption, NoRunIsSound
 <2> QED BY <1>1, <1>4, <2>2 DEF ShownOK
<1>9. visit = Resting /\ visit.at = "rest" /\ Framing = <<>> BY DEF Resting, Framing
<1>10. ItemsOK
 <2> QED BY <1>9 DEF ItemsOK, Once, Apart, ToSet
<1>11. VisitOK
 <2> QED BY <1>9, RestIsVisit DEF VisitOK, Knowing, ToSet
<1>12. SessionOK
 <2>2. session = [held |-> FALSE, watch |-> NoWatch, under |-> {}, idle |-> -1, bound |-> -1] BY DEF NewSession
 <2>3. NothingOfHere BY DEF NothingOfHere, ToSet
 <2> HIDE DEF Watches, NoWatch
 <2> QED BY <1>9, <2>2, <2>3 DEF SessionOK, NoWatch, Watches
<1> QED BY <1>2, <1>3, <1>5, <1>7, <1>8, <1>10, <1>11, <1>12 DEF PublisherInv

------------
allVars == <<journalVars, publisherVars>>

LEMMA PublisherSteps ==
    ASSUME PublisherInv, Overtaken = FALSE, [Publishing \/ ScopeChanges]_allVars
    PROVE  PublisherInv'
<1>1. CASE Visiting
  BY <1>1, VisitRowKeeps, VisitSavedKeeps, VisitFinishedKeeps, ObserveKeeps, ConfirmKeeps, SaveFinishKeeps,
     SaveActionsKeeps, SaveQuietKeeps, RecoverKeeps
  DEF Visiting
<1>2. CASE CallFails \/ Crash BY <1>2, StopsKeep
<1>3. CASE Send \/ Repair \/ RepairSends \/ RepairConfirms
  BY <1>3, SendKeeps, RepairKeeps, RepairSendsKeeps, RepairConfirmsKeeps
<1>4. CASE Deliver \/ Arrive \/ Lose \/ DeleteRun
  BY <1>4, DeliverKeeps, ArriveKeeps, LoseKeeps, DeleteRunKeeps
<1>5. CASE ScopeChanges
 <2>1. UNCHANGED publisherVars BY <1>5 DEF ScopeChanges
 <2>2. CASE \/ \E b \in Bindings : Bind(b)
            \/ OpenScope
            \/ visit = Resting /\ \E name \in {"run", "parent"} : Mark(name)
   BY <2>1, <2>2, ScopeTurns
 <2>3. CASE \/ (Late \/ (~Ended /\ ~providerEnded)) /\ \E events \in Seq(Reports) : Ingest(events)
            \/ \E b \in Batches : AddDerived(b)
            \/ ProviderEnds
   BY <2>1, <2>3, JournalTurns
 <2>4. CASE Rebuilds BY <2>1, <2>4, RebuildTurns
 <2> QED BY <1>5, <2>2, <2>3, <2>4 DEF ScopeChanges
<1>6. CASE UNCHANGED allVars
 <2>1. NoStore /\ UNCHANGED publisherVars BY <1>6 DEF allVars, NoStore
 <2>2. /\ RecordsInv' /\ ScopeOK' /\ SavedOK' /\ Onwards /\ ShownOK' /\ Here' = Here
   BY <2>1, StoreRests DEF publisherVars
 <2>3. VisitOK'
  <3> QED BY <2>1, <2>2, VisitStays DEF publisherVars, Shows
 <2> QED BY <2>1, <2>2, <2>3, PublisherWaits
<1> QED BY <1>1, <1>2, <1>3, <1>4, <1>5, <1>6 DEF Publishing

LEMMA InvIsTrue ==
    ASSUME PublisherInv, Late = FALSE
    PROVE  PublishedIsTrue
<1> USE DEF PublisherInv
<1>1. RowsAreTold
 <2> QED BY DEF RowsAreTold, TellApart, RecordsInv, RecordsOK, Total
<1>2. ConfirmedIsShown BY DEF ShownOK, ConfirmedIsShown, Cursor, Here
<1>3. ShownOnce BY DEF WandbOK, RunOK, ShownOnce
<1>4. ExcludedStaysOut
 <2> SUFFICES ASSUME NEW w \in 1..MaxRuns, NEW r \in ToSet(wandb[w].rows) PROVE r.list = rebuilds[w].list
   BY DEF ExcludedStaysOut
 <2> QED BY PublisherAssumption DEF WandbOK, RunOK, ListOf
<1>5. FinishedIsWhole BY DEF SavedOK, ShownOK, FinishedIsWhole, OnlyDerivedAfter, Cursor, Here
<1>6. SavedBehindRow BY DEF SavedOK, SavedBehindRow, Cursor
<1> QED BY <1>1, <1>2, <1>3, <1>4, <1>5, <1>6 DEF PublishedIsTrue

(* What the publisher says of a W&B Run is so, for every journal, window,
   number of rebuilds, of failures and of lost sends: the rows that are
   confirmed are there, each is there once, none that its rebuild left
   out, and a Run that is finished has all that the training left.  This
   while no rebuild commits between the two reads of a visit (after one
   that does, the saved state may be ahead of the row) and no collector
   brings what a Worker left behind after its end. *)
THEOREM PublisherSaysTrue ==
    ASSUME Overtaken = FALSE, Late = FALSE
    PROVE  PublisherSpec => []PublishedIsTrue
<1>1. PublisherInv /\ [Publishing \/ ScopeChanges]_<<journalVars, publisherVars>> => PublisherInv'
  BY PublisherSteps DEF allVars
<1>2. JournalInit /\ PublisherInit => PublisherInv BY PublisherStarts
<1>3. PublisherInv => PublishedIsTrue BY InvIsTrue
<1> QED BY <1>1, <1>2, <1>3, PTL DEF PublisherSpec

------------
\* What the publisher moves of the journal and its scope.
LEMMA StoreMoves ==
    ASSUME PublisherInv, Publishing
    PROVE  /\ UNCHANGED <<journal, eventIds, binding, deleted>>
           /\ Live \/ UNCHANGED <<scopeRow, rebuilds, saved>>
<1>2. CASE NoStore BY <1>2 DEF NoStore, journalVars
<1>3. CASE UNCHANGED <<journal, eventIds, binding, deleted>> /\ visit.at # "rest"
  BY <1>3 DEF PublisherInv, VisitOK, Bound
<1>4. CASE Repair BY <1>4 DEF Repair, Saving, Bound
<1> QED BY <1>2, <1>3, <1>4
  DEF Publishing, Visiting, VisitRow, VisitSaved, VisitFinished, Observe, Confirm, SaveFinished, SaveActions, SaveQuiet,
      AwaitChild, Recover, Saving, CallFails, Send, RepairSends, RepairConfirms, Deliver, Arrive, Lose, Crash, DeleteRun

LEMMA GrownIsPrefix ==
    ASSUME NEW rows \in Seq(PubRows), NEW more \in Seq(PubRows), RowsGrow(rows, more)
    PROVE  IsPrefix(rows, more)
<1>1. Len(rows) \in Nat /\ Len(more) \in Nat /\ Len(rows) <= Len(more) BY DEF RowsGrow
<1>2. PICK k \in Nat : k = Len(rows) BY <1>1
<1>3. k <= Len(more) /\ \A n \in 1..k : rows[n] = more[n] BY <1>1, <1>2 DEF RowsGrow
<1>5. SubSeq(rows, 1, k) = SubSeq(more, 1, k) BY <1>3, <1>1, <1>2
<1> QED BY <1>1, <1>2, <1>5 DEF IsPrefix

LEMMA JournalStep ==
    ASSUME PublisherInv, RecordsInv', [Publishing \/ ScopeChanges]_allVars
    PROVE  /\ IsPrefix(journal, journal') /\ eventIds \subseteq eventIds' /\ deleted \subseteq deleted'
           /\ binding # Nobody => binding' = binding
           /\ ~Live => UNCHANGED <<journal, eventIds, scopeRow, rebuilds, saved>>
<1>1. journal \in Seq(PubRows) /\ journal' \in Seq(PubRows) /\ RecordsInv
  BY DEF PublisherInv, RecordsInv, RecordsOK
<1>2. RowsGrow(journal, journal') => IsPrefix(journal, journal') BY <1>1, GrownIsPrefix
<1>3. journal' = journal => IsPrefix(journal, journal')
 <2> QED BY <1>2, <1>1 DEF RowsGrow
<1>4. CASE Publishing BY <1>3, <1>4, StoreMoves
<1>5. CASE UNCHANGED allVars BY <1>3, <1>5 DEF allVars, journalVars
<1>6. CASE ScopeChanges
 <2>1. ASSUME NEW events \in Seq(Reports), Ingest(events) PROVE RowsGrow(journal, journal') /\ eventIds \subseteq eventIds'
   BY <1>1, <2>1, IngestGrows
 <2>2. ASSUME NEW b \in Batches, AddDerived(b) PROVE RowsGrow(journal, journal') /\ eventIds' = eventIds
   BY <1>1, <2>2, DerivedGrows
 <2>3. CASE \E events \in Seq(Reports) : Ingest(events) BY <1>2, <2>1, <2>3 DEF Ingest, Bound
 <2>4. CASE \E b \in Batches : AddDerived(b) BY <1>2, <2>2, <2>4 DEF AddDerived, Bound
 <2>5. CASE \E b \in Bindings : Bind(b) BY <1>3, <2>5 DEF Bind
 <2>6. CASE OpenScope \/ ProviderEnds BY <1>3, <2>6 DEF OpenScope, ProviderEnds
 <2>7. CASE Rebuilds BY <1>3, <2>7 DEF Rebuilds, Rebuild, Bound
 <2>8. CASE \E name \in {"run", "parent"} : Mark(name) BY <1>3, <2>8 DEF Mark
 <2> QED BY <1>6, <2>3, <2>4, <2>5, <2>6, <2>7, <2>8 DEF ScopeChanges
<1> QED BY <1>4, <1>5, <1>6

LEMMA ItemOfDeleted ==
    ASSUME PublisherInv, NEW f \in Items, Applied(f), NEW w \in 0..MaxRuns, wandb[w].state = "deleted"
    PROVE  wandb'[w].state = "deleted"
<1>1. wandb \in [0..MaxRuns -> WandbRuns] BY DEF PublisherInv, WandbOK
<1>2. CASE w = f.w
 <2> QED BY <1>1, <1>2 DEF Applied, Gone
<1>3. CASE w # f.w
 <2> QED BY <1>1, <1>3 DEF Applied
<1> QED BY <1>2, <1>3

LEMMA RunsStayDeleted ==
    ASSUME PublisherInv, [Publishing \/ ScopeChanges]_allVars, NEW w \in 0..MaxRuns,
           wandb[w].state = "deleted", wandb[w].rows # <<>>
    PROVE  wandb'[w].state = "deleted"
<1>1. wandb \in [0..MaxRuns -> WandbRuns] BY DEF PublisherInv, WandbOK
<1>2. CASE wandb' = wandb BY <1>2
<1>3. CASE Observe
 <2>1. CASE Gone(visit.w) => MayCreate(visit)
  <3>1. visit.at = "observe" /\ visit.w = Here BY <1>3 DEF Observe, PublisherInv, VisitOK
  <3>2. CASE w = Here
   <4>2. wandb[Here].rows = <<>> BY <2>1, <3>1, <3>2, CreatedIsEmpty DEF Gone
   <4> QED BY <3>2, <4>2
  <3>3. CASE w # Here
   <4>2. wandb'[w] = wandb[w] BY <1>1, <3>3, <1>3, <3>1 DEF Observe, Quiet
   <4> QED BY <4>2
  <3> QED BY <3>2, <3>3
 <2>2. CASE ~(Gone(visit.w) => MayCreate(visit)) BY <1>3, <2>2 DEF Observe, Quiet
 <2> QED BY <2>1, <2>2
<1>4. CASE Deliver
 <2>1. Head(child) \in Items
  <3> QED BY <1>4 DEF Deliver, PublisherInv, ItemsOK
 <2> QED BY <1>4, <2>1, ItemOfDeleted DEF Deliver
<1>5. CASE Arrive
 <2>1. PICK f \in loose : Applied(f) BY <1>5 DEF Arrive
 <2> QED BY <2>1, ItemOfDeleted DEF PublisherInv, ItemsOK
<1>6. CASE DeleteRun
 <2>1. PICK x \in 0..MaxRuns : wandb' = [wandb EXCEPT ![x].state = "deleted"] BY <1>6 DEF DeleteRun
 <2> QED BY <1>1, <2>1 DEF WandbRuns
<1> QED BY <1>2, <1>3, <1>4, <1>5, <1>6
  DEF Publishing, Visiting, VisitRow, VisitSaved, VisitFinished, Confirm, SaveFinished, SaveActions, SaveQuiet,
      AwaitChild, Recover, CallFails, Send, Repair, RepairSends, RepairConfirms, Lose, Crash, Quiet,
      ScopeChanges, publisherVars, allVars

(* A journal only grows and its binding is frozen, whoever reports again,
   derives, rebuilds or deletes; nothing of it changes after a tombstone;
   and a W&B Run that a person deleted with its rows is not created
   again. *)
THEOREM JournalStaysKept ==
    ASSUME Overtaken = FALSE
    PROVE  PublisherSpec => JournalIsKept
<1>1. PublisherInv /\ [Publishing \/ ScopeChanges]_<<journalVars, publisherVars>> => PublisherInv'
  BY PublisherSteps DEF allVars
<1>2. JournalInit /\ PublisherInit => PublisherInv BY PublisherStarts
<1>3. PublisherInv /\ PublisherInv' /\ [Publishing \/ ScopeChanges]_<<journalVars, publisherVars>> =>
        [/\ IsPrefix(journal, journal')
         /\ eventIds \subseteq eventIds'
         /\ binding # Nobody => binding' = binding
         /\ deleted \subseteq deleted'
         /\ ~Live => UNCHANGED <<journal, eventIds, scopeRow, rebuilds, saved>>]_journalVars
 <2> QED BY JournalStep DEF allVars, PublisherInv
<1>4. PublisherInv /\ [Publishing \/ ScopeChanges]_<<journalVars, publisherVars>> =>
        [\A w \in 0..MaxRuns : wandb[w].state = "deleted" /\ wandb[w].rows # <<>> => wandb'[w].state = "deleted"]_wandb
  BY RunsStayDeleted DEF allVars
<1> QED BY <1>1, <1>2, <1>3, <1>4, PTL DEF PublisherSpec, JournalIsKept, JournalOnlyGrows, DeletedStays
=============================================================================

----------------------------- MODULE MCProgress -----------------------------
(* What must come to its end although calls fail and servers stop: the
   exchange of a cloud Worker, the stop of expired debug machines, what
   the observer learns of a Slurm job and of a cloud job, and the requests
   that wait for the service lock of Slurm.  A behaviour is about one of
   them, chosen in its initial state; they share no state. *)
EXTENDS CloudExchange, DebugMachine, SlurmObservation

VARIABLES part,
    entry, outboxLock, op, provider, posts, sent,
    cloudStatus, cloudResult, cloudExpired, cloudSlot, origin, cloudSuccessor, cloudLock, cloudThread,
    gate, call, inflight, jobs,
    slurmStatus, slurmResult, slurmExpired, slurmSlot, archived, records, slurmSuccessor,
    slurmLock, slurmThread

cloudVars == <<entry, outboxLock, op, provider, posts, sent, cloudStatus, cloudResult, cloudExpired,
               cloudSlot, origin, cloudSuccessor, cloudLock, cloudThread>>
slurmVars == <<gate, call, inflight, jobs, slurmStatus, slurmResult, slurmExpired, slurmSlot,
               archived, records, slurmSuccessor, slurmLock, slurmThread>>
submissionVars == <<cloudVars, slurmVars>>

recordVars == <<journalVars, exchangeVars>>
notExchange == <<debugVars, observationVars, submissionVars>>
notDebug == <<recordVars, observationVars, submissionVars>>
notObservation == <<recordVars, debugVars, submissionVars>>
notSubmission == <<recordVars, debugVars, observationVars>>
vars == <<notSubmission, submissionVars, part>>

\* One cloud job, its observer and another caller.
Cloud == INSTANCE CloudSubmission WITH
    Callers <- {"caller", "observer"}, Observer <- "observer", Jobs <- {"job"},
    ProviderStates <- {"QUEUED", "RUNNING", "CANCELLED"}, Actions <- {"action"},
    Commands <- {"Refresh", "Cancel"}, None <- "no",
    status <- cloudStatus, result <- cloudResult, expired <- cloudExpired, slot <- cloudSlot,
    successor <- cloudSuccessor, lock <- cloudLock, thread <- cloudThread

\* One request at a time at the Slurm service, and a helper that may hang.
Slurm == INSTANCE SlurmSubmission WITH
    Scopes <- {"scope"}, Intents <- {"intent"}, ScopeOf <- [i \in {"intent"} |-> "scope"],
    Invocations <- {"helper"}, Operations <- {"Prepare", "Submit", "Inspect", "ObserveJob"},
    Jobs <- {"job"}, Actions <- {"action", "renewed"}, Frozen <- "intent",
    Commands <- {"Prepare", "Renew", "Execute", "Reconcile"}, Threads <- {"request"},
    Renewals <- {"renewal"}, None <- "no",
    status <- slurmStatus, result <- slurmResult, expired <- slurmExpired, slot <- slurmSlot,
    successor <- slurmSuccessor, lock <- slurmLock, thread <- slurmThread

\* The file: a line of one page, a bad line over two, one without its end.
Unit(line, last) == [line |-> line, last |-> last]
MCFile == <<Unit("a", TRUE), Unit("bad", FALSE), Unit("bad", TRUE), Unit("a", FALSE)>>
OneBinding == {[enabled |-> TRUE, companion |-> FALSE]}

(* A Slurm job without and with a cancellation: the second has nothing to
   ingest. *)
Observing ==
    /\ ObservationNext
    /\ part = "observation" => UNCHANGED cancel /\ operation' # [at |-> "cancel"]
    /\ part = "cancellation" => operation'.at # "lines"

(* The Action owns a cloud job, observed once while it was queued; its gate
   has expired, which nothing here depends on.  There is no Action for the
   observer when the behaviour is about another part. *)
OwnedInit ==
    /\ entry = [Cloud!NoEntry EXCEPT !.exists = TRUE, !.started = TRUE, !.handle = "job",
                                     !.observation = "QUEUED"]
    /\ outboxLock = "no"
    /\ op = [c \in {"caller", "observer"} |-> Cloud!NoOp]
    /\ provider = [j \in {"job"} |-> "QUEUED"]
    /\ posts = {}
    /\ sent = [create |-> 1, stop |-> 0]
    /\ cloudStatus = [a \in {"action"} |-> IF part = "cloud" THEN "VERIFIED" ELSE "NONE"]
    /\ cloudResult = [a \in {"action"} |-> "job"]
    /\ cloudExpired = {"action"}
    /\ cloudSlot = "action"
    /\ origin = [a \in {"action"} |-> "no"]
    /\ cloudSuccessor = [a \in {"action"} |-> "no"]
    /\ cloudLock = "no"
    /\ cloudThread = [r \in {"caller", "observer"} |-> Cloud!NoThread]

Init ==
    /\ part \in {"exchange", "debug", "observation", "cancellation", "cloud", "slurm"}
    /\ JournalInit /\ ExchangeInit /\ DebugInit /\ ObservationInit
    /\ original = "RUNNING" <=> part = "cancellation"
    /\ OwnedInit /\ Slurm!Init

Next ==
    /\ UNCHANGED part
    /\ \/ /\ part = "exchange"
          /\ \/ (\E b \in Bindings : Bind(b) \/ OpenScope) /\ UNCHANGED exchangeVars
             \/ ExchangeNext
          /\ UNCHANGED notExchange
       \/ part = "debug" /\ DebugNext /\ UNCHANGED notDebug
       \/ part \in {"observation", "cancellation"} /\ Observing /\ UNCHANGED notObservation
       \/ part = "cloud" /\ Cloud!Next /\ UNCHANGED <<notSubmission, slurmVars>>
       \/ part = "slurm" /\ Slurm!Next /\ UNCHANGED <<notSubmission, cloudVars>>

Spec == Init /\ [][Next]_vars

Exchange(A) == part = "exchange" /\ A /\ UNCHANGED <<notExchange, part>>
Debug(A) == part = "debug" /\ A /\ UNCHANGED <<notDebug, part>>
InCloud(A) == part = "cloud" /\ A /\ UNCHANGED <<notSubmission, slurmVars, part>>
Observation(A) == part = "observation" /\ A /\ UNCHANGED <<notObservation, part>>

\* A sample of the cluster as it is, while the journal is not at its end, or
\* a page of lines.
LearnsWorker == RefreshWorker /\ evidence' = worker /\ "METRICS_DRAINED" \notin ToSet(lifecycle)
Learns == (RefreshScheduler /\ scheduler' = job /\ scheduler' # scheduler) \/ IngestHistory

(* Whoever drains the exchange of an Attempt sends again until it is
   answered, and the server goes on with what it received.  Nobody has to
   drain for ever, nor has a person to ask for a synchronization; but if
   it is asked for again and again, sooner or later a packet gets through.
   The observer refreshes debug machines at every tick, and sooner or
   later the provider executes a stop.  No candidate of an observer is
   starved (PollingSchedule): as long as there is something to learn of a
   Slurm job, again and again a sample learns it, and a refresh of a cloud
   job that is begun again and again gets through.  Every request runs on,
   for its waits have deadlines, and so does the holder of a lock.  A
   behaviour is about one part, so one condition speaks of a step of each. *)
FairSpec ==
    /\ Spec
    /\ WF_vars(Exchange(Receiving)) /\ WF_vars(Exchange(AnswerAgain))
    /\ \A d \in Machines : WF_vars(Debug(ObserverStops(d)))
    /\ WF_vars(Observation(JournalLifecycle \/ JournalTrainingEnd \/ AppendImport \/ EndOfHistory \/ SaveHistory))
    /\ \A r \in {"caller", "observer"} : WF_vars(InCloud(Cloud!Work(r)))
    /\ WF_vars(InCloud(Cloud!Poll("action")))
    /\ []<>Cloud!At("observer", "arrived") => []<><<InCloud(Cloud!InTime)>>_vars
    /\ SF_vars(Exchange(Collecting) \/ Observation(Learns) \/ InCloud(Cloud!Reads))
    /\ SF_vars(Observation(LearnsWorker) \/ InCloud(Cloud!IsAnswered))
    /\ SF_vars(InCloud(Cloud!IsCommitted))
    /\ Slurm!Fairness

DrainingSpec == Init /\ part = "observation" /\ [][Next]_vars

------------
(* The exchange of an Attempt whose process has finished comes to its end,
   unless it was deferred and nobody asks for it any more. *)
ExchangeCompletes ==
    \/ part = "exchange" /\ process = "finished" /\ Bound /\ ~wstate.complete ~> wstate.complete
    \/ <>[]~attended

(* What a Slurm job that is over left behind comes to the server, whatever
   samples failed or stopped on the way. *)
EverythingIsLearnt ==
    (part = "observation" /\ job \in Ends /\ worker = "Finished")
      ~> (scheduler = job /\ evidence = worker /\ told = 1..file /\ "METRICS_DRAINED" \in ToSet(lifecycle))

(* The exchange of a finished Worker completes as long as it is asked for,
   an expired debug machine is stopped, and what a Slurm job left comes to
   the server. *)
EverythingEnds == ExchangeCompletes /\ ExpiredIsStopped /\ EverythingIsLearnt

(* The end of an owned cloud job is observed, though failing GETs and
   restarts interfere, and the service lock of Slurm is released, also
   when helpers hang or die. *)
WaitsAreOver == Cloud!TerminalIsObserved /\ Slurm!LockIsReleased
=============================================================================

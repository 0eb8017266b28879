-------------------------- MODULE MlflowPublisher --------------------------
(* The MLflow publisher of one Attempt, beside the W&B one and under a
   lock of its own.  The cursor moves when a batch is answered; after any
   other outcome the same batch is sent again.  A point is named by the
   start of the MLflow run plus its sequence, so what is sent twice is
   one point.  The MLflow server is external: a request takes effect
   before its answer, or not at all. *)
EXTENDS RecordsJournal

CONSTANTS MaxMlFailures  \* lost answers, restarts and deletions in a behaviour

VARIABLES
    mlSaved,     \* the durable state of the scope
    mlVisit,     \* the visit in progress
    mlRuns,      \* the MLflow runs of the Attempt, in the order they were made
    mlExperiment,\* the experiment of the project on the server
    mlClock, mlFailures

mlflowVars == <<mlSaved, mlVisit, mlRuns, mlExperiment, mlClock, mlFailures>>

MlResting == [at |-> "rest"]
NewMlState == [status |-> "pending", confirmed |-> 0, experiment |-> FALSE, run |-> 0,
               base |-> 0, params |-> FALSE, finished |-> FALSE]

MlInit ==
    /\ mlSaved = NewMlState /\ mlVisit = MlResting
    /\ mlRuns = <<>> /\ mlExperiment = "none" /\ mlClock = 0 /\ mlFailures = 0

MlFails == mlFailures < MaxMlFailures /\ mlFailures' = mlFailures + 1
MlServer == <<mlRuns, mlExperiment>>
At(place) == [mlVisit EXCEPT !.at = place]
Save(state, place) ==
    /\ mlSaved' = state
    /\ mlVisit' = IF place = "rest" THEN MlResting ELSE [At(place) EXCEPT !.state = state]

\* Mutant: a job the provider stopped is waited for.
OnlyDrained(v, confirmed) == confirmed = v.total /\ Ended

\* terminal: the journal's end, as it is when it is read.
MlTerminal(v, confirmed) == confirmed = v.total /\ (Ended \/ v.ended)
MlGoal == IF Ended THEN "FINISHED" ELSE "FAILED"

------------
(* publish_ended: nothing to send and nothing to finish makes no request. *)
MlVisitScope ==
    /\ mlVisit = MlResting /\ Bound
    /\ mlSaved.status # "STOPPED"
    /\ ~(mlSaved.finished /\ mlSaved.confirmed >= Total)
    /\ LET v == [at |-> "experiment", total |-> Total, ended |-> providerEnded, state |-> mlSaved]
       IN IF mlSaved.run # 0 /\ mlSaved.confirmed = Total /\ ~MlTerminal(v, Total)
            THEN /\ mlSaved.status # "SYNCED"
                 /\ mlSaved' = [mlSaved EXCEPT !.status = "SYNCED"] /\ UNCHANGED mlVisit
            ELSE mlVisit' = v /\ UNCHANGED mlSaved
    /\ UNCHANGED <<MlServer, mlClock, mlFailures>>

\* ensure_experiment: it is found, or created; someone else may be first.
MlEnsureExperiment ==
    /\ mlVisit.at = "experiment"
    /\ IF mlVisit.state.experiment
         THEN mlVisit' = At("run") /\ UNCHANGED mlExperiment
         ELSE IF mlExperiment = "deleted"
           THEN mlVisit' = MlResting /\ UNCHANGED mlExperiment
           ELSE /\ mlExperiment' = "active"
                /\ mlVisit' = [At("run") EXCEPT !.state.experiment = TRUE]
    /\ UNCHANGED <<mlSaved, mlRuns, mlClock, mlFailures>>

Living == {n \in DOMAIN mlRuns : ~mlRuns[n].gone}

\* Mutant: a run is created by every server that does not know its id.
NeverFound == 0

(* The run of the Attempt is looked for by its tag before one is created,
   and its start, not the present, names the points. *)
FoundRun == IF Living = {} THEN 0 ELSE CHOOSE n \in Living : TRUE

StartOf(n) == mlRuns'[n].start

MlFindRun ==
    /\ mlVisit.at = "run"
    /\ mlClock' = mlClock + 1
    /\ IF mlVisit.state.run # 0
         THEN mlVisit' = At("params") /\ UNCHANGED <<mlSaved, mlRuns>>
         ELSE LET found == FoundRun
                  n == IF found # 0 THEN found ELSE Len(mlRuns) + 1
              IN /\ mlRuns' = IF found # 0 THEN mlRuns
                              ELSE Append(mlRuns, [start |-> mlClock, points |-> {}, params |-> FALSE,
                                                   status |-> "RUNNING", gone |-> FALSE])
                 /\ Save([mlVisit.state EXCEPT !.run = n, !.base = StartOf(n), !.status = "ACK_PENDING"],
                         "params")
    /\ UNCHANGED <<mlExperiment, mlFailures>>

\* The run was created, and the answer is lost.
MlLosesRun ==
    /\ mlVisit.at = "run" /\ mlVisit.state.run = 0 /\ FoundRun = 0 /\ MlFails
    /\ mlRuns' = Append(mlRuns, [start |-> mlClock, points |-> {}, params |-> FALSE,
                                 status |-> "RUNNING", gone |-> FALSE])
    /\ mlClock' = mlClock + 1 /\ mlVisit' = MlResting
    /\ UNCHANGED <<mlSaved, mlExperiment>>

\* A run a person deleted is never created again: the scope stops.
Stop == Save([mlVisit.state EXCEPT !.status = "STOPPED"], "rest")
Theirs == mlRuns[mlVisit.state.run]

MlLogParams ==
    /\ mlVisit.at = "params"
    /\ IF mlVisit.state.params THEN mlVisit' = At("batch") /\ UNCHANGED <<mlSaved, mlRuns>>
       ELSE IF Theirs.gone THEN Stop /\ UNCHANGED mlRuns
       ELSE /\ mlRuns' = [mlRuns EXCEPT ![mlVisit.state.run].params = TRUE]
            /\ Save([mlVisit.state EXCEPT !.params = TRUE], "batch")
    /\ UNCHANGED <<mlExperiment, mlClock, mlFailures>>

(* A batch is one request (or a few): the answer is saved in a step of its
   own, and a crash or a lost answer in between sends the batch again. *)
\* Mutant: a point is named by when it is sent.
PointNow(n) == <<n, mlClock + n>>
Point(n) == <<n, mlVisit.state.base + n>>
MlLogBatch ==
    /\ mlVisit.at = "batch" /\ mlVisit.state.confirmed < mlVisit.total
    /\ IF Theirs.gone THEN Stop /\ UNCHANGED mlRuns
       ELSE \E n \in mlVisit.state.confirmed + 1..Total :
              /\ mlRuns' = [mlRuns EXCEPT ![mlVisit.state.run].points =
                               @ \cup {Point(k) : k \in mlVisit.state.confirmed + 1..n}]
              /\ mlVisit' = [At("logged") EXCEPT !.state.confirmed = n] /\ UNCHANGED mlSaved
    /\ UNCHANGED <<mlExperiment, mlClock, mlFailures>>

MlSaveBatch ==
    /\ mlVisit.at = "logged"
    /\ Save([mlVisit.state EXCEPT !.status = IF mlVisit.state.confirmed >= mlVisit.total THEN "SYNCED" ELSE "ACK_PENDING"],
            "batch")
    /\ UNCHANGED <<MlServer, mlClock, mlFailures>>

\* Every record up to the total was sent: the run gets its terminal status.
MlFinish ==
    /\ mlVisit.at = "batch" /\ mlVisit.state.confirmed >= mlVisit.total
    /\ IF ~MlTerminal(mlVisit, mlVisit.state.confirmed)
         THEN Save([mlVisit.state EXCEPT !.status = "SYNCED"], "rest") /\ UNCHANGED mlRuns
         ELSE IF Theirs.gone THEN Stop /\ UNCHANGED mlRuns
         ELSE /\ mlRuns' = [mlRuns EXCEPT ![mlVisit.state.run].status = MlGoal]
              /\ mlVisit' = [At("finished") EXCEPT !.state.finished = TRUE] /\ UNCHANGED mlSaved
    /\ UNCHANGED <<mlExperiment, mlClock, mlFailures>>

MlSaveFinished ==
    /\ mlVisit.at = "finished"
    /\ Save([mlVisit.state EXCEPT !.status = "FINISHED"], "rest")
    /\ UNCHANGED <<MlServer, mlClock, mlFailures>>

\* A request fails, an answer is lost or the server stops: the state stays as
\* it was saved.
MlCrash ==
    /\ mlVisit.at # "rest" /\ MlFails
    /\ mlVisit' = MlResting /\ UNCHANGED <<mlSaved, MlServer, mlClock>>

MlDelete ==
    /\ MlFails
    /\ \/ \E n \in Living : mlRuns' = [mlRuns EXCEPT ![n].gone = TRUE] /\ UNCHANGED mlExperiment
       \/ mlExperiment = "none" /\ mlExperiment' \in {"active", "deleted"} /\ UNCHANGED mlRuns
    /\ UNCHANGED <<mlSaved, mlVisit, mlClock>>

MlVisiting == MlVisitScope \/ MlEnsureExperiment \/ MlFindRun \/ MlLogParams \/ MlLogBatch
              \/ MlSaveBatch \/ MlFinish \/ MlSaveFinished
MlNext == MlVisiting \/ MlLosesRun \/ MlCrash \/ MlDelete

------------
(* The Attempt has one MLflow run, found again by its tag when the answer
   that named it was lost, unless a person deleted the one before it was
   known. *)
OneMlflowRun ==
    /\ Cardinality(Living) <= 1
    /\ mlSaved.run # 0 => \A n \in DOMAIN mlRuns : n > mlSaved.run => mlRuns[n].gone

(* What the cursor has passed is on the run, and no record is there twice,
   however often its batch was sent. *)
MlConfirmedIsThere ==
    mlSaved.run # 0 =>
      LET there == mlRuns[mlSaved.run].points
      IN /\ \A n \in 1..mlSaved.confirmed : \E p \in there : p[1] = n
         /\ \A p, q \in there : p[1] = q[1] => p = q

(* A scope has one living MLflow run, which has every record the cursor
   passed, once. *)
MlflowIsTrue == OneMlflowRun /\ MlConfirmedIsThere
=============================================================================

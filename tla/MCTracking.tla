----------------------------- MODULE MCTracking ----------------------------
(* The records journal of one Attempt and what surrounds it.  A behaviour
   exercises one part: the journal alone, the W&B publisher, or the MLflow
   publisher. *)
EXTENDS Publisher, MlflowPublisher

CONSTANT Parts \* the parts a behaviour may exercise

VARIABLE part
vars == <<journalVars, publisherVars, mlflowVars, part>>

Row(kind, name, value) == [kind |-> kind, name |-> name, value |-> value]
Loss == [id |-> <<"worker", "loss">>, body |-> Row("metrics", "loss", 1)]
LossAgain == [id |-> <<"archive", "loss">>, body |-> Row("metrics", "loss", 1)]
Drop == [id |-> <<"worker", "loss">>, body |-> Row("metrics", "loss", 2)]
Start == [id |-> <<"worker", "start">>, body |-> Row("lifecycle", Nobody, 0)]
End == [id |-> <<"worker", "end">>, body |-> Row("ended", Nobody, 0)]
MCReports == {Loss, LossAgain, Drop, Start, End}
Score == [sha |-> "score", bodies |-> <<Row("derived", "score", 1)>>]
MCBatches == {Score, [sha |-> "late", bodies |-> <<Row("derived", "loss", 2), Row("derived", "last", 1)>>]}
MCLists == {{"loss"}}
MCBindings == [enabled : BOOLEAN, companion : BOOLEAN]

\* What the journal of the other parts is given: one metric, the end, one file.
Few == part # "journal"
WorkerReports == {Loss, End}

Init ==
    /\ part \in Parts
    /\ JournalInit /\ PublisherInit /\ MlInit

Filling ==
    \/ \E b \in Bindings : (Few => b.enabled /\ ~b.companion) /\ Bind(b)
    \/ OpenScope
    \/ part = "journal" /\ \E events \in UNION {[1..n -> MCReports] : n \in 1..2} : Ingest(events)
    \/ Few /\ (Late \/ (~Ended /\ ~providerEnded)) /\ \E e \in WorkerReports : Ingest(<<e>>)
    \/ \E b \in Batches : (Few => b = Score) /\ AddDerived(b)
    \/ part = "publisher" /\ Rebuilds
    \/ scopeRow.exists /\ ~Ended /\ ProviderEnds
    \/ \E name \in {"run", "parent"} : part = "journal" /\ Mark(name)

\* A tombstone waits for the shared guard of a visit.
Deletion ==
    /\ visit = Resting /\ Mark("run") /\ Fails
    /\ UNCHANGED <<visit, session, wandb, child, loose>>

Next ==
    /\ UNCHANGED part
    /\ \/ Filling /\ UNCHANGED <<publisherVars, mlflowVars>>
       \/ part = "publisher" /\ (Publishing \/ Deletion) /\ UNCHANGED <<mlflowVars>>
       \/ part = "mlflow" /\ MlNext /\ UNCHANGED <<journalVars, publisherVars>>

Spec == Init /\ [][Next]_vars

(* The threads visit the scope again and again, the SDK child and W&B work
   on, and what a child that is gone held arrives or is lost. *)
Thread ==
    \/ /\ part = "publisher" /\ UNCHANGED <<part, mlflowVars>>
       /\ Visiting \/ Send \/ RepairSends \/ RepairConfirms
    \/ part = "mlflow" /\ MlVisiting /\ UNCHANGED <<part, journalVars, publisherVars>>
Settles == part = "publisher" /\ (Arrive \/ Lose) /\ UNCHANGED <<part, mlflowVars>>
Delivers == part = "publisher" /\ Deliver /\ UNCHANGED <<part, mlflowVars>>

FairSpec == Spec /\ WF_vars(Thread) /\ WF_vars(Delivers) /\ WF_vars(Settles)

(* A Run that has ended is finished on W&B in the end, whatever was lost,
   killed or recovered on the way. *)
EndIsPublished ==
    part = "publisher" /\ Bound /\ (Ended \/ providerEnded)
      ~> saved.remoteFinished \/ saved.missing \/ ~Live

(* A Run that has ended is finished on MLflow in the end, unless a person
   deleted its run or its experiment there. *)
MlEndIsPublished ==
    part = "mlflow" /\ Bound /\ (Ended \/ providerEnded)
      ~> (mlSaved.finished /\ mlSaved.confirmed = Total) \/ mlSaved.status = "STOPPED"
         \/ mlExperiment = "deleted" \/ ~Live

(* A Run that has ended is finished on W&B and on MLflow. *)
EndsArePublished == EndIsPublished /\ MlEndIsPublished
=============================================================================

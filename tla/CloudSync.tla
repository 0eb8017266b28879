------------------------------ MODULE CloudSync ------------------------------
(* The collector jobs of an Attempt: a synchronization that is asked for
   by a request, and the one recovery a person may ask for when it failed.
   Every call holds the service lock from its first read to its last
   write, so only the provider, a restart and an interrupted call come
   between.  The training's own job is the slot TrainingJob. *)
EXTENDS ProviderJobs

CONSTANTS TrainingJob,     \* the slot of the training job
          SyncRequests, \* request ids of synchronizations
          Original(_),  \* the slot of a request's collector job
          Recovery(_),  \* the slot of its recovery
          Diagnosis(_), \* the slot of its read-only diagnostic
          ReportParts   \* parts a diagnostic prints its report in

\* A job is named by its request and what it is for, so none is another's.
ASSUME SyncAssumption ==
    /\ Limits \subseteq Nat /\ TrainingJob \in Slots
    /\ \A r \in SyncRequests :
          /\ {Original(r), Recovery(r), Diagnosis(r)} \subseteq Slots \ {TrainingJob}
          /\ \A q \in SyncRequests :
                /\ Original(r) \notin {Recovery(q), Diagnosis(q)} /\ Recovery(r) # Diagnosis(q)
                /\ r # q => Original(r) # Original(q) /\ Recovery(r) # Recovery(q) /\ Diagnosis(r) # Diagnosis(q)

VARIABLES
    recovery,  \* the saved Retry of each request
    diagnosis, \* the saved diagnostic of each request: its limits, its report
    printed,   \* what the provider's log of each diagnostic holds
    orphaned   \* a call could not reach the job of its own record

syncVars == <<recovery, diagnosis, printed, orphaned>>

NoRecovery == [saved |-> FALSE, limits |-> 0]
NoDiagnosis == [saved |-> FALSE, of |-> TrainingJob, limits |-> 0, report |-> {}]
SyncInit ==
    /\ recovery = [r \in SyncRequests |-> NoRecovery]
    /\ diagnosis = [r \in SyncRequests |-> NoDiagnosis]
    /\ printed = [r \in SyncRequests |-> {}]
    /\ orphaned = FALSE

\* The Action is VERIFIED: its training job was submitted.
Verified == slot[TrainingJob].entry = "started"

SubmitTraining ==
    /\ slot[TrainingJob].entry = "none"
    /\ slot' = Submitted(TrainingJob, limit)
    /\ UNCHANGED <<pjob, limit, syncVars>>

------------
\* The job is sent, only prepared before the process stops, or refused.
Send(s, limits) ==
    IF SameLimits(s, limits)
      THEN /\ slot' \in {Submitted(s, limits), OnlyPrepared(s, limits)}
           /\ UNCHANGED orphaned
      ELSE orphaned' = TRUE /\ UNCHANGED slot

(* synchronize: a request that was recovered goes to its recovery. *)
Synchronize(r) ==
    /\ Verified /\ ~recovery[r].saved
    /\ Send(Original(r), LimitsFor(Original(r)))
    /\ UNCHANGED <<pjob, limit, recovery, diagnosis, printed>>

\* Mutant: an end of the original job is enough.
EndedIsEnough(r) == Proven(TrainingJob) # "nothing" /\ Proven(Original(r)) # "nothing"

(* retry_sync: the training has ended and the original has failed, both by
   a fresh read; the Retry is saved before its job is sent. *)
Replaceable(r) == Proven(TrainingJob) # "nothing" /\ Proven(Original(r)) = "failed"

RetrySync(r) ==
    /\ Verified /\ ~recovery[r].saved
    /\ slot[Original(r)].entry # "none" /\ Replaceable(r)
    /\ LET limits == LimitsFor(Recovery(r))
       IN /\ recovery' = [recovery EXCEPT ![r] = [saved |-> TRUE, limits |-> limits]]
          /\ (UNCHANGED <<slot, orphaned>> \/ Send(Recovery(r), limits))
    /\ UNCHANGED <<pjob, limit, diagnosis, printed>>

\* The same request again, or a synchronize that its recovery took over.
DriveRecovery(r) ==
    /\ Verified /\ recovery[r].saved
    /\ Send(Recovery(r), recovery[r].limits)
    /\ UNCHANGED <<pjob, limit, recovery, diagnosis, printed>>

------------
(* diagnostic: one read-only job looks at the files of a collector that
   has ended.  What it was asked for is saved before its job is sent, with
   the limits of its parent. *)
Subject(r) == IF recovery[r].saved THEN Recovery(r) ELSE Original(r)

\* A log may lack parts, repeat them, or hold those of another report.
Foreign == {<<"foreign", p>> : p \in ReportParts}
Own == {<<"own", p>> : p \in ReportParts}

\* Mutant: a last part is taken for the whole.
AnyReport(lines) == {l \in Own : l \in lines}

(* report: the first set of parts that is complete and of this diagnostic. *)
CompleteReport(lines) == IF Own \subseteq lines THEN Own ELSE {}

PrintPart(r) ==
    /\ pjob[Diagnosis(r)] = "running"
    /\ \E l \in Own \cup Foreign : printed' = [printed EXCEPT ![r] = @ \cup {l}]
    /\ UNCHANGED <<jobVars, recovery, diagnosis, orphaned>>

BeginDiagnosis(r) ==
    /\ Verified /\ ~diagnosis[r].saved /\ Proven(Subject(r)) # "nothing"
    /\ LET limits == slot[Subject(r)].limits
       IN /\ diagnosis' = [diagnosis EXCEPT ![r] = [saved |-> TRUE, of |-> Subject(r),
                                                         limits |-> limits, report |-> {}]]
          /\ (UNCHANGED <<slot, orphaned>> \/ Send(Diagnosis(r), limits))
    /\ UNCHANGED <<pjob, limit, recovery, printed>>

\* Asked again: the same job, and its log once there is one.  A diagnostic
\* of a collector that was since recovered is not the request's any more.
Diagnose(r) ==
    /\ Verified /\ diagnosis[r].saved /\ diagnosis[r].of = Subject(r)
    /\ Send(Diagnosis(r), diagnosis[r].limits)
    /\ diagnosis' = IF diagnosis[r].report = {} /\ pjob[Diagnosis(r)] # "none"
                      THEN [diagnosis EXCEPT ![r].report = CompleteReport(printed[r])] ELSE diagnosis
    /\ UNCHANGED <<pjob, limit, recovery, printed>>

SyncNext ==
    \/ SubmitTraining
    \/ \E r \in SyncRequests :
          \/ Synchronize(r) \/ RetrySync(r) \/ DriveRecovery(r)
          \/ PrintPart(r) \/ BeginDiagnosis(r) \/ Diagnose(r)

SyncSpec ==
    /\ JobsInit /\ SyncInit
    /\ [][SyncNext \/ (JobsNext /\ UNCHANGED syncVars)]_<<jobVars, syncVars>>

------------
(* A recovery is for a collector that failed after its training had ended:
   it is the only job of its request that is at work, whatever was asked
   again, lost or interrupted in between. *)
RecoveryReplacesFailure ==
    \A r \in SyncRequests :
        slot[Recovery(r)].entry # "none" =>
            pjob[Original(r)] = "failed" /\ pjob[TrainingJob] \in Final

(* A diagnostic reads a collector that has ended, and its report is whole. *)
DiagnosisIsWhole ==
    \A r \in SyncRequests :
        /\ slot[Diagnosis(r)].entry # "none" =>
              pjob[Original(r)] \in Final \/ pjob[Recovery(r)] \in Final
        /\ diagnosis[r].report \in {{}, Own}

(* Changing the limits of the configuration never orphans a job: every
   later call still reaches the job that its record names. *)
NeverOrphaned == ~orphaned

(* A synchronization owns the jobs it started, replaces only a collector
   that failed, and reports a diagnosis that is whole. *)
CollectorsAreWhole == RecoveryReplacesFailure /\ NeverOrphaned /\ DiagnosisIsWhole
=============================================================================

--------------------------- MODULE Administration ---------------------------
(* Removal of what one ended Attempt left on the storage of its backend:
   an operator prepares a plan, executes it, and may retire the Run.  A
   plan fixes the checkpoints it withdraws from the registry; a Run that
   resumes from one of them holds it back.  Authorship of Runs takes the
   admission lock shared, execution and retirement take it exclusively.
   An execution may stop between any two writes and is executed again; the
   worker that removes the bytes keeps a ledger of its own. *)
EXTENDS Integers, FiniteSets

CONSTANTS
    Saves,        \* the checkpoints of the Attempt
    MostParts,    \* parts of the result archive kept as objects
    Selections,   \* the plans an operator may prepare: everything, or one checkpoint
    Nil

ASSUME AdministrationAssumption ==
    MostParts \in Nat /\ Nil \notin Saves \cup Selections /\ Selections \subseteq {"outputs", "state"} \cup Saves

VARIABLES
    onCloud,      \* the Attempt is one of a cloud backend
    attemptEnded, \* the backend has terminal evidence of the job
    bytes,        \* the checkpoints whose bytes are on the storage
    outputs,      \* the outputs are on the storage
    objects,      \* parts of the archive still stored as objects
    registry,     \* the registered checkpoints
    markers,      \* withdrawn.<checkpoint>.json and the plan that wrote it
    followers,    \* the checkpoints a published Run resumes from
    authoring,    \* the checkpoint of the Run being authored, or Nil
    plans,        \* the saved plans
    executing,    \* the execution that is going on
    ledger,       \* .storage-maintenance of the worker: the plans done there
    removing,     \* the plan whose removal holds .managed-launch.lock
    removalJobs,  \* the plans a cloud job was submitted for
    tombstone,    \* the Run is retired
    interrupted   \* checkpoints of a plan that was started and stopped before its markers

administrationVars == <<onCloud, attemptEnded, bytes, outputs, objects, registry, markers, followers,
                        authoring, plans, executing, ledger, removing, removalJobs, tombstone, interrupted>>
storageVars == <<bytes, outputs, ledger, removing>>
registryVars == <<registry, markers, followers, authoring>>

NotExecuting == [plan |-> Nil, at |-> "idle"]
NoMaintenance == [saved |-> FALSE, saves |-> {}, started |-> FALSE, receipt |-> FALSE, cursor |-> 0, complete |-> FALSE]

AdministrationInit ==
    /\ onCloud \in BOOLEAN /\ attemptEnded = FALSE
    /\ bytes = Saves /\ outputs = TRUE /\ objects = MostParts
    /\ registry = {} /\ markers = [c \in Saves |-> Nil]
    /\ followers = {} /\ authoring = Nil
    /\ plans = [p \in Selections |-> NoMaintenance]
    /\ executing = NotExecuting /\ ledger = {} /\ removing = Nil /\ removalJobs = {}
    /\ tombstone = FALSE /\ interrupted = {}

------------
\* A checkpoint can be read until it is withdrawn.
Usable == {c \in registry : markers[c] = Nil}
Exclusive == executing.at \in {"withdraw"}

AttemptEnds ==
    /\ ~attemptEnded /\ attemptEnded' = TRUE
    /\ UNCHANGED <<onCloud, storageVars, objects, registryVars, plans, executing, removalJobs, tombstone, interrupted>>

\* refresh_checkpoint: the bytes are verified on the backend, then registered.
RegisterSave(c) ==
    /\ ~tombstone /\ c \in bytes /\ c \notin registry
    /\ registry' = registry \cup {c}
    /\ UNCHANGED <<onCloud, attemptEnded, storageVars, objects, markers, followers, authoring, plans,
                   executing, removalJobs, tombstone, interrupted>>

(* create_run and retry hold the admission lock shared from before the
   checkpoint is read until the Run is published. *)
BeginAuthor(c) ==
    /\ authoring = Nil /\ ~Exclusive
    /\ ~tombstone /\ c \in Usable
    /\ authoring' = c
    /\ UNCHANGED <<onCloud, attemptEnded, storageVars, objects, registry, markers, followers, plans,
                   executing, removalJobs, tombstone, interrupted>>
PublishRun ==
    /\ authoring # Nil
    /\ \/ followers' = followers \cup {authoring}
       \/ UNCHANGED followers
    /\ authoring' = Nil
    /\ UNCHANGED <<onCloud, attemptEnded, storageVars, objects, registry, markers, plans, executing, removalJobs, tombstone, interrupted>>

------------
Covered(p) == CASE p = "outputs" -> {} [] p = "state" -> Usable [] OTHER -> {p}

\* Mutant: the dependencies are not looked for.
Unfollowed(saves) == TRUE

\* dependencies: no Run or Attempt resumes from one of these.
Independent(saves) == saves \cap followers = {}

(* prepare: terminal evidence is refreshed, the checkpoints are listed and
   the plan is saved; a plan that is there is answered again. *)
PreparePlan(p) ==
    /\ attemptEnded /\ ~tombstone /\ ~plans[p].saved
    /\ p \in Saves => p \in Usable
    /\ Independent(Covered(p))
    /\ plans' = [plans EXCEPT ![p] = [saved |-> TRUE, saves |-> Covered(p), started |-> FALSE,
                                      receipt |-> FALSE, cursor |-> 0, complete |-> ~onCloud]]
    /\ UNCHANGED <<onCloud, attemptEnded, storageVars, objects, registryVars, executing, removalJobs, tombstone, interrupted>>

\* execute: dependencies are looked for again before the plan is started.
BeginExecution(p) ==
    /\ executing = NotExecuting /\ authoring = Nil /\ plans[p].saved
    /\ plans[p].started \/ Independent(plans[p].saves)
    /\ plans' = [plans EXCEPT ![p].started = TRUE]
    /\ executing' = [plan |-> p, at |-> "withdraw"]
    /\ UNCHANGED <<onCloud, attemptEnded, storageVars, objects, registryVars, removalJobs, tombstone, interrupted>>

\* withdraw: a marker of this plan for each of its checkpoints.
Withdraw(c) ==
    /\ executing.at = "withdraw" /\ c \in plans[executing.plan].saves /\ markers[c] = Nil
    /\ markers' = [markers EXCEPT ![c] = executing.plan]
    /\ UNCHANGED <<onCloud, attemptEnded, storageVars, objects, registry, followers, authoring, plans,
                   executing, removalJobs, tombstone, interrupted>>

\* Mutant: the bytes go while a marker is still to be written.
WithdrawnSome(p) == TRUE

AllWithdrawn(p) == \A c \in plans[p].saves : markers[c] = p

\* The locks are dropped; the backend may remove now.
EndWithdraw ==
    /\ executing.at = "withdraw" /\ AllWithdrawn(executing.plan)
    /\ executing' = IF plans[executing.plan].receipt THEN [executing EXCEPT !.at = "finish"]
                    ELSE [executing EXCEPT !.at = "remove"]
    /\ UNCHANGED <<onCloud, attemptEnded, storageVars, objects, registryVars, plans, removalJobs, tombstone, interrupted>>

\* A marker of another plan refuses this one.
RefuseExecution ==
    /\ executing.at = "withdraw"
    /\ \E c \in plans[executing.plan].saves : markers[c] \notin {Nil, executing.plan}
    /\ executing' = NotExecuting
    /\ UNCHANGED <<onCloud, attemptEnded, storageVars, objects, registryVars, plans, removalJobs, tombstone, interrupted>>

\* The cloud runs one job per plan and is asked for it again, never twice.
SubmitRemoval ==
    /\ executing.at = "remove" /\ onCloud
    /\ removalJobs' = removalJobs \cup {executing.plan}
    /\ executing' = [executing EXCEPT !.at = "finish"]
    /\ UNCHANGED <<onCloud, attemptEnded, storageVars, objects, registryVars, plans, tombstone, interrupted>>

------------
(* The worker's storage-maintain, over SSH or in the job of the plan, one
   at a time under the lock of the managed launch; what it has done it
   does not do again. *)
Asked(p) == IF onCloud THEN p \in removalJobs ELSE executing = [plan |-> p, at |-> "remove"]

BeginRemoval(p) ==
    /\ Asked(p) /\ removing = Nil /\ p \notin ledger
    /\ removing' = p
    /\ UNCHANGED <<onCloud, attemptEnded, bytes, outputs, ledger, objects, registryVars, plans, executing, removalJobs, tombstone, interrupted>>

Targets(p) == CASE p = "outputs" -> {} [] p = "state" -> Saves [] OTHER -> {p}

RemoveBytes ==
    /\ removing # Nil
    /\ \/ \E c \in bytes \cap Targets(removing) : bytes' = bytes \ {c} /\ UNCHANGED outputs
       \/ removing = "outputs" /\ outputs /\ outputs' = FALSE /\ UNCHANGED bytes
    /\ UNCHANGED <<onCloud, attemptEnded, ledger, removing, objects, registryVars, plans, executing, removalJobs, tombstone, interrupted>>

\* Mutant: the ledger is written while there is something left.
RemovedSome(p) == TRUE

RemovedAll(p) == bytes \cap Targets(p) = {} /\ (p = "outputs" => ~outputs)

EndRemoval ==
    /\ removing # Nil /\ RemovedAll(removing)
    /\ ledger' = ledger \cup {removing} /\ removing' = Nil
    /\ UNCHANGED <<onCloud, attemptEnded, bytes, outputs, objects, registryVars, plans, executing, removalJobs, tombstone, interrupted>>

\* The worker stops between two removals.
StopRemoval ==
    /\ removing # Nil /\ removing' = Nil
    /\ UNCHANGED <<onCloud, attemptEnded, bytes, outputs, ledger, objects, registryVars, plans, executing, removalJobs, tombstone, interrupted>>

(* The receipt: read from the output of the SSH command, or received from
   the job while nothing else is asked. *)
ReceiveReceipt(p) ==
    /\ p \in ledger /\ plans[p].saved /\ plans[p].started /\ ~plans[p].receipt
    /\ onCloud \/ Asked(p)
    /\ plans' = [plans EXCEPT ![p].receipt = TRUE]
    /\ executing' = IF Asked(p) /\ ~onCloud THEN [executing EXCEPT !.at = "finish"] ELSE executing
    /\ UNCHANGED <<onCloud, attemptEnded, storageVars, objects, registryVars, removalJobs, tombstone, interrupted>>

------------
\* finish: the parts of the archive are released, one saved at a time.
ReleaseArchivePart ==
    /\ executing.at = "finish" /\ executing.plan = "outputs"
    /\ plans["outputs"].receipt /\ ~plans["outputs"].complete
    /\ plans["outputs"].cursor < MostParts
    /\ objects' = MostParts - plans["outputs"].cursor - 1
    /\ plans' = [plans EXCEPT !["outputs"].cursor = @ + 1,
                              !["outputs"].complete = plans["outputs"].cursor + 1 = MostParts]
    /\ UNCHANGED <<onCloud, attemptEnded, storageVars, registryVars, executing, removalJobs, tombstone, interrupted>>

FinishExecution ==
    /\ executing.at = "finish"
    /\ LET p == plans[executing.plan]
           releases == p.receipt /\ ~p.complete
       IN /\ (releases /\ executing.plan = "outputs") => p.cursor = MostParts
          /\ plans' = IF releases THEN [plans EXCEPT ![executing.plan].complete = TRUE] ELSE plans
    /\ executing' = NotExecuting
    /\ UNCHANGED <<onCloud, attemptEnded, storageVars, objects, registryVars, removalJobs, tombstone, interrupted>>

\* The execution stops; what was written stays.
StopExecution ==
    /\ executing # NotExecuting
    /\ executing' = NotExecuting
    /\ interrupted' = IF executing.at # "withdraw" THEN interrupted
                      ELSE interrupted \cup plans[executing.plan].saves
    /\ UNCHANGED <<onCloud, attemptEnded, storageVars, objects, registryVars, plans, removalJobs, tombstone>>

\* retire: every Attempt has ended; the tombstone takes the fence exclusively.
Retire ==
    /\ attemptEnded /\ ~tombstone /\ ~Exclusive /\ authoring = Nil
    /\ tombstone' = TRUE
    /\ UNCHANGED <<onCloud, attemptEnded, storageVars, objects, registryVars, plans, executing, removalJobs, interrupted>>

AdministrationNext ==
    \/ AttemptEnds \/ PublishRun \/ EndWithdraw \/ RefuseExecution \/ SubmitRemoval
    \/ RemoveBytes \/ EndRemoval \/ StopRemoval \/ ReleaseArchivePart \/ FinishExecution \/ StopExecution \/ Retire
    \/ \E c \in Saves : RegisterSave(c) \/ BeginAuthor(c) \/ Withdraw(c)
    \/ \E p \in Selections : PreparePlan(p) \/ BeginExecution(p) \/ BeginRemoval(p) \/ ReceiveReceipt(p)

AdministrationSpec == AdministrationInit /\ [][AdministrationNext]_administrationVars

------------
\* Registered after a plan that removes its bytes: no marker is written for it.
Late == {c \in Usable : \E p \in Selections : plans[p].saved /\ c \in Targets(p) \ plans[p].saves}

(* A checkpoint a Run resumes from is on the storage: removal looked for
   such a Run, and none was authored between the look and the marker.
   Two gaps of the code are named: a checkpoint registered after the plan,
   and an execution that stopped before its markers, which does not look
   for dependencies again. *)
NoRunLosesItsCheckpoint == followers \subseteq bytes \cup Late \cup interrupted

(* What can be read from the registry is on the storage: every marker is
   written before the backend removes a byte, also after an interruption. *)
ReadableIsStored == Usable \subseteq bytes \cup Late

(* A receipt says what is gone, and a completed plan has nothing left to
   remove, its objects included. *)
CompletedIsGone ==
    \A p \in Selections : (plans[p].saved /\ plans[p].receipt) =>
      /\ bytes \cap Targets(p) = {} /\ (p = "outputs" => ~outputs)
      /\ (plans[p].complete /\ onCloud /\ p = "outputs") => objects = 0

(* A removal takes nothing that another Run needs, what can still be read
   is still stored, and what is reported as removed is gone, wherever it
   was interrupted. *)
RemovalIsSafe == NoRunLosesItsCheckpoint /\ ReadableIsStored /\ CompletedIsGone
=============================================================================

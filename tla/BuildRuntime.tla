---------------------------- MODULE BuildRuntime ----------------------------
(* The build of a Runtime image.  The server marks the build in its record
   before a thread of its own calls the builder, another process, and
   waits for hours; an answer may be lost, the server may restart, and the
   builder goes on.  A reconciliation asks the builder what became of a
   build, without the lock, and gives it back for another one only by a
   proof that nothing was left. *)
EXTENDS Naturals, FiniteSets

CONSTANTS
    Reconcilers, \* reconciliations that may be under way together
    MaxBuilds    \* builds the builder may begin

VARIABLES
    build,      \* the record of the Runtime
    active,     \* active_builds, of this server process
    calling,    \* the thread that called the builder
    asking,     \* what each reconciliation is doing
    workers,    \* builds the builder is at work on
    published,  \* the image is in the registry
    builds,     \* how many were begun
    outlived,  \* history: reconciliations that read an earlier execution's record
    misled      \* history: the answer of one of them was accepted

buildVars == <<build, active, calling, asking, workers, published, builds, outlived, misled>>
history == <<outlived, misled>>

Prepared == [started |-> FALSE, runtime |-> FALSE, diagnostic |-> "none"]
NotAsking == [at |-> "idle"]

BuildInit ==
    /\ build = Prepared
    /\ active = FALSE
    /\ calling = "idle"
    /\ asking = [r \in Reconcilers |-> NotAsking]
    /\ workers = 0 /\ published = FALSE /\ builds = 0
    /\ outlived = {} /\ misled = FALSE

------------
(* execute_runtime: the mark is durable before the thread is started; it
   enters active_builds as soon as the lock is released. *)
ExecuteRuntime ==
    /\ ~build.started /\ ~active /\ calling = "idle"
    /\ build' = [build EXCEPT !.started = TRUE, !.diagnostic = "BUILD_EXECUTING"]
    /\ calling' = "call" /\ active' = TRUE
    /\ outlived' = {r \in Reconcilers : asking[r] # NotAsking}
    /\ UNCHANGED <<asking, workers, published, builds, misled>>

\* The call is not sent at all, or the builder begins.
CallBuilder ==
    /\ calling = "call"
    /\ \/ calling' = "not_sent" /\ UNCHANGED <<workers, builds>>
       \/ /\ builds < MaxBuilds
          /\ calling' = "sent" /\ workers' = workers + 1 /\ builds' = builds + 1
    /\ UNCHANGED <<build, active, asking, published, history>>

\* The builder publishes the image or gives up.
BuilderEnds ==
    /\ workers > 0 /\ workers' = workers - 1
    /\ published' \in {published, TRUE}
    /\ UNCHANGED <<build, active, calling, asking, builds, history>>

\* Mutant: a missing receipt gives the build back without a proof.
BuildAcceptedLoosely(record, answer) ==
    CASE answer = "image" -> [started |-> TRUE, runtime |-> TRUE, diagnostic |-> "none"]
      [] OTHER -> [record EXCEPT !.started = answer = "failed", !.diagnostic = answer]

(* accept_build: the image is recorded, or the proof gives the build back;
   anything else is a diagnostic only. *)
BuildAccepted(record, answer) ==
    CASE answer = "image" -> [started |-> TRUE, runtime |-> TRUE, diagnostic |-> "none"]
      [] answer = "proof" -> [record EXCEPT !.started = FALSE, !.diagnostic = "BUILD_RECEIPT_MISSING"]
      [] OTHER -> [record EXCEPT !.diagnostic = answer]

\* What the thread is told: the end of the build, or nothing.
ToldBy == {"uncertain"} \cup
          (IF published THEN {"image"} ELSE IF workers = 0 THEN {"failed"} ELSE {})

(* The thread records the answer, unless the lock stays busy. *)
CallEnds ==
    /\ calling \in {"not_sent", "sent"}
    /\ \/ UNCHANGED build
       \/ /\ calling = "sent"
          /\ \E answer \in ToldBy : build' = BuildAccepted(build, answer)
       \/ /\ calling = "not_sent" /\ ~build.runtime
          /\ build' = [build EXCEPT !.started = FALSE, !.diagnostic = "NATIVE_BUILD_NOT_DISPATCHED"]
    /\ calling' = "idle" /\ active' = FALSE
    /\ UNCHANGED <<asking, workers, published, builds, history>>

RestartServer ==
    /\ calling # "idle" \/ \E r \in Reconcilers : asking[r] # NotAsking
    /\ calling' = "idle" /\ active' = FALSE
    /\ asking' = [r \in Reconcilers |-> NotAsking]
    /\ outlived' = {}
    /\ UNCHANGED <<build, workers, published, builds, misled>>

------------
(* reconcile_runtime: the record is read, the builder is asked without the
   lock, and what it says counts for exactly the bytes that were read. *)
Ask(r) ==
    /\ asking[r] = NotAsking
    /\ ~active /\ build.started /\ ~build.runtime
    /\ asking' = [asking EXCEPT ![r] = [at |-> "call", saw |-> build]]
    /\ outlived' = outlived \ {r}
    /\ UNCHANGED <<build, active, calling, workers, published, builds, misled>>

\* The proof: no image, no builder at work, no lease.
Says == IF published THEN {"image", "failed"}
        ELSE IF workers = 0 THEN {"proof", "failed"} ELSE {"failed"}

BuilderSays(r) ==
    /\ asking[r].at = "call"
    /\ \E answer \in Says :
          asking' = [asking EXCEPT ![r] = [at |-> "answer", saw |-> asking[r].saw, answer |-> answer]]
    /\ UNCHANGED <<build, active, calling, workers, published, builds, history>>

StillTheSame(r) == build = asking[r].saw /\ ~active

\* Mutant: the record is not read again.
NotReadAgain(r) == TRUE

AcceptAnswer(r) ==
    /\ asking[r].at = "answer"
    /\ build' = IF StillTheSame(r) THEN BuildAccepted(build, asking[r].answer) ELSE build
    /\ asking' = [asking EXCEPT ![r] = NotAsking]
    /\ outlived' = outlived \ {r}
    /\ misled' = (misled \/ (StillTheSame(r) /\ r \in outlived))
    /\ UNCHANGED <<active, calling, workers, published, builds>>

BuildNext ==
    \/ ExecuteRuntime \/ CallBuilder \/ BuilderEnds \/ CallEnds \/ RestartServer
    \/ \E r \in Reconcilers : Ask(r) \/ BuilderSays(r) \/ AcceptAnswer(r)

------------
(* A Runtime that may be built (retry_safe) has no builder at work: what
   is active, uncertain or unobserved stays RECONCILE_REQUIRED.  The record
   is compared by its bytes (encode), and a later execution may write the
   same ones again: an answer about the build before it is then accepted
   for this one.  That is the one way. *)
RetrySafeIsTrue ==
    ~build.started /\ ~active =>
        misled \/ (workers = 0 /\ calling \notin {"call", "sent"})
=============================================================================

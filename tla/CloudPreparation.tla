------------------------- MODULE CloudPreparation ---------------------------
(* The continuation of a cloud Run: a retry adds the next Attempt once the
   job of the current one is proven to have ended, and then moves the Run
   to it.  A retry holds the service lock; it may stop between its two
   writes, and be repeated, or made again from an old page, at any time.
   Attempts are numbered, and each is the slot of its own job. *)
EXTENDS ProviderJobs, BuildRuntime, Naturals, FiniteSets

CONSTANTS MaxAttempts, RetryRequests

ASSUME AttemptsAssumption == MaxAttempts \in Nat \ {0} /\ 1..MaxAttempts \subseteq Slots

VARIABLES
    attempts, \* the directories: the receipt of each Attempt
    current,  \* the Attempt that status.json of the Run names
    live      \* the Run is not fenced for deletion

retryVars == <<attempts, current, live>>

AttemptNumbers == 1..MaxAttempts
First == [parent |-> 0, request |-> "created"]

RetryInit ==
    /\ attempts = [n \in {1} |-> First]
    /\ current = 1
    /\ live = TRUE

Exists(n) == n \in DOMAIN attempts

------------
\* The current Attempt is executed, as CloudSubmission tells.
SubmitAttempt ==
    /\ live /\ slot[current].entry = "none"
    /\ slot' = Submitted(current, limit)
    /\ UNCHANGED <<pjob, limit, retryVars>>

Fence ==
    /\ live /\ live' = FALSE
    /\ UNCHANGED <<jobVars, attempts, current>>

\* Mutant: the Run goes to the Attempt of the retry that was repeated.
MovedAnyway(n) == n + 1

\* The Run goes from the parent to the next Attempt, or already has.
Moved(n) == IF current = n THEN n + 1 ELSE current

(* retry: the next Attempt is there, and is this request's own. *)
RepeatRetry(n, request) ==
    /\ live /\ Exists(n + 1) /\ attempts[n + 1] = [parent |-> n, request |-> request]
    /\ current' = Moved(n)
    /\ UNCHANGED <<jobVars, attempts, live>>

\* Mutant: the proof of an end is not asked for.
ContinuesCurrent(n) == current = n

(* ... or it is created: for the Attempt the Run names, by a fresh proof;
   the directory is published before status.json is replaced. *)
MayContinue(n) == current = n /\ Proven(n) # "nothing"

Retry(n, request) ==
    /\ live /\ Exists(n) /\ n < MaxAttempts /\ ~Exists(n + 1) /\ MayContinue(n)
    /\ attempts' = [k \in DOMAIN attempts \cup {n + 1} |->
                      IF k = n + 1 THEN [parent |-> n, request |-> request] ELSE attempts[k]]
    /\ current' \in {current, Moved(n)}
    /\ UNCHANGED <<jobVars, live>>

RetryNext ==
    \/ SubmitAttempt \/ Fence
    \/ \E n \in AttemptNumbers, request \in RetryRequests : Retry(n, request) \/ RepeatRetry(n, request)
    \/ \E n \in AttemptNumbers : (Accept(n) \/ EndJob(n)) /\ UNCHANGED retryVars

------------
(* An Attempt continues one whose job has ended: two jobs of a Run never
   work at the same time. *)
OneAttemptAtWork ==
    \A n \in DOMAIN attempts \ {1} : pjob[n - 1] \in Final

(* The Run names its newest Attempt, or the one before it until the retry
   that was interrupted is repeated; it never goes back. *)
RunFollowsAttempts ==
    [][current' >= current /\ {current', current' + 1} \cap DOMAIN attempts' # {}
       /\ \A n \in DOMAIN attempts' : n <= current' + 1]_retryVars

------------
(* The setup of a cloud experiment: one saved preparation that a client
   continues until its Runtime is built, its Run is written and its
   Submission is frozen.  Every look at the saved preparation takes the
   service lock for that look only, so two continues, the build and an
   upgrade of the server come in between.  A Runtime is named by what it
   is built with: the Worker of the server that prepared it. *)
CONSTANTS Workers,  \* the Workers of the servers that may follow each other
          Advancers \* continues that may be handled together

VARIABLES
    worker,    \* the Worker of the server that runs
    setup,     \* the saved preparation
    runtime,   \* the record of each Runtime
    builder,   \* what the builder has done for each
    advancer,  \* the step each continue is at, and what it read
    authored,  \* the Run: what it was written with
    abandoned  \* Runtimes that the preparation has left for another

setupVars == <<worker, setup, runtime, builder, advancer, authored, abandoned>>

NoRun == [exists |-> FALSE]
Waiting == [at |-> "idle"]
NotRecorded == [recorded |-> FALSE, started |-> FALSE, image |-> FALSE, calling |-> "no"]

SetupInit ==
    /\ worker \in Workers
    /\ setup = [exists |-> FALSE, frozen |-> worker, started |-> FALSE, submitted |-> FALSE]
    /\ runtime = [w \in Workers |-> NotRecorded]
    /\ builder = [w \in Workers |-> "none"]
    /\ advancer = [c \in Advancers |-> Waiting]
    /\ authored = NoRun
    /\ abandoned = {}

MoveTo(c, step, saw) == advancer' = [advancer EXCEPT ![c] = [at |-> step, saw |-> saw]]
Answers(c) == advancer' = [advancer EXCEPT ![c] = Waiting]
RetrySafe(w) == ~runtime[w].started /\ runtime[w].calling = "no" /\ ~runtime[w].image

------------
\* experiment_prepare: the Runtime is recorded first, then the preparation.
PrepareSetup ==
    /\ ~setup.exists
    /\ runtime' = [runtime EXCEPT ![worker].recorded = TRUE]
    /\ \/ UNCHANGED setup
       \/ setup' = [setup EXCEPT !.exists = TRUE, !.frozen = worker]
    /\ UNCHANGED <<worker, builder, advancer, authored, abandoned>>

(* follow_current_worker: an identity that names a Worker can only be built
   with it; one that was not built, and has left nothing, moves on. *)
\* Mutant: what this server is not building moves on.
NotCalling(w) == runtime[w].calling = "no"

Unbuilt(w) == ~runtime[w].recorded \/ RetrySafe(w)

Following(s) == IF s.frozen # worker /\ Unbuilt(s.frozen) THEN [s EXCEPT !.frozen = worker] ELSE s

\* Mutant: a preparation that moves on needs no new record.
RecordNeededNow(s) == s.frozen = worker /\ ~runtime[worker].recorded

RecordNeeded(s) == IF s.frozen = worker THEN ~runtime[worker].recorded ELSE Unbuilt(s.frozen)

\* The first look decides only whether a record is needed; it saves nothing.
FirstLook(c) ==
    /\ advancer[c] = Waiting /\ setup.exists /\ ~setup.submitted
    /\ MoveTo(c, IF RecordNeeded(setup) THEN "record" ELSE "second", setup)
    /\ UNCHANGED <<worker, setup, runtime, builder, authored, abandoned>>

RecordRuntime(c) ==
    /\ advancer[c].at \in {"record", "record again"}
    /\ runtime' = [runtime EXCEPT ![worker].recorded = TRUE]
    /\ MoveTo(c, IF advancer[c].at = "record" THEN "second" ELSE "status", advancer[c].saw)
    /\ UNCHANGED <<worker, setup, builder, authored, abandoned>>

SecondLook(c) ==
    LET next == [Following(setup) EXCEPT !.started = TRUE]
    IN /\ advancer[c].at = "second"
       /\ IF setup.submitted
            THEN Answers(c) /\ UNCHANGED <<setup, abandoned>>
            ELSE /\ setup' = next
                 /\ abandoned' = (abandoned \cup ({setup.frozen} \ {next.frozen})) \ {next.frozen}
                 /\ MoveTo(c, IF RecordNeeded(setup) THEN "record again" ELSE "status", next)
       /\ UNCHANGED <<worker, runtime, builder, authored>>

------------
(* The Runtime of the identity that was read: built, or asked about, or
   ready for the Run. *)
SetupStatus(c) ==
    LET w == advancer[c].saw.frozen
    IN /\ advancer[c].at = "status"
       /\ CASE runtime[w].image -> MoveTo(c, "author", advancer[c].saw)
            [] ~runtime[w].image /\ RetrySafe(w) -> MoveTo(c, "execute", advancer[c].saw)
            [] OTHER -> MoveTo(c, "reconcile", advancer[c].saw)
       /\ UNCHANGED <<worker, setup, runtime, builder, authored, abandoned>>

\* execute_runtime marks the record; BuildRuntime tells the rest.
Execute(c) ==
    LET w == advancer[c].saw.frozen
    IN /\ advancer[c].at = "execute" /\ Answers(c)
       /\ runtime' = IF runtime[w].started \/ runtime[w].calling # "no" THEN runtime
                       ELSE [runtime EXCEPT ![w].started = TRUE, ![w].calling = "call"]
       /\ UNCHANGED <<worker, setup, builder, authored, abandoned>>

\* Mutant: a build is sent for whatever was marked.
DispatchedAnyway(w) == TRUE

(* builder_call: a build embeds the Worker of this server only. *)
Dispatched(w) == w = worker

CallBuild(w) ==
    /\ runtime[w].calling = "call"
    /\ \/ /\ Dispatched(w)
          /\ runtime' = [runtime EXCEPT ![w].calling = "sent"]
          /\ builder' = [builder EXCEPT ![w] = IF @ = "image" THEN @ ELSE "working"]
       \/ \* NATIVE_BUILD_NOT_DISPATCHED
          /\ runtime' = [runtime EXCEPT ![w].calling = "no", ![w].started = FALSE]
          /\ UNCHANGED builder
    /\ UNCHANGED <<worker, setup, advancer, authored, abandoned>>

\* The answer is recorded, or is lost, or says nothing.
CallReturns(w) ==
    /\ runtime[w].calling # "no"
    /\ runtime' \in {[runtime EXCEPT ![w].calling = "no"],
                     [runtime EXCEPT ![w].calling = "no", ![w].image = builder[w] = "image"]}
    /\ UNCHANGED <<worker, setup, builder, advancer, authored, abandoned>>

BuilderFinishes(w) ==
    /\ builder[w] = "working"
    /\ builder' \in {[builder EXCEPT ![w] = "image"], [builder EXCEPT ![w] = "none"]}
    /\ UNCHANGED <<worker, setup, runtime, advancer, authored, abandoned>>

\* reconcile_runtime: an image, a proof that nothing was left, or neither.
Reconcile(c) ==
    LET w == advancer[c].saw.frozen
    IN /\ advancer[c].at = "reconcile" /\ Answers(c)
       /\ runtime' \in {runtime} \cup
             (IF runtime[w].calling # "no" \/ ~runtime[w].started \/ builder[w] = "working" THEN {}
              ELSE {[runtime EXCEPT ![w].image = builder[w] = "image",
                                    ![w].started = builder[w] = "image"]})
       /\ UNCHANGED <<worker, setup, builder, authored, abandoned>>

------------
(* author_run: the Run is published whole, once; the same request finds
   it again, another is refused.  A Run keeps what it was written with. *)
AuthorRun(c) ==
    LET run == [exists |-> TRUE, frozen |-> advancer[c].saw.frozen]
    IN /\ advancer[c].at = "author"
       /\ IF authored \in {NoRun, run}
            THEN /\ authored' = run
                 /\ MoveTo(c, "finish", advancer[c].saw)
            ELSE Answers(c) /\ UNCHANGED authored
       /\ UNCHANGED <<worker, setup, runtime, builder, abandoned>>

\* The Action is frozen in its slot (CloudSubmission), then recorded here.
FinishSetup(c) ==
    /\ advancer[c].at = "finish" /\ Answers(c)
    /\ setup' = [setup EXCEPT !.submitted = TRUE]
    /\ UNCHANGED <<worker, runtime, builder, authored, abandoned>>

\* A lock stays busy, a check fails, or the client is gone.
GiveUp(c) ==
    /\ advancer[c] # Waiting /\ Answers(c)
    /\ UNCHANGED <<worker, setup, runtime, builder, authored, abandoned>>

\* The server restarts, with its own Worker or another; the builder goes on.
Upgrade ==
    /\ worker' \in Workers
    /\ advancer' = [c \in Advancers |-> Waiting]
    /\ runtime' = [w \in Workers |-> [runtime[w] EXCEPT !.calling = "no"]]
    /\ UNCHANGED <<setup, builder, authored, abandoned>>

SetupNext ==
    \/ PrepareSetup \/ Upgrade
    \/ \E c \in Advancers :
          \/ FirstLook(c) \/ RecordRuntime(c) \/ SecondLook(c) \/ SetupStatus(c) \/ Execute(c)
          \/ Reconcile(c) \/ AuthorRun(c) \/ FinishSetup(c) \/ GiveUp(c)
    \/ \E w \in Workers : CallBuild(w) \/ CallReturns(w) \/ BuilderFinishes(w)

------------
(* A Runtime that the preparation has left has no builder at work and no
   image: a build is never paid for twice, whatever was upgraded. *)
AbandonedLeftNothing == \A w \in abandoned : builder[w] = "none"

(* The Run is the preparation's: it was written with the Runtime that the
   preparation still names, whose image is there. *)
RunIsThePreparations ==
    authored.exists => authored.frozen = setup.frozen /\ builder[authored.frozen] = "image"

(* A continue that looks at the record of the Runtime always finds one. *)
RuntimeIsRecorded ==
    \A c \in Advancers : advancer[c].at \in {"status", "execute", "reconcile"} =>
        runtime[advancer[c].saw.frozen].recorded

------------
(* The three under one server: a continuation, the build of one Runtime as
   BuildRuntime tells it, and a setup.  They meet nowhere but at the lock. *)
PreparationInit == JobsInit /\ RetryInit /\ BuildInit /\ SetupInit

PreparationNext ==
    \/ RetryNext /\ UNCHANGED <<buildVars, setupVars>>
    \/ BuildNext /\ UNCHANGED <<jobVars, retryVars, setupVars>>
    \/ SetupNext /\ UNCHANGED <<jobVars, retryVars, buildVars>>

PreparationSpec == PreparationInit /\ [][PreparationNext]_<<jobVars, retryVars, buildVars, setupVars>>

(* A Run has one Attempt at work; a preparation or a build that is given
   up or interrupted left nothing that runs, and a Run starts from what
   was prepared for it and built. *)
AttemptsBeginOnce ==
    /\ OneAttemptAtWork
    /\ RetrySafeIsTrue
    /\ AbandonedLeftNothing
    /\ RunIsThePreparations
    /\ RuntimeIsRecorded
=============================================================================

------------------------ MODULE CloudPreparationProofs ------------------------
(* Proofs about what happens before and between the Attempts of a cloud
   Run, for every value of the constants: the builds of its Runtime, its
   retries, its setup, and the uploads and copies of its datasets. *)
EXTENDS CloudPreparation, DatasetStorage, FiniteSetTheorems, TLAPS

------------
(* The build of a Runtime.  What keeps RetrySafeIsTrue: only a call that
   was marked begins a builder, and a proof that nothing was left stays
   true as long as the Runtime is not executed again. *)
Diagnostics == {"none", "BUILD_EXECUTING", "BUILD_RECEIPT_MISSING", "NATIVE_BUILD_NOT_DISPATCHED",
                "uncertain", "failed"}
BuildRecords == [started : BOOLEAN, runtime : BOOLEAN, diagnostic : Diagnostics]
Askings == {NotAsking} \cup [at : {"call"}, saw : BuildRecords]
             \cup [at : {"answer"}, saw : BuildRecords, answer : {"image", "failed", "proof"}]

BuildTypeOK ==
    /\ build \in BuildRecords
    /\ active \in BOOLEAN
    /\ calling \in {"idle", "call", "not_sent", "sent"}
    /\ asking \in [Reconcilers -> Askings]
    /\ workers \in Nat
    /\ misled \in BOOLEAN

\* A call is made by the thread that is active, for a Runtime that is marked.
CallIsMarked ==
    /\ active <=> calling # "idle"
    /\ calling # "idle" => build.started

\* A reconciliation that was not outlived began after the last call ended.
ProofStaysTrue ==
    \A r \in Reconcilers : asking[r] # NotAsking /\ r \notin outlived =>
        /\ calling = "idle"
        /\ asking[r].at = "answer" /\ asking[r].answer = "proof" => workers = 0

NobodyBuildsUnmarked ==
    misled \/ ((~build.started \/ calling \in {"call", "not_sent"}) => workers = 0)

BuildInv == BuildTypeOK /\ CallIsMarked /\ ProofStaysTrue /\ NobodyBuildsUnmarked

BuildRecord(s, r, d) == [started |-> s, runtime |-> r, diagnostic |-> d]

LEMMA BuildRecordFields ==
    \A s, r \in BOOLEAN, d \in Diagnostics :
       /\ BuildRecord(s, r, d) \in BuildRecords
       /\ BuildRecord(s, r, d).started = s /\ BuildRecord(s, r, d).runtime = r
  BY DEF BuildRecord, BuildRecords

LEMMA BuildRecordChanges ==
    ASSUME NEW b \in BuildRecords, NEW s \in BOOLEAN, NEW d \in Diagnostics
    PROVE  /\ [b EXCEPT !.started = s, !.diagnostic = d] = BuildRecord(s, b.runtime, d)
           /\ [b EXCEPT !.diagnostic = d] = BuildRecord(b.started, b.runtime, d)
           /\ b.started \in BOOLEAN /\ b.runtime \in BOOLEAN
  <1>2. \A c \in BuildRecords : [c EXCEPT !.diagnostic = d] = BuildRecord(c.started, c.runtime, d)
    BY DEF BuildRecord, BuildRecords
  <1>3. [b EXCEPT !.started = s] = BuildRecord(s, b.runtime, b.diagnostic) BY DEF BuildRecord, BuildRecords
  <1> DEFINE c == BuildRecord(s, b.runtime, b.diagnostic)
  <1>5. [c EXCEPT !.diagnostic = d] = BuildRecord(s, b.runtime, d) BY <1>2 DEF BuildRecord, BuildRecords
  <1>6. [b EXCEPT !.started = s, !.diagnostic = d] = [c EXCEPT !.diagnostic = d] BY <1>3, Zenon
  <1> QED BY <1>2, <1>5, <1>6 DEF BuildRecords

LEMMA AskingFields ==
    ASSUME BuildTypeOK, NEW r \in Reconcilers, NEW saw \in BuildRecords,
           NEW answer \in {"image", "failed", "proof"}
    PROVE  /\ [at |-> "call", saw |-> saw] \in Askings \ {NotAsking}
           /\ [at |-> "call", saw |-> saw].at = "call"
           /\ [at |-> "answer", saw |-> saw, answer |-> answer] \in Askings \ {NotAsking}
           /\ [at |-> "answer", saw |-> saw, answer |-> answer].answer = answer
           /\ NotAsking \in Askings
           /\ asking[r].at = "call" => asking[r] # NotAsking /\ asking[r].saw \in BuildRecords
           /\ asking[r].at = "answer" =>
                 asking[r] # NotAsking /\ asking[r].answer \in {"image", "failed", "proof"}
  <1>1. NotAsking.at = "idle" BY DEF NotAsking
  <1>3. [at |-> "answer", saw |-> saw, answer |-> answer] \in
          [at : {"answer"}, saw : BuildRecords, answer : {"image", "failed", "proof"}] OBVIOUS
  <1>4. asking[r] \in Askings BY DEF BuildTypeOK
  <1>5. asking[r].at = "call" => asking[r] \in [at : {"call"}, saw : BuildRecords] BY <1>1, <1>4 DEF Askings
  <1>6. asking[r].at = "answer" =>
           asking[r] \in [at : {"answer"}, saw : BuildRecords, answer : {"image", "failed", "proof"}]
    BY <1>1, <1>4 DEF Askings
  <1> QED BY <1>1, <1>3, <1>5, <1>6 DEF Askings

\* What accept_build leaves.
LEMMA AcceptedFields ==
    ASSUME NEW b \in BuildRecords, NEW answer \in {"image", "failed", "proof", "uncertain"}
    PROVE  /\ BuildAccepted(b, answer) \in BuildRecords
           /\ answer = "proof" => ~BuildAccepted(b, answer).started
           /\ answer = "image" => BuildAccepted(b, answer).started
           /\ answer \in {"failed", "uncertain"} => BuildAccepted(b, answer).started = b.started
  <1>1. CASE answer = "image"
    <2> QED BY <1>1, BuildRecordFields DEF Diagnostics, BuildAccepted, BuildRecord
  <1>2. CASE answer = "proof"
    <2>0. "BUILD_RECEIPT_MISSING" \in Diagnostics /\ FALSE \in BOOLEAN BY DEF Diagnostics
    <2>1. BuildAccepted(b, answer) = BuildRecord(FALSE, b.runtime, "BUILD_RECEIPT_MISSING")
      <3>1. BuildAccepted(b, "proof") = [b EXCEPT !.started = FALSE, !.diagnostic = "BUILD_RECEIPT_MISSING"]
        BY Zenon DEF BuildAccepted
      <3>2. @ = BuildRecord(FALSE, b.runtime, "BUILD_RECEIPT_MISSING") BY <2>0, BuildRecordChanges, Zenon
      <3> QED BY <1>2, <3>1, <3>2
    <2>2. b.runtime \in BOOLEAN BY DEF BuildRecords
    <2>3. BuildAccepted(b, answer) \in BuildRecords /\ BuildAccepted(b, answer).started = FALSE
      BY <2>0, <2>1, <2>2, BuildRecordFields
    <2> QED BY <1>2, <2>3
  <1>3. CASE answer \in {"failed", "uncertain"}
    <2>0. answer \in Diagnostics /\ FALSE \in BOOLEAN /\ answer # "image" /\ answer # "proof" BY <1>3 DEF Diagnostics
    <2>1. BuildAccepted(b, answer) = BuildRecord(b.started, b.runtime, answer)
      <3>1. BuildAccepted(b, answer) = [b EXCEPT !.diagnostic = answer] BY <2>0, Zenon DEF BuildAccepted
      <3>2. @ = BuildRecord(b.started, b.runtime, answer) BY <2>0, BuildRecordChanges, Zenon
      <3> QED BY <3>1, <3>2
    <2> QED BY <1>3, <2>0, <2>1, BuildRecordFields DEF BuildRecords
  <1> QED BY <1>1, <1>2, <1>3

LEMMA BuildStarts == BuildInit => BuildInv
  <1> SUFFICES ASSUME BuildInit PROVE BuildInv OBVIOUS
  <1>1. Prepared \in BuildRecords /\ ~Prepared.started BY DEF Prepared, BuildRecords, Diagnostics
  <1> QED BY <1>1 DEF BuildInit, BuildInv, BuildTypeOK, CallIsMarked, ProofStaysTrue, NobodyBuildsUnmarked, Askings

LEMMA CallActions ==
    ASSUME BuildInv, ExecuteRuntime \/ CallBuilder \/ BuilderEnds \/ CallEnds PROVE BuildInv'
  <1> USE DEF BuildInv, BuildTypeOK, CallIsMarked, NobodyBuildsUnmarked, ProofStaysTrue, history
  <1>1. CASE ExecuteRuntime
    <2>1. build' \in BuildRecords /\ build'.started
      <3>1. "BUILD_EXECUTING" \in Diagnostics /\ TRUE \in BOOLEAN BY DEF Diagnostics
      <3>2. build' = BuildRecord(TRUE, build.runtime, "BUILD_EXECUTING")
        BY <1>1, <3>1, BuildRecordChanges, Zenon DEF ExecuteRuntime
      <3> QED BY <3>1, <3>2, BuildRecordFields DEF BuildRecords
    <2>2. misled \/ workers = 0 BY <1>1 DEF ExecuteRuntime
    <2>3. \A r \in Reconcilers : r \notin outlived' => asking'[r] = NotAsking BY <1>1 DEF ExecuteRuntime
    <2> QED BY <1>1, <2>1, <2>2, <2>3 DEF ExecuteRuntime
  <1>2. CASE CallBuilder BY <1>2 DEF CallBuilder
  <1>3. CASE BuilderEnds BY <1>3 DEF BuilderEnds
  <1>4. CASE CallEnds
    <2>1. \/ build' = build
          \/ /\ calling = "sent" /\ build' \in BuildRecords /\ build'.started
          \/ /\ calling = "not_sent" /\ build' \in BuildRecords
      <3>1. CASE UNCHANGED build BY <3>1
      <3>2. ASSUME calling = "sent", NEW answer \in ToldBy, build' = BuildAccepted(build, answer)
            PROVE  build' \in BuildRecords /\ build'.started
        BY <3>2, AcceptedFields DEF ToldBy
      <3>3. CASE /\ calling = "not_sent"
                 /\ build' = [build EXCEPT !.started = FALSE, !.diagnostic = "NATIVE_BUILD_NOT_DISPATCHED"]
        <4>1. "NATIVE_BUILD_NOT_DISPATCHED" \in Diagnostics /\ FALSE \in BOOLEAN BY DEF Diagnostics
        <4>2. build' = BuildRecord(FALSE, build.runtime, "NATIVE_BUILD_NOT_DISPATCHED")
          BY <3>3, <4>1, BuildRecordChanges, Zenon
        <4> QED BY <3>3, <4>1, <4>2, BuildRecordFields DEF BuildRecords
      <3> QED BY <1>4, <3>1, <3>2, <3>3, Zenon DEF CallEnds
    <2> QED BY <1>4, <2>1 DEF CallEnds
  <1> QED BY <1>1, <1>2, <1>3, <1>4

LEMMA ReconcileActions ==
    ASSUME BuildInv, NEW r \in Reconcilers, Ask(r) \/ BuilderSays(r) \/ AcceptAnswer(r) PROVE BuildInv'
  <1> USE DEF BuildInv, BuildTypeOK, CallIsMarked, NobodyBuildsUnmarked, ProofStaysTrue, history
  <1>1. CASE Ask(r)
    <2>1. asking' = [asking EXCEPT ![r] = [at |-> "call", saw |-> build]] /\ [at |-> "call", saw |-> build] \in Askings
          /\ [at |-> "call", saw |-> build].at = "call"
      BY <1>1, AskingFields DEF Ask
    <2>3. asking'[r].at = "call" BY <2>1
    <2>4. \A q \in Reconcilers \ {r} : asking'[q] = asking[q] /\ (q \notin outlived' => q \notin outlived)
      BY <1>1, <2>1 DEF Ask
    <2> QED BY <1>1, <2>1, <2>3, <2>4 DEF Ask
  <1>2. CASE BuilderSays(r)
    <2>1. PICK answer \in Says : asking' = [asking EXCEPT ![r] = [at |-> "answer", saw |-> asking[r].saw, answer |-> answer]]
      BY <1>2 DEF BuilderSays
    <2>2. answer \in {"image", "failed", "proof"} /\ (answer = "proof" => workers = 0) BY <2>1 DEF Says
    <2>3. asking[r] # NotAsking /\ asking[r].saw \in BuildRecords BY <1>2, AskingFields DEF BuilderSays, Says
    <2>4. [at |-> "answer", saw |-> asking[r].saw, answer |-> answer] \in Askings
          /\ [at |-> "answer", saw |-> asking[r].saw, answer |-> answer].answer = answer
      BY <2>2, <2>3, AskingFields
    <2>5. asking' \in [Reconcilers -> Askings] /\ asking'[r].answer = answer
          /\ \A q \in Reconcilers \ {r} : asking'[q] = asking[q]
      BY <2>1, <2>4
    <2> QED BY <1>2, <2>2, <2>3, <2>5 DEF BuilderSays
  <1>3. CASE AcceptAnswer(r)
    <2>1. NotAsking \in Askings /\ asking[r] # NotAsking /\ asking[r].answer \in {"image", "failed", "proof"}
      BY <1>3, AskingFields DEF AcceptAnswer, BuildRecords, Diagnostics
    <2>2. asking' \in [Reconcilers -> Askings] /\ asking'[r] = NotAsking
          /\ \A q \in Reconcilers \ {r} : asking'[q] = asking[q] /\ (q \notin outlived' => q \notin outlived)
      BY <1>3, <2>1 DEF AcceptAnswer
    <2>3. CASE ~StillTheSame(r) BY <1>3, <2>2, <2>3 DEF AcceptAnswer
    <2>4. CASE StillTheSame(r)
      <3>1. calling = "idle" /\ build' = BuildAccepted(build, asking[r].answer) BY <1>3, <2>4 DEF AcceptAnswer, StillTheSame
      <3>3. misled' \/ (~build'.started => workers' = 0)
        <4>1. CASE asking[r].answer = "proof" BY <1>3, <2>1, <2>4, <4>1 DEF AcceptAnswer
        <4>2. CASE asking[r].answer # "proof"
          BY <1>3, <2>1, <3>1, <4>2, AcceptedFields DEF AcceptAnswer
        <4> QED BY <4>1, <4>2
      <3> QED BY <1>3, <2>2, <3>1, <2>1, AcceptedFields, <3>3 DEF AcceptAnswer
    <2> QED BY <2>3, <2>4
  <1> QED BY <1>1, <1>2, <1>3

LEMMA BuildSteps == BuildInv /\ [BuildNext]_buildVars => BuildInv'
  <1> SUFFICES ASSUME BuildInv, [BuildNext]_buildVars PROVE BuildInv' OBVIOUS
  <1>1. CASE ExecuteRuntime \/ CallBuilder \/ BuilderEnds \/ CallEnds BY <1>1, CallActions
  <1>2. CASE RestartServer
    BY <1>2 DEF RestartServer, BuildInv, BuildTypeOK, CallIsMarked, ProofStaysTrue, NobodyBuildsUnmarked, Askings
  <1>3. CASE \E r \in Reconcilers : Ask(r) \/ BuilderSays(r) \/ AcceptAnswer(r) BY <1>3, ReconcileActions
  <1>4. CASE UNCHANGED buildVars
    BY <1>4 DEF buildVars, BuildInv, BuildTypeOK, CallIsMarked, ProofStaysTrue, NobodyBuildsUnmarked
  <1> QED BY <1>1, <1>2, <1>3, <1>4 DEF BuildNext

------------
(* The retries of a Run.  What keeps OneAttemptAtWork: a job that ended
   does not run again. *)
RetryInv ==
    /\ pjob \in [Slots -> {"none", "running"} \cup Final]
    /\ DOMAIN attempts \subseteq AttemptNumbers
    /\ current \in DOMAIN attempts
    /\ \A n \in DOMAIN attempts : n <= current + 1
    /\ OneAttemptAtWork

LEMMA RetryStarts == JobsInit /\ RetryInit => RetryInv
  <1> SUFFICES ASSUME JobsInit, RetryInit PROVE RetryInv OBVIOUS
  <1> QED BY AttemptsAssumption DEF JobsInit, RetryInit, RetryInv, OneAttemptAtWork, AttemptNumbers

LEMMA JobsEnd ==
    ASSUME RetryInv, NEW n \in AttemptNumbers, Accept(n) \/ EndJob(n), UNCHANGED retryVars PROVE RetryInv'
  <1>2. pjob' \in [Slots -> {"none", "running"} \cup Final] /\ \A s \in Slots : pjob[s] \in Final => pjob'[s] \in Final
    BY AttemptsAssumption DEF Accept, EndJob, RetryInv, Final, AttemptNumbers
  <1> QED BY <1>2, AttemptsAssumption DEF RetryInv, OneAttemptAtWork, retryVars, AttemptNumbers

(* The Attempt that a retry adds is the next one of the Run. *)
LEMMA RetryAdds ==
    ASSUME RetryInv, NEW n \in AttemptNumbers, NEW request \in RetryRequests, Retry(n, request)
    PROVE  /\ pjob' = pjob /\ pjob[n] \in Final /\ n = current
           /\ DOMAIN attempts' = DOMAIN attempts \cup {n + 1}
           /\ n + 1 \in AttemptNumbers
           /\ current' \in {current, current + 1}
  BY AttemptsAssumption DEF Retry, MayContinue, Proven, Moved, jobVars, AttemptNumbers, Exists

LEMMA RetrySteps == RetryInv /\ [RetryNext]_<<jobVars, retryVars>> => RetryInv'
  <1> SUFFICES ASSUME RetryInv, [RetryNext]_<<jobVars, retryVars>> PROVE RetryInv' OBVIOUS
  <1>1. CASE SubmitAttempt BY <1>1 DEF SubmitAttempt, RetryInv, OneAttemptAtWork, retryVars
  <1>2. CASE Fence BY <1>2 DEF Fence, RetryInv, OneAttemptAtWork, jobVars
  <1>3. ASSUME NEW n \in AttemptNumbers, NEW request \in RetryRequests, Retry(n, request) PROVE RetryInv'
    <2>0. /\ pjob' = pjob /\ pjob[n] \in Final /\ n = current
          /\ DOMAIN attempts' = DOMAIN attempts \cup {n + 1} /\ n + 1 \in AttemptNumbers
          /\ current' \in {current, current + 1}
      BY <1>3, RetryAdds
    <2>1. \A k \in DOMAIN attempts' : k <= current' + 1 /\ k \in AttemptNumbers
      BY <2>0, AttemptsAssumption DEF RetryInv, AttemptNumbers
    <2>2. \A k \in DOMAIN attempts' \ {1} : pjob'[k - 1] \in Final
      BY <2>0, AttemptsAssumption DEF RetryInv, AttemptNumbers, OneAttemptAtWork
    <2> QED BY <1>3, <2>1, <2>2, RetryAdds DEF RetryInv, OneAttemptAtWork
  <1>4. ASSUME NEW n \in AttemptNumbers, NEW request \in RetryRequests, RepeatRetry(n, request) PROVE RetryInv'
    BY <1>4, AttemptsAssumption DEF RepeatRetry, Moved, Exists, RetryInv, OneAttemptAtWork, jobVars, AttemptNumbers
  <1>5. ASSUME NEW n \in AttemptNumbers, Accept(n) \/ EndJob(n), UNCHANGED retryVars PROVE RetryInv'
    BY <1>5, JobsEnd
  <1>6. CASE UNCHANGED <<jobVars, retryVars>> BY <1>6 DEF RetryInv, OneAttemptAtWork, jobVars, retryVars
  <1> QED BY <1>1, <1>2, <1>3, <1>4, <1>5, <1>6 DEF RetryNext

------------
(* A setup.  What keeps its invariants: a Runtime is marked before it is
   built and recorded before it is marked; what a continue read is what
   the preparation still names, or names a Worker that this server is not. *)
SetupRecords == [exists : BOOLEAN, frozen : Workers, started : BOOLEAN, submitted : BOOLEAN]
RuntimeRecords == [recorded : BOOLEAN, started : BOOLEAN, image : BOOLEAN, calling : {"no", "call", "sent"}]
AdvancerSteps == {"record", "second", "record again", "status", "execute", "reconcile", "author", "finish"}
AdvancerStates == {Waiting} \cup [at : AdvancerSteps, saw : SetupRecords]

SetupTypeOK ==
    /\ worker \in Workers
    /\ setup \in SetupRecords
    /\ runtime \in [Workers -> RuntimeRecords]
    /\ builder \in [Workers -> {"none", "working", "image"}]
    /\ advancer \in [Advancers -> AdvancerStates]
    /\ authored \in {NoRun} \cup [exists : {TRUE}, frozen : Workers]
    /\ abandoned \subseteq Workers

\* What is recorded of a Runtime explains what the builder has done for it.
RuntimeExplains(w) ==
    /\ runtime[w].started => runtime[w].recorded
    /\ runtime[w].calling # "no" => runtime[w].started
    /\ builder[w] # "none" => runtime[w].started
    /\ runtime[w].calling = "call" => builder[w] = "none"
    /\ runtime[w].image => builder[w] = "image"

\* Only the Runtime that is named, or one that this server cannot build, is called for.
CallIsNamed(w) == runtime[w].calling = "call" => w = setup.frozen \/ w # worker

BeginsWithPreparation ==
    ~setup.exists => authored = NoRun /\ abandoned = {} /\ \A c \in Advancers : advancer[c] = Waiting

\* What a continue has read of the preparation, at the step it is at.
FollowsPreparation(a) ==
    /\ a.at = "record again" => a.saw.frozen = worker
    /\ a.at \in {"record again", "status", "execute", "reconcile"} =>
          a.saw.frozen = setup.frozen \/ a.saw.frozen \in abandoned \ {worker}
    /\ a.at \in {"status", "execute", "reconcile"} => runtime[a.saw.frozen].recorded
    /\ a.at \in {"author", "finish"} => a.saw.frozen = setup.frozen /\ runtime[a.saw.frozen].image

AbandonedIsOther == setup.frozen \notin abandoned /\ AbandonedLeftNothing
RunIsBuilt == authored # NoRun => authored.frozen = setup.frozen /\ runtime[setup.frozen].image

SetupInv ==
    /\ SetupTypeOK
    /\ \A w \in Workers : RuntimeExplains(w) /\ CallIsNamed(w)
    /\ BeginsWithPreparation
    /\ \A c \in Advancers : FollowsPreparation(advancer[c])
    /\ AbandonedIsOther
    /\ RunIsBuilt

RuntimeRecord(r, s, i, c) == [recorded |-> r, started |-> s, image |-> i, calling |-> c]

LEMMA RuntimeFields ==
    ASSUME NEW x \in RuntimeRecords
    PROVE  /\ x.recorded \in BOOLEAN /\ x.started \in BOOLEAN /\ x.image \in BOOLEAN
           /\ x.calling \in {"no", "call", "sent"}
  BY DEF RuntimeRecords

LEMMA RuntimeRecordFields ==
    ASSUME NEW r \in BOOLEAN, NEW s \in BOOLEAN, NEW i \in BOOLEAN, NEW c \in {"no", "call", "sent"}
    PROVE  /\ RuntimeRecord(r, s, i, c) \in RuntimeRecords
           /\ RuntimeRecord(r, s, i, c).recorded = r /\ RuntimeRecord(r, s, i, c).started = s
           /\ RuntimeRecord(r, s, i, c).image = i /\ RuntimeRecord(r, s, i, c).calling = c
  BY DEF RuntimeRecord, RuntimeRecords

LEMMA RecordedChanges ==
    \A y \in RuntimeRecords, b \in BOOLEAN : [y EXCEPT !.recorded = b] = RuntimeRecord(b, y.started, y.image, y.calling)
  BY DEF RuntimeRecord, RuntimeRecords

LEMMA StartedChanges ==
    \A y \in RuntimeRecords, s \in BOOLEAN : [y EXCEPT !.started = s] = RuntimeRecord(y.recorded, s, y.image, y.calling)
  BY DEF RuntimeRecord, RuntimeRecords

LEMMA ImageChanges ==
    \A y \in RuntimeRecords, b \in BOOLEAN : [y EXCEPT !.image = b] = RuntimeRecord(y.recorded, y.started, b, y.calling)
  BY DEF RuntimeRecord, RuntimeRecords

LEMMA CallingChanges ==
    \A y \in RuntimeRecords, c \in {"no", "call", "sent"} : [y EXCEPT !.calling = c] = RuntimeRecord(y.recorded, y.started, y.image, c)
  BY DEF RuntimeRecord, RuntimeRecords

\* What a start writes of the record of a Runtime, and, below, what a refusal, a
\* return and a reconciliation write.
Begun(f, w, s, c) == [f EXCEPT ![w].started = s, ![w].calling = c]

LEMMA BuildBegins ==
    ASSUME NEW f \in [Workers -> RuntimeRecords], NEW w \in Workers, NEW s \in BOOLEAN, NEW c \in {"no", "call", "sent"}
    PROVE  Begun(f, w, s, c) = [f EXCEPT ![w] = RuntimeRecord(f[w].recorded, s, f[w].image, c)]
  <1> DEFINE y == f[w]
             z == RuntimeRecord(y.recorded, s, y.image, y.calling)
  <1>1. y \in RuntimeRecords OBVIOUS
  <1> HIDE DEF y
  <1>2. z \in RuntimeRecords /\ z.recorded = y.recorded /\ z.started = s /\ z.image = y.image
    BY <1>1 DEF RuntimeRecords, RuntimeRecord
  <1>3. [y EXCEPT !.started = s] = z BY <1>1, StartedChanges, Zenon
  <1> HIDE DEF z
  <1>4. [z EXCEPT !.calling = c] = RuntimeRecord(z.recorded, z.started, z.image, c) BY <1>2, CallingChanges, Zenon
  <1>5. [y EXCEPT !.started = s, !.calling = c] = RuntimeRecord(y.recorded, s, y.image, c) BY <1>2, <1>3, <1>4, Zenon
  <1>6. [f EXCEPT ![w].started = s, ![w].calling = c] = [f EXCEPT ![w] = [y EXCEPT !.started = s, !.calling = c]]
    BY Zenon DEF y
  <1> QED BY <1>5, <1>6, Zenon DEF y, Begun

Refused(f, w, c, s) == [f EXCEPT ![w].calling = c, ![w].started = s]

LEMMA BuildIsRefused ==
    ASSUME NEW f \in [Workers -> RuntimeRecords], NEW w \in Workers, NEW c \in {"no", "call", "sent"}, NEW s \in BOOLEAN
    PROVE  Refused(f, w, c, s) = [f EXCEPT ![w] = RuntimeRecord(f[w].recorded, s, f[w].image, c)]
  <1> DEFINE y == f[w]
             z == RuntimeRecord(y.recorded, y.started, y.image, c)
  <1>1. y \in RuntimeRecords OBVIOUS
  <1> HIDE DEF y
  <1>2. z \in RuntimeRecords /\ z.recorded = y.recorded /\ z.image = y.image /\ z.calling = c
    BY <1>1 DEF RuntimeRecords, RuntimeRecord
  <1>3. [y EXCEPT !.calling = c] = z BY <1>1, CallingChanges, Zenon
  <1> HIDE DEF z
  <1>4. [z EXCEPT !.started = s] = RuntimeRecord(z.recorded, s, z.image, z.calling) BY <1>2, StartedChanges, Zenon
  <1>5. [y EXCEPT !.calling = c, !.started = s] = RuntimeRecord(y.recorded, s, y.image, c) BY <1>2, <1>3, <1>4, Zenon
  <1>6. [f EXCEPT ![w].calling = c, ![w].started = s] = [f EXCEPT ![w] = [y EXCEPT !.calling = c, !.started = s]]
    BY Zenon DEF y
  <1> QED BY <1>5, <1>6, Zenon DEF y, Refused

Returned(f, w, c, b) == [f EXCEPT ![w].calling = c, ![w].image = b]

LEMMA BuildReturns ==
    ASSUME NEW f \in [Workers -> RuntimeRecords], NEW w \in Workers, NEW c \in {"no", "call", "sent"}, NEW b \in BOOLEAN
    PROVE  Returned(f, w, c, b) = [f EXCEPT ![w] = RuntimeRecord(f[w].recorded, f[w].started, b, c)]
  <1> DEFINE y == f[w]
             z == RuntimeRecord(y.recorded, y.started, y.image, c)
  <1>1. y \in RuntimeRecords OBVIOUS
  <1> HIDE DEF y
  <1>2. z \in RuntimeRecords /\ z.recorded = y.recorded /\ z.started = y.started /\ z.calling = c
    BY <1>1 DEF RuntimeRecords, RuntimeRecord
  <1>3. [y EXCEPT !.calling = c] = z BY <1>1, CallingChanges, Zenon
  <1> HIDE DEF z
  <1>4. [z EXCEPT !.image = b] = RuntimeRecord(z.recorded, z.started, b, z.calling) BY <1>2, ImageChanges, Zenon
  <1>5. [y EXCEPT !.calling = c, !.image = b] = RuntimeRecord(y.recorded, y.started, b, c) BY <1>2, <1>3, <1>4, Zenon
  <1>6. [f EXCEPT ![w].calling = c, ![w].image = b] = [f EXCEPT ![w] = [y EXCEPT !.calling = c, !.image = b]]
    BY Zenon DEF y
  <1> QED BY <1>5, <1>6, Zenon DEF y, Returned

Reconciled(f, w, b, s) == [f EXCEPT ![w].image = b, ![w].started = s]

LEMMA BuildIsReconciled ==
    ASSUME NEW f \in [Workers -> RuntimeRecords], NEW w \in Workers, NEW b \in BOOLEAN, NEW s \in BOOLEAN
    PROVE  Reconciled(f, w, b, s) = [f EXCEPT ![w] = RuntimeRecord(f[w].recorded, s, b, f[w].calling)]
  <1> DEFINE y == f[w]
             z == RuntimeRecord(y.recorded, y.started, b, y.calling)
  <1>1. y \in RuntimeRecords OBVIOUS
  <1> HIDE DEF y
  <1>2. z \in RuntimeRecords /\ z.recorded = y.recorded /\ z.image = b /\ z.calling = y.calling
    BY <1>1 DEF RuntimeRecords, RuntimeRecord
  <1>3. [y EXCEPT !.image = b] = z BY <1>1, ImageChanges, Zenon
  <1> HIDE DEF z
  <1>4. [z EXCEPT !.started = s] = RuntimeRecord(z.recorded, s, z.image, z.calling) BY <1>2, StartedChanges, Zenon
  <1>5. [y EXCEPT !.image = b, !.started = s] = RuntimeRecord(y.recorded, s, b, y.calling) BY <1>2, <1>3, <1>4, Zenon
  <1>6. [f EXCEPT ![w].image = b, ![w].started = s] = [f EXCEPT ![w] = [y EXCEPT !.image = b, !.started = s]]
    BY Zenon DEF y
  <1> QED BY <1>5, <1>6, Zenon DEF y, Reconciled

LEMMA RecordIsMade ==
    ASSUME NEW f \in [Workers -> RuntimeRecords], NEW w \in Workers, NEW b \in BOOLEAN
    PROVE  [f EXCEPT ![w].recorded = b] = [f EXCEPT ![w] = RuntimeRecord(b, f[w].started, f[w].image, f[w].calling)]
  <1>1. f[w] \in RuntimeRecords OBVIOUS
  <1>2. [f[w] EXCEPT !.recorded = b] = RuntimeRecord(b, f[w].started, f[w].image, f[w].calling) BY <1>1, RecordedChanges, Zenon
  <1> QED BY <1>2, Zenon

LEMMA BuildCallMoves ==
    ASSUME NEW f \in [Workers -> RuntimeRecords], NEW w \in Workers, NEW c \in {"no", "call", "sent"}
    PROVE  [f EXCEPT ![w].calling = c] = [f EXCEPT ![w] = RuntimeRecord(f[w].recorded, f[w].started, f[w].image, c)]
  <1>1. f[w] \in RuntimeRecords OBVIOUS
  <1>2. [f[w] EXCEPT !.calling = c] = RuntimeRecord(f[w].recorded, f[w].started, f[w].image, c) BY <1>1, CallingChanges, Zenon
  <1> QED BY <1>2, Zenon

SetupRecord(e, f, s, u) == [exists |-> e, frozen |-> f, started |-> s, submitted |-> u]

LEMMA SetupRecordChanges ==
    ASSUME NEW x \in SetupRecords, NEW f \in Workers
    PROVE  /\ [x EXCEPT !.frozen = f] \in SetupRecords
           /\ [x EXCEPT !.frozen = f].frozen = f /\ [x EXCEPT !.frozen = f].exists = x.exists
           /\ [x EXCEPT !.started = TRUE] \in SetupRecords
           /\ [x EXCEPT !.started = TRUE].frozen = x.frozen /\ [x EXCEPT !.started = TRUE].exists = x.exists
           /\ [x EXCEPT !.submitted = TRUE] \in SetupRecords
           /\ [x EXCEPT !.submitted = TRUE].frozen = x.frozen /\ [x EXCEPT !.submitted = TRUE].exists = x.exists
           /\ [x EXCEPT !.exists = TRUE, !.frozen = f] \in SetupRecords
           /\ [x EXCEPT !.exists = TRUE, !.frozen = f].frozen = f
           /\ [x EXCEPT !.exists = TRUE, !.frozen = f].exists = TRUE
  <1>1. \A y \in SetupRecords : [y EXCEPT !.frozen = f] = SetupRecord(y.exists, f, y.started, y.submitted)
    BY DEF SetupRecord, SetupRecords
  <1>0. TRUE \in BOOLEAN OBVIOUS
  <1>a. \A b \in BOOLEAN : /\ [x EXCEPT !.started = b] = SetupRecord(x.exists, x.frozen, b, x.submitted)
                          /\ [x EXCEPT !.submitted = b] = SetupRecord(x.exists, x.frozen, x.started, b)
                          /\ [x EXCEPT !.exists = b] = SetupRecord(b, x.frozen, x.started, x.submitted)
    BY DEF SetupRecord, SetupRecords
  <1>2. [x EXCEPT !.started = TRUE] = SetupRecord(x.exists, x.frozen, TRUE, x.submitted) BY <1>0, <1>a, Zenon
  <1>3. [x EXCEPT !.submitted = TRUE] = SetupRecord(x.exists, x.frozen, x.started, TRUE) BY <1>0, <1>a, Zenon
  <1>4. [x EXCEPT !.exists = TRUE] = SetupRecord(TRUE, x.frozen, x.started, x.submitted) BY <1>0, <1>a, Zenon
  <1>5. /\ x.exists \in BOOLEAN /\ x.frozen \in Workers /\ x.started \in BOOLEAN /\ x.submitted \in BOOLEAN
    BY DEF SetupRecords
  <1> DEFINE y == SetupRecord(TRUE, x.frozen, x.started, x.submitted)
  <1>7. y \in SetupRecords /\ y.exists = TRUE /\ y.started = x.started /\ y.submitted = x.submitted
    BY <1>5 DEF SetupRecord, SetupRecords
  <1> HIDE DEF y
  <1>8. [x EXCEPT !.exists = TRUE, !.frozen = f] = [y EXCEPT !.frozen = f] BY <1>4, Zenon DEF y
  <1>9. @ = SetupRecord(TRUE, f, x.started, x.submitted) BY <1>1, <1>7, Zenon
  <1>10. [x EXCEPT !.frozen = f] = SetupRecord(x.exists, f, x.started, x.submitted) BY <1>1, Zenon
  <1>11. \A z : z = SetupRecord(x.exists, f, x.started, x.submitted) =>
                 z \in SetupRecords /\ z.frozen = f /\ z.exists = x.exists
    BY <1>5 DEF SetupRecord, SetupRecords
  <1>12. /\ \A z, u : u \in BOOLEAN /\ z = SetupRecord(x.exists, x.frozen, u, x.submitted) =>
                    z \in SetupRecords /\ z.frozen = x.frozen /\ z.exists = x.exists
         /\ \A z, u : u \in BOOLEAN /\ z = SetupRecord(x.exists, x.frozen, x.started, u) =>
                    z \in SetupRecords /\ z.frozen = x.frozen /\ z.exists = x.exists
    BY <1>5 DEF SetupRecord, SetupRecords
  <1>13. \A z : z = SetupRecord(TRUE, f, x.started, x.submitted) =>
                 z \in SetupRecords /\ z.frozen = f /\ z.exists = TRUE
    BY <1>5 DEF SetupRecord, SetupRecords
  <1> QED BY <1>0, <1>2, <1>3, <1>8, <1>9, <1>10, <1>11, <1>12, <1>13, ZenonT(30)

LEMMA SetupBegins ==
    ASSUME NEW x \in SetupRecords, NEW f \in Workers
    PROVE  LET z == [x EXCEPT !.exists = TRUE, !.frozen = f] IN z \in SetupRecords /\ z.frozen = f /\ z.exists
  <1> DEFINE z == [x EXCEPT !.exists = TRUE, !.frozen = f]
  <1>1. z \in SetupRecords /\ z.frozen = f /\ z.exists = TRUE BY SetupRecordChanges, Zenon
  <1> QED BY <1>1, Zenon

LEMMA StepFields ==
    ASSUME NEW step \in AdvancerSteps, NEW saw \in SetupRecords
    PROVE  /\ Waiting \in AdvancerStates
           /\ [at |-> step, saw |-> saw] \in AdvancerStates
           /\ [at |-> step, saw |-> saw].at = step /\ [at |-> step, saw |-> saw].saw = saw
  <1> QED BY DEF AdvancerStates

LEMMA AdvancerFields ==
    ASSUME SetupTypeOK, NEW c \in Advancers
    PROVE  /\ advancer[c].at \in AdvancerSteps => advancer[c] # Waiting
           /\ advancer[c] # Waiting => /\ advancer[c].at \in AdvancerSteps
                                       /\ advancer[c].saw \in SetupRecords /\ advancer[c].saw.frozen \in Workers
  <1>1. Waiting.at = "idle" /\ "idle" \notin AdvancerSteps BY DEF Waiting, AdvancerSteps
  <1>3. advancer[c] # Waiting => advancer[c] \in [at : AdvancerSteps, saw : SetupRecords]
    BY DEF AdvancerStates, SetupTypeOK
  <1>4. \A x \in SetupRecords : x.frozen \in Workers BY DEF SetupRecords
  <1> QED BY <1>1, <1>3, <1>4

LEMMA WaitingFollows == FollowsPreparation(Waiting) /\ FollowsPreparation(Waiting)'
  <1> QED BY DEF FollowsPreparation, Waiting

\* Only the records of the Runtimes, the builder and the continues move.
LEMMA RuntimeGoes ==
    ASSUME SetupInv, NEW w \in Workers, NEW x \in RuntimeRecords, NEW b \in {"none", "working", "image"},
           runtime' = [runtime EXCEPT ![w] = x], builder' = [builder EXCEPT ![w] = b],
           UNCHANGED <<worker, setup, authored, abandoned>>,
           advancer' \in [Advancers -> AdvancerStates],
           \A c \in Advancers : \/ advancer'[c] = advancer[c] \/ advancer'[c] = Waiting
                                \/ setup.exists /\ FollowsPreparation(advancer[c])',
           /\ x.started => x.recorded
           /\ x.calling # "no" => x.started
           /\ b # "none" => x.started
           /\ x.calling = "call" => b = "none" /\ (w = setup.frozen \/ w # worker)
           /\ x.image => b = "image",
           /\ runtime[w].recorded => x.recorded
           /\ runtime[w].image => x.image,
           w \in abandoned => b = "none"
    PROVE  SetupInv'
  <1>1. /\ runtime'[w] = x /\ builder'[w] = b
        /\ \A v \in Workers \ {w} : runtime'[v] = runtime[v] /\ builder'[v] = builder[v]
        /\ runtime' \in [Workers -> RuntimeRecords] /\ builder' \in [Workers -> {"none", "working", "image"}]
    BY DEF SetupInv, SetupTypeOK
  <1>2. \A v \in Workers : (runtime[v].recorded => runtime'[v].recorded) /\ (runtime[v].image => runtime'[v].image)
    BY <1>1
  <1>3. SetupTypeOK' BY <1>1 DEF SetupInv, SetupTypeOK
  <1>4. \A v \in Workers : (RuntimeExplains(v) /\ CallIsNamed(v))' BY <1>1 DEF SetupInv, RuntimeExplains, CallIsNamed
  <1>6. ASSUME NEW c \in Advancers PROVE FollowsPreparation(advancer[c])'
    <2>1. CASE advancer'[c] = advancer[c] /\ advancer[c] # Waiting
      <3>2. FollowsPreparation(advancer[c]) BY DEF SetupInv
      <3> QED BY <1>2, <2>1, AdvancerFields, <3>2 DEF FollowsPreparation, SetupInv, AdvancerSteps
    <2>2. CASE advancer'[c] = Waiting BY <2>2, WaitingFollows
    <2> QED BY <2>1, <2>2
  <1>7. AbandonedIsOther' BY <1>1 DEF SetupInv, AbandonedIsOther, AbandonedLeftNothing, SetupTypeOK
  <1>8. RunIsBuilt'
    <2> QED BY <1>2 DEF SetupInv, RunIsBuilt, SetupTypeOK, SetupRecords
  <1> QED BY <1>3, <1>4, <1>6, <1>7, <1>8 DEF SetupInv, BeginsWithPreparation

\* Only one continue moves.
LEMMA AdvancerGoes ==
    ASSUME SetupInv, NEW c \in Advancers, NEW x \in AdvancerStates,
           advancer' = [advancer EXCEPT ![c] = x], UNCHANGED <<worker, setup, runtime, builder, authored, abandoned>>,
           x = Waiting \/ (setup.exists /\ FollowsPreparation(x))
    PROVE  SetupInv'
  <1>1. advancer' \in [Advancers -> AdvancerStates] /\ advancer'[c] = x
        /\ \A d \in Advancers \ {c} : advancer'[d] = advancer[d]
    BY DEF SetupInv, SetupTypeOK
  <1>2. \A d \in Advancers : FollowsPreparation(advancer[d])'
    BY <1>1, WaitingFollows DEF SetupInv, FollowsPreparation
  <1>3. BeginsWithPreparation' BY <1>1 DEF SetupInv, BeginsWithPreparation
  <1> QED BY <1>1, <1>2, <1>3
          DEF SetupInv, SetupTypeOK, RuntimeExplains, CallIsNamed, AbandonedIsOther, AbandonedLeftNothing, RunIsBuilt

LEMMA SetupStarts == SetupInit => SetupInv
  <1> SUFFICES ASSUME SetupInit PROVE SetupInv OBVIOUS
  <1>1. /\ NotRecorded \in RuntimeRecords /\ NotRecorded.recorded = FALSE /\ NotRecorded.started = FALSE
        /\ NotRecorded.image = FALSE /\ NotRecorded.calling = "no"
    BY DEF NotRecorded, RuntimeRecords
  <1>2. worker \in Workers /\ setup = SetupRecord(FALSE, worker, FALSE, FALSE) BY DEF SetupInit, SetupRecord
  <1>4. \A c \in Advancers : advancer[c] = Waiting BY DEF SetupInit
  <1>5. SetupTypeOK BY <1>1, <1>2 DEF SetupInit, SetupTypeOK, AdvancerStates, SetupRecord, SetupRecords
  <1>6. \A w \in Workers : RuntimeExplains(w) /\ CallIsNamed(w) BY <1>1 DEF SetupInit, RuntimeExplains, CallIsNamed
  <1>7. BeginsWithPreparation /\ RunIsBuilt /\ AbandonedIsOther
    BY <1>4 DEF SetupInit, BeginsWithPreparation, RunIsBuilt, AbandonedIsOther, AbandonedLeftNothing
  <1> QED BY <1>5, <1>6, <1>7, <1>4, WaitingFollows DEF SetupInv

\* Both kinds of step that a continue takes by itself.
LEMMA StepGoes ==
    ASSUME SetupInv, NEW c \in Advancers, NEW step \in AdvancerSteps, NEW saw \in SetupRecords,
           MoveTo(c, step, saw), UNCHANGED <<worker, setup, runtime, builder, authored, abandoned>>,
           setup.exists,
           step = "record again" => saw.frozen = worker,
           step \in {"record again", "status", "execute", "reconcile"} =>
              saw.frozen = setup.frozen \/ saw.frozen \in abandoned \ {worker},
           step \in {"status", "execute", "reconcile"} => runtime[saw.frozen].recorded,
           step \in {"author", "finish"} => saw.frozen = setup.frozen /\ runtime[saw.frozen].image
    PROVE  SetupInv'
  <1> DEFINE x == [at |-> step, saw |-> saw]
  <1>1. x \in AdvancerStates /\ x.at = step /\ x.saw = saw BY StepFields
  <1>2. advancer' = [advancer EXCEPT ![c] = x] BY DEF MoveTo
  <1> HIDE DEF x
  <1>3. FollowsPreparation(x) BY <1>1 DEF FollowsPreparation
  <1> QED BY <1>1, <1>2, <1>3, AdvancerGoes

LEMMA AnswerGoes ==
    ASSUME SetupInv, NEW c \in Advancers, Answers(c), UNCHANGED <<worker, setup, runtime, builder, authored, abandoned>>
    PROVE  SetupInv'
  <1> QED BY AdvancerGoes DEF Answers, AdvancerStates

LEMMA LookActions ==
    ASSUME SetupInv, NEW c \in Advancers, FirstLook(c) \/ SetupStatus(c) \/ GiveUp(c) PROVE SetupInv'
  <1>1. CASE FirstLook(c)
    <2>1. setup \in SetupRecords /\ setup.exists BY <1>1 DEF FirstLook, SetupInv, SetupTypeOK
    <2>3. UNCHANGED <<worker, setup, runtime, builder, authored, abandoned>> BY <1>1 DEF FirstLook
    <2>4. CASE MoveTo(c, "record", setup) BY <2>1, <2>3, <2>4, StepGoes DEF AdvancerSteps
    <2>5. CASE MoveTo(c, "second", setup) BY <2>1, <2>3, <2>5, StepGoes DEF AdvancerSteps
    <2> QED BY <1>1, <2>4, <2>5 DEF FirstLook
  <1>2. CASE SetupStatus(c)
    <2> DEFINE saw == advancer[c].saw
               w == saw.frozen
    <2>1. advancer[c] # Waiting /\ saw \in SetupRecords /\ w \in Workers /\ advancer[c].at = "status"
      BY <1>2, AdvancerFields DEF SetupStatus, SetupInv, AdvancerSteps
    <2>2. setup.exists BY <2>1 DEF SetupInv, BeginsWithPreparation
    <2>3. UNCHANGED <<worker, setup, runtime, builder, authored, abandoned>> BY <1>2 DEF SetupStatus
    <2>4. (w = setup.frozen \/ w \in abandoned \ {worker}) /\ runtime[w].recorded BY <2>1 DEF SetupInv, FollowsPreparation
    <2>5. \/ runtime[w].image /\ MoveTo(c, "author", saw)
          \/ MoveTo(c, "execute", saw) \/ MoveTo(c, "reconcile", saw)
      BY <1>2 DEF SetupStatus
    <2>6. runtime[w].image => w = setup.frozen
      BY <2>1, <2>4 DEF SetupInv, AbandonedIsOther, AbandonedLeftNothing, RuntimeExplains
    <2>7. {"author", "execute", "reconcile"} \subseteq AdvancerSteps BY DEF AdvancerSteps
    <2> HIDE DEF saw, w
    <2>8. CASE runtime[w].image /\ MoveTo(c, "author", saw)
      <3>1. "author" \notin {"record again", "status", "execute", "reconcile"} OBVIOUS
      <3> QED BY <2>1, <2>2, <2>3, <2>6, <2>7, <2>8, <3>1, StepGoes DEF w
    <2>9. ASSUME NEW step \in {"execute", "reconcile"}, MoveTo(c, step, saw) PROVE SetupInv'
      <3>1. step \in AdvancerSteps /\ step \notin {"record again", "author", "finish"} BY <2>7
      <3> QED BY <2>1, <2>2, <2>3, <2>4, <2>9, <3>1, StepGoes DEF w
    <2> QED BY <2>5, <2>8, <2>9
  <1>3. CASE GiveUp(c) BY <1>3, AnswerGoes DEF GiveUp
  <1> QED BY <1>1, <1>2, <1>3

\* What every step of a Runtime starts from.
LEMMA RuntimeIsTyped ==
    ASSUME SetupInv, NEW w \in Workers
    PROVE  /\ runtime[w] \in RuntimeRecords /\ builder[w] \in {"none", "working", "image"}
           /\ runtime[w].recorded \in BOOLEAN /\ runtime[w].started \in BOOLEAN /\ runtime[w].image \in BOOLEAN
           /\ runtime[w].calling \in {"no", "call", "sent"}
           /\ RuntimeExplains(w) /\ CallIsNamed(w)
           /\ w \in abandoned => builder[w] = "none" /\ w # setup.frozen
           /\ advancer \in [Advancers -> AdvancerStates]
           /\ builder = [builder EXCEPT ![w] = builder[w]]
  <1> QED BY RuntimeFields DEF SetupInv, SetupTypeOK, AbandonedIsOther, AbandonedLeftNothing

\* The same, for a Runtime of which only the record changes.
LEMMA RecordGoes ==
    ASSUME SetupInv, NEW w \in Workers,
           NEW r \in BOOLEAN, NEW s \in BOOLEAN, NEW i \in BOOLEAN, NEW c \in {"no", "call", "sent"},
           NEW b \in {"none", "working", "image"},
           runtime' = [runtime EXCEPT ![w] = RuntimeRecord(r, s, i, c)], builder' = [builder EXCEPT ![w] = b],
           UNCHANGED <<worker, setup, authored, abandoned>>,
           advancer' \in [Advancers -> AdvancerStates],
           \A d \in Advancers : \/ advancer'[d] = advancer[d] \/ advancer'[d] = Waiting
                                \/ setup.exists /\ FollowsPreparation(advancer[d])',
           /\ s => r
           /\ c # "no" => s
           /\ b # "none" => s
           /\ c = "call" => b = "none" /\ (w = setup.frozen \/ w # worker)
           /\ i => b = "image",
           /\ runtime[w].recorded => r
           /\ runtime[w].image => i,
           w \in abandoned => b = "none"
    PROVE  SetupInv'
  <1> DEFINE x == RuntimeRecord(r, s, i, c)
  <1>1. x \in RuntimeRecords /\ x.recorded = r /\ x.started = s /\ x.image = i /\ x.calling = c
    BY RuntimeRecordFields
  <1>2. runtime' = [runtime EXCEPT ![w] = x] OBVIOUS
  <1> HIDE DEF x
  <1>3. /\ x.started => x.recorded
        /\ x.calling # "no" => x.started
        /\ b # "none" => x.started
        /\ x.calling = "call" => b = "none" /\ (w = setup.frozen \/ w # worker)
        /\ x.image => b = "image"
        /\ runtime[w].recorded => x.recorded
        /\ runtime[w].image => x.image
    BY <1>1
  <1> QED BY <1>1, <1>2, <1>3, RuntimeGoes

LEMMA RecordRuntimeKeeps == ASSUME SetupInv, NEW c \in Advancers, RecordRuntime(c) PROVE SetupInv'
  <1> DEFINE saw == advancer[c].saw
             x == runtime[worker]
  <1>1. PICK step \in {"second", "status"} : /\ MoveTo(c, step, saw)
                                             /\ advancer[c].at = IF step = "second" THEN "record" ELSE "record again"
    BY DEF RecordRuntime
  <1>2. /\ worker \in Workers /\ advancer[c] # Waiting /\ saw \in SetupRecords /\ saw.frozen \in Workers
        /\ step \in AdvancerSteps
    BY <1>1, AdvancerFields DEF SetupInv, SetupTypeOK, AdvancerSteps
  <1>4. step = "status" => saw.frozen = worker /\ saw.frozen = setup.frozen
    BY <1>1 DEF SetupInv, FollowsPreparation
  <1>5. /\ UNCHANGED <<worker, setup, builder, authored, abandoned>>
        /\ runtime' = [runtime EXCEPT ![worker] = RuntimeRecord(TRUE, x.started, x.image, x.calling)]
    <2>1. runtime' = [runtime EXCEPT ![worker].recorded = TRUE] BY DEF RecordRuntime
    <2>2. TRUE \in BOOLEAN /\ runtime \in [Workers -> RuntimeRecords] BY DEF SetupInv, SetupTypeOK
    <2>3. runtime' = [runtime EXCEPT ![worker] = RuntimeRecord(TRUE, x.started, x.image, x.calling)]
      BY <1>2, <2>1, <2>2, RecordIsMade, Zenon
    <2> QED BY <2>3 DEF RecordRuntime
  <1> DEFINE a == [at |-> step, saw |-> saw]
  <1>6. a \in AdvancerStates /\ a.at = step /\ a.saw = saw BY <1>2, StepFields
  <1>7. advancer' = [advancer EXCEPT ![c] = a] BY <1>1 DEF MoveTo
  <1> HIDE DEF a, saw
  <1>8. advancer' \in [Advancers -> AdvancerStates] /\ advancer'[c] = a
        /\ \A d \in Advancers \ {c} : advancer'[d] = advancer[d]
    BY <1>6, <1>7 DEF SetupInv, SetupTypeOK
  <1>9. runtime'[worker].recorded
    <2> QED BY <1>2, <1>5 DEF SetupInv, SetupTypeOK, RuntimeRecord
  <1>10. FollowsPreparation(advancer[c])' BY <1>1, <1>4, <1>5, <1>6, <1>8, <1>9 DEF FollowsPreparation
  <1>11. \A d \in Advancers : \/ advancer'[d] = advancer[d] \/ advancer'[d] = Waiting
                              \/ setup.exists /\ FollowsPreparation(advancer[d])'
    BY <1>2, <1>8, <1>10 DEF SetupInv, BeginsWithPreparation
  <1>12. /\ x.started \in BOOLEAN /\ x.image \in BOOLEAN /\ x.calling \in {"no", "call", "sent"}
         /\ RuntimeExplains(worker) /\ CallIsNamed(worker) /\ builder[worker] \in {"none", "working", "image"}
         /\ (worker \in abandoned => builder[worker] = "none")
         /\ builder' = [builder EXCEPT ![worker] = builder[worker]]
    BY <1>2, <1>5, RuntimeIsTyped
  <1>13. /\ x.calling # "no" => x.started
         /\ builder[worker] # "none" => x.started
         /\ x.calling = "call" => builder[worker] = "none" /\ (worker = setup.frozen \/ worker # worker)
         /\ x.image => builder[worker] = "image"
    BY <1>12 DEF RuntimeExplains, CallIsNamed
  <1> HIDE DEF x
  <1> QED BY <1>2, <1>5, <1>8, <1>11, <1>12, <1>13, RecordGoes DEF x

\* A continue that answers, and the ones that go on.
LEMMA AnsweredStates ==
    ASSUME SetupInv, advancer' = advancer \/ \E c \in Advancers : Answers(c)
    PROVE  /\ advancer' \in [Advancers -> AdvancerStates]
           /\ \A d \in Advancers : \/ advancer'[d] = advancer[d] \/ advancer'[d] = Waiting
                                   \/ setup.exists /\ FollowsPreparation(advancer[d])'
  BY DEF SetupInv, SetupTypeOK, Answers, AdvancerStates

LEMMA ExecuteKeeps == ASSUME SetupInv, NEW c \in Advancers, Execute(c) PROVE SetupInv'
  <1> DEFINE w == advancer[c].saw.frozen
             x == runtime[w]
  <1>1. /\ w \in Workers /\ x.recorded
        /\ w = setup.frozen \/ w \in abandoned \ {worker}
    <2>1. advancer[c].at = "execute" /\ FollowsPreparation(advancer[c]) BY DEF Execute, SetupInv
    <2>2. advancer[c] # Waiting BY <2>1, AdvancerFields DEF SetupInv, AdvancerSteps
    <2> QED BY <2>1, <2>2, AdvancerFields DEF FollowsPreparation, SetupInv
  <1>2. Answers(c) /\ UNCHANGED <<worker, setup, builder, authored, abandoned>> BY DEF Execute
  <1>3. /\ x.started \in BOOLEAN /\ x.image \in BOOLEAN /\ x.calling \in {"no", "call", "sent"}
        /\ RuntimeExplains(w) /\ CallIsNamed(w) /\ builder[w] \in {"none", "working", "image"}
        /\ builder' = [builder EXCEPT ![w] = builder[w]]
    BY <1>1, <1>2, RuntimeIsTyped
  <1>4. CASE runtime' = runtime
    <2>1. x \in RuntimeRecords /\ runtime' = [runtime EXCEPT ![w] = x] BY <1>1, <1>4 DEF SetupInv, SetupTypeOK
    <2>2. w \in abandoned => builder[w] = "none" BY <1>1, RuntimeIsTyped
    <2>3. /\ x.started => x.recorded
          /\ x.calling # "no" => x.started
          /\ builder[w] # "none" => x.started
          /\ x.calling = "call" => builder[w] = "none" /\ (w = setup.frozen \/ w # worker)
          /\ x.image => builder[w] = "image"
      BY <1>3 DEF RuntimeExplains, CallIsNamed
    <2> HIDE DEF w, x
    <2> QED BY <1>1, <1>2, <1>3, <2>1, <2>2, <2>3, AnsweredStates, RuntimeGoes DEF x
  <1>5. CASE /\ ~x.started /\ x.calling = "no"
             /\ runtime' = [runtime EXCEPT ![w].started = TRUE, ![w].calling = "call"]
    <2>1. runtime' = [runtime EXCEPT ![w] = RuntimeRecord(x.recorded, TRUE, x.image, "call")]
      <3>1. TRUE \in BOOLEAN /\ "call" \in {"no", "call", "sent"} /\ runtime \in [Workers -> RuntimeRecords]
        BY DEF SetupInv, SetupTypeOK
      <3>2. runtime' = Begun(runtime, w, TRUE, "call") BY <1>5, Zenon DEF Begun
      <3> HIDE DEF w
      <3>3. w \in Workers BY <1>1
      <3>4. Begun(runtime, w, TRUE, "call")
              = [runtime EXCEPT ![w] = RuntimeRecord(runtime[w].recorded, TRUE, runtime[w].image, "call")]
        BY <3>1, <3>3, BuildBegins
      <3> QED BY <3>2, <3>4, Zenon
    <2>2. x.recorded \in BOOLEAN /\ x.recorded = TRUE BY <1>1, RuntimeIsTyped
    <2>3. builder[w] = "none" /\ ~x.image BY <1>3, <1>5 DEF RuntimeExplains
    <2> HIDE DEF w, x
    <2> QED BY <1>1, <1>2, <1>3, <2>1, <2>2, <2>3, AnsweredStates, RecordGoes DEF x
  <1> QED BY <1>4, <1>5 DEF Execute

LEMMA CallBuildKeeps == ASSUME SetupInv, NEW w \in Workers, CallBuild(w) PROVE SetupInv'
  <1> DEFINE x == runtime[w]
  <1>1. /\ x.recorded \in BOOLEAN /\ x.started \in BOOLEAN /\ x.image \in BOOLEAN /\ x.calling = "call"
        /\ RuntimeExplains(w) /\ CallIsNamed(w)
        /\ w \in abandoned => w # setup.frozen
        /\ runtime \in [Workers -> RuntimeRecords] /\ builder = [builder EXCEPT ![w] = builder[w]]
    BY RuntimeIsTyped DEF CallBuild, SetupInv, SetupTypeOK
  <1>2. UNCHANGED <<worker, setup, advancer, authored, abandoned>> BY DEF CallBuild
  <1>3. x.recorded /\ x.started /\ builder[w] = "none" /\ ~x.image BY <1>1 DEF RuntimeExplains
  <1>4. CASE /\ Dispatched(w) /\ runtime' = [runtime EXCEPT ![w].calling = "sent"]
             /\ builder' = [builder EXCEPT ![w] = IF @ = "image" THEN @ ELSE "working"]
    <2>1. "sent" \in {"no", "call", "sent"} OBVIOUS
    <2>2. runtime' = [runtime EXCEPT ![w] = RuntimeRecord(x.recorded, x.started, x.image, "sent")]
      BY <1>1, <1>4, <2>1, BuildCallMoves, Zenon
    <2>3. builder' = [builder EXCEPT ![w] = "working"] BY <1>3, <1>4
    <2>4. w \notin abandoned BY <1>1, <1>4 DEF Dispatched, CallIsNamed
    <2> HIDE DEF x
    <2> QED BY <1>1, <1>2, <1>3, <2>2, <2>3, <2>4, AnsweredStates, RecordGoes DEF x
  <1>5. CASE runtime' = [runtime EXCEPT ![w].calling = "no", ![w].started = FALSE] /\ UNCHANGED builder
    <2>1. "no" \in {"no", "call", "sent"} /\ FALSE \in BOOLEAN OBVIOUS
    <2>2. runtime' = [runtime EXCEPT ![w] = RuntimeRecord(x.recorded, FALSE, x.image, "no")]
      <3>1. runtime' = Refused(runtime, w, "no", FALSE) BY <1>5, Zenon DEF Refused
      <3> QED BY <1>1, <2>1, <3>1, BuildIsRefused, Zenon
    <2>3. builder' = [builder EXCEPT ![w] = "none"] BY <1>1, <1>3, <1>5
    <2> HIDE DEF x
    <2> QED BY <1>1, <1>2, <1>3, <2>2, <2>3, AnsweredStates, RecordGoes DEF x
  <1> QED BY <1>4, <1>5 DEF CallBuild

LEMMA CallReturnsKeeps == ASSUME SetupInv, NEW w \in Workers, CallReturns(w) PROVE SetupInv'
  <1> DEFINE x == runtime[w]
             there == builder[w] = "image"
  <1>1. /\ x.recorded \in BOOLEAN /\ x.started \in BOOLEAN /\ x.image \in BOOLEAN /\ x.calling # "no"
        /\ RuntimeExplains(w) /\ builder[w] \in {"none", "working", "image"}
        /\ w \in abandoned => builder[w] = "none"
        /\ runtime \in [Workers -> RuntimeRecords] /\ builder = [builder EXCEPT ![w] = builder[w]]
    BY RuntimeIsTyped DEF CallReturns, SetupInv, SetupTypeOK
  <1>2. UNCHANGED <<worker, setup, builder, advancer, authored, abandoned>> BY DEF CallReturns
  <1>3. x.recorded /\ x.started /\ (x.image => builder[w] = "image") BY <1>1 DEF RuntimeExplains
  <1>4. "no" \in {"no", "call", "sent"} /\ there \in BOOLEAN OBVIOUS
  <1>5. CASE runtime' = [runtime EXCEPT ![w].calling = "no"]
    <2>1. runtime' = [runtime EXCEPT ![w] = RuntimeRecord(x.recorded, x.started, x.image, "no")]
      BY <1>1, <1>4, <1>5, BuildCallMoves, Zenon
    <2> HIDE DEF x
    <2> QED BY <1>1, <1>2, <1>3, <1>4, <2>1, AnsweredStates, RecordGoes DEF x
  <1>6. CASE runtime' = [runtime EXCEPT ![w].calling = "no", ![w].image = there]
    <2>1. runtime' = [runtime EXCEPT ![w] = RuntimeRecord(x.recorded, x.started, there, "no")]
      <3>1. runtime' = Returned(runtime, w, "no", there) BY <1>6, Zenon DEF Returned
      <3>2. there \in BOOLEAN /\ "no" \in {"no", "call", "sent"} BY <1>4
      <3>3. runtime \in [Workers -> RuntimeRecords] BY <1>1
      <3> HIDE DEF there
      <3>4. Returned(runtime, w, "no", there)
              = [runtime EXCEPT ![w] = RuntimeRecord(runtime[w].recorded, runtime[w].started, there, "no")]
        BY <3>2, <3>3, BuildReturns
      <3> QED BY <3>1, <3>4, Zenon
    <2>2. there <=> builder[w] = "image" OBVIOUS
    <2> HIDE DEF x, there
    <2> QED BY <1>1, <1>2, <1>3, <1>4, <2>1, <2>2, AnsweredStates, RecordGoes DEF x
  <1> QED BY <1>5, <1>6 DEF CallReturns

LEMMA BuilderFinishesKeeps == ASSUME SetupInv, NEW w \in Workers, BuilderFinishes(w) PROVE SetupInv'
  <1> DEFINE x == runtime[w]
  <1>1. PICK b \in {"image", "none"} : builder' = [builder EXCEPT ![w] = b] BY DEF BuilderFinishes
  <1>2. /\ x \in RuntimeRecords /\ runtime = [runtime EXCEPT ![w] = x]
        /\ RuntimeExplains(w) /\ CallIsNamed(w) /\ builder[w] = "working" /\ w \notin abandoned
    BY RuntimeIsTyped DEF BuilderFinishes, SetupInv, SetupTypeOK
  <1>4. x.started /\ x.recorded /\ ~x.image /\ x.calling # "call" BY <1>2 DEF RuntimeExplains
  <1> HIDE DEF x
  <1> QED BY <1>1, <1>2, <1>4, AnsweredStates, RuntimeGoes DEF x, BuilderFinishes

LEMMA ReconcileKeeps == ASSUME SetupInv, NEW c \in Advancers, Reconcile(c) PROVE SetupInv'
  <1> DEFINE w == advancer[c].saw.frozen
             x == runtime[w]
             there == builder[w] = "image"
  <1>1. w \in Workers
    <2>1. advancer[c].at = "reconcile" BY DEF Reconcile
    <2> QED BY <2>1, AdvancerFields DEF SetupInv, AdvancerSteps
  <1>2. Answers(c) /\ UNCHANGED <<worker, setup, builder, authored, abandoned>> BY DEF Reconcile
  <1>3. CASE runtime' = runtime BY <1>2, <1>3, AnswerGoes
  <1>4. CASE /\ x.calling = "no" /\ x.started /\ builder[w] # "working"
             /\ runtime' = [runtime EXCEPT ![w].image = there, ![w].started = there]
    <2>1. /\ x.recorded \in BOOLEAN /\ x.calling \in {"no", "call", "sent"}
          /\ RuntimeExplains(w) /\ builder[w] \in {"none", "working", "image"}
          /\ w \in abandoned => builder[w] = "none"
          /\ runtime \in [Workers -> RuntimeRecords] /\ builder' = [builder EXCEPT ![w] = builder[w]]
      BY <1>1, <1>2, RuntimeIsTyped DEF SetupInv, SetupTypeOK
    <2>2. x.recorded /\ (x.image => builder[w] = "image") BY <1>4, <2>1 DEF RuntimeExplains
    <2>3. there \in BOOLEAN /\ (there <=> builder[w] = "image") OBVIOUS
    <2> HIDE DEF there
    <2>4. runtime' = [runtime EXCEPT ![w] = RuntimeRecord(x.recorded, there, there, x.calling)]
      <3>1. runtime \in [Workers -> RuntimeRecords] /\ there \in BOOLEAN BY <2>1, <2>3
      <3>3. runtime' = Reconciled(runtime, w, there, there) BY <1>4, Zenon DEF Reconciled
      <3> HIDE DEF w
      <3>4. Reconciled(runtime, w, there, there)
              = [runtime EXCEPT ![w] = RuntimeRecord(runtime[w].recorded, there, there, runtime[w].calling)]
        BY <1>1, <3>1, BuildIsReconciled
      <3> QED BY <3>3, <3>4, Zenon
    <2> HIDE DEF w, x
    <2> QED BY <1>1, <1>2, <1>4, <2>1, <2>2, <2>3, <2>4, AnsweredStates, RecordGoes DEF x
  <1> QED BY <1>3, <1>4 DEF Reconcile

LEMMA PrepareSetupKeeps == ASSUME SetupInv, PrepareSetup PROVE SetupInv'
  <1> DEFINE x == runtime[worker]
  <1>1. /\ worker \in Workers /\ ~setup.exists /\ UNCHANGED <<worker, builder, advancer, authored, abandoned>>
        /\ setup \in SetupRecords /\ runtime \in [Workers -> RuntimeRecords]
    BY DEF PrepareSetup, SetupInv, SetupTypeOK
  <1>2. /\ authored = NoRun /\ abandoned = {} /\ \A c \in Advancers : advancer[c] = Waiting
    BY <1>1 DEF SetupInv, BeginsWithPreparation
  <1>3. runtime' = [runtime EXCEPT ![worker] = RuntimeRecord(TRUE, x.started, x.image, x.calling)]
    <2>1. TRUE \in BOOLEAN /\ runtime' = [runtime EXCEPT ![worker].recorded = TRUE] BY DEF PrepareSetup
    <2> QED BY <1>1, <2>1, RecordIsMade, Zenon
  <1>4. /\ x.started \in BOOLEAN /\ x.image \in BOOLEAN /\ x.calling \in {"no", "call", "sent"}
        /\ RuntimeExplains(worker) /\ builder[worker] \in {"none", "working", "image"}
    BY <1>1, RuntimeIsTyped
  <1>5. \E y \in RuntimeRecords :
           /\ runtime' = [runtime EXCEPT ![worker] = y] /\ y.recorded
           /\ y.started = x.started /\ y.image = x.image /\ y.calling = x.calling
    <2> DEFINE y == RuntimeRecord(TRUE, x.started, x.image, x.calling)
    <2>1. y \in RuntimeRecords /\ y.recorded /\ y.started = x.started /\ y.image = x.image /\ y.calling = x.calling
      BY <1>4 DEF RuntimeRecord, RuntimeRecords
    <2>2. runtime' = [runtime EXCEPT ![worker] = y] BY <1>3
    <2> HIDE DEF y
    <2> QED BY <2>1, <2>2
  <1>6. runtime' \in [Workers -> RuntimeRecords] /\ \A w \in Workers : RuntimeExplains(w)'
    <2> HIDE DEF x
    <2>1. PICK y \in RuntimeRecords :
           /\ runtime' = [runtime EXCEPT ![worker] = y] /\ y.recorded
           /\ y.started = x.started /\ y.image = x.image /\ y.calling = x.calling
      BY <1>5
    <2>3. runtime' \in [Workers -> RuntimeRecords] BY <1>1, <2>1
    <2> QED BY <1>1, <1>4, <2>1, <2>3 DEF SetupInv, RuntimeExplains, x
  <1>8. setup' \in SetupRecords /\ setup'.frozen \in Workers /\ (setup'.frozen = setup.frozen \/ setup'.frozen = worker)
    <2>1. CASE UNCHANGED setup BY <1>1, <2>1 DEF SetupRecords
    <2>2. CASE setup' = [setup EXCEPT !.exists = TRUE, !.frozen = worker]
      <3> DEFINE z == [setup EXCEPT !.exists = TRUE, !.frozen = worker]
      <3>1. z \in SetupRecords /\ z.frozen = worker BY <1>1, SetupBegins, Zenon
      <3> HIDE DEF z
      <3> QED BY <1>1, <3>1, <2>2 DEF z
    <2> QED BY <2>1, <2>2 DEF PrepareSetup
  <1>9. SetupTypeOK' BY <1>1, <1>6, <1>8 DEF SetupInv, SetupTypeOK
  <1>10. \A w \in Workers : CallIsNamed(w)' BY <1>1, <1>5, <1>8 DEF SetupInv, CallIsNamed
  <1>11. \A c \in Advancers : FollowsPreparation(advancer[c])' BY <1>1, <1>2, WaitingFollows
  <1>12. BeginsWithPreparation' /\ AbandonedIsOther' /\ RunIsBuilt'
    BY <1>1, <1>2 DEF BeginsWithPreparation, AbandonedIsOther, AbandonedLeftNothing, RunIsBuilt
  <1> QED BY <1>6, <1>9, <1>10, <1>11, <1>12 DEF SetupInv

\* Where a preparation goes on, and what it may leave.
LEMMA FollowingFields ==
    ASSUME SetupInv
    PROVE  LET next == [Following(setup) EXCEPT !.started = TRUE]
           IN  /\ next \in SetupRecords /\ next.exists = setup.exists
               /\ next.frozen = IF setup.frozen # worker /\ Unbuilt(setup.frozen) THEN worker ELSE setup.frozen
  <1> DEFINE f == Following(setup)
             next == [f EXCEPT !.started = TRUE]
  <1>1. setup \in SetupRecords /\ worker \in Workers BY DEF SetupInv, SetupTypeOK
  <1>2. /\ f \in SetupRecords /\ f.exists = setup.exists
        /\ f.frozen = IF setup.frozen # worker /\ Unbuilt(setup.frozen) THEN worker ELSE setup.frozen
    <2>1. CASE setup.frozen # worker /\ Unbuilt(setup.frozen)
      <3> DEFINE z == [setup EXCEPT !.frozen = worker]
      <3>1. z \in SetupRecords /\ z.frozen = worker /\ z.exists = setup.exists BY <1>1, SetupRecordChanges, Zenon
      <3>2. f = z BY <2>1 DEF Following
      <3> HIDE DEF z, f
      <3> QED BY <2>1, <3>1, <3>2
    <2>2. CASE ~(setup.frozen # worker /\ Unbuilt(setup.frozen))
      <3>1. f = setup BY <2>2 DEF Following
      <3> HIDE DEF f
      <3> QED BY <1>1, <2>2, <3>1
    <2> QED BY <2>1, <2>2
  <1> HIDE DEF f
  <1>3. next \in SetupRecords /\ next.frozen = f.frozen /\ next.exists = f.exists BY <1>1, <1>2, SetupRecordChanges, Zenon
  <1> HIDE DEF next
  <1> QED BY <1>2, <1>3 DEF next, f

LEMMA SecondLookKeeps == ASSUME SetupInv, NEW c \in Advancers, SecondLook(c) PROVE SetupInv'
  <1> DEFINE next == [Following(setup) EXCEPT !.started = TRUE]
             old == setup.frozen
  <1>1. UNCHANGED <<worker, runtime, builder, authored>> /\ advancer[c].at = "second" BY DEF SecondLook
  <1>2. setup.exists /\ worker \in Workers /\ old \in Workers /\ setup \in SetupRecords
    <2> QED
      BY <1>1, AdvancerFields DEF SetupInv, BeginsWithPreparation, SetupTypeOK, SetupRecords, AdvancerSteps
  <1>3. CASE Answers(c) /\ UNCHANGED <<setup, abandoned>> BY <1>1, <1>3, AnswerGoes
  <1>4. CASE /\ setup' = next
             /\ abandoned' = (abandoned \cup ({old} \ {next.frozen})) \ {next.frozen}
             /\ MoveTo(c, IF RecordNeeded(setup) THEN "record again" ELSE "status", next)
    <2>1. /\ next \in SetupRecords /\ next.exists = setup.exists
          /\ next.frozen = IF old # worker /\ Unbuilt(old) THEN worker ELSE old
      BY FollowingFields
    <2> DEFINE new == next.frozen
               step == IF RecordNeeded(setup) THEN "record again" ELSE "status"
               a == [at |-> step, saw |-> next]
    <2>2. new \in Workers /\ (new = old \/ (new = worker /\ old # worker /\ Unbuilt(old))) BY <1>2, <2>1
    <2>3. step \in AdvancerSteps /\ (step = "record again" \/ step = "status") BY DEF AdvancerSteps
    <2>4. step = "record again" => new = worker BY <1>2, <2>1 DEF RecordNeeded
    <2>5. step = "status" => new = old /\ runtime[new].recorded BY <1>2, <2>1 DEF RecordNeeded, Unbuilt
    <2>6. a \in AdvancerStates /\ a.at = step /\ a.saw = next BY <2>1, <2>3, StepFields
    <2>7. advancer' = [advancer EXCEPT ![c] = a] BY <1>4 DEF MoveTo
    <2> HIDE DEF a, step
    <2>8. /\ setup' \in SetupRecords /\ setup'.frozen = new /\ setup'.exists
      BY <1>2, <1>4, <2>1
    <2>9. abandoned' = (abandoned \cup {old}) \ {new} BY <1>4
    <2> HIDE DEF next
    <2>10. advancer' \in [Advancers -> AdvancerStates] /\ advancer'[c] = a
           /\ \A d \in Advancers \ {c} : advancer'[d] = advancer[d]
      BY <2>6, <2>7 DEF SetupInv, SetupTypeOK
    <2> USE <1>1
    <2>11. SetupTypeOK' BY <1>2, <2>2, <2>8, <2>9, <2>10 DEF SetupInv, SetupTypeOK
    <2>12. \A w \in Workers : RuntimeExplains(w)' /\ CallIsNamed(w)'
      BY <2>2, <2>8 DEF SetupInv, RuntimeExplains, CallIsNamed
    <2>13. BeginsWithPreparation' BY <2>8 DEF BeginsWithPreparation
    <2>14. new # old => builder[old] = "none" /\ ~runtime[old].image /\ authored = NoRun
      <3> SUFFICES ASSUME new # old PROVE builder[old] = "none" /\ ~runtime[old].image /\ authored = NoRun OBVIOUS
      <3>2. builder[old] = "none" /\ ~runtime[old].image
        BY <1>2, <2>2 DEF SetupInv, RuntimeExplains, Unbuilt, RetrySafe
      <3> QED BY <3>2 DEF SetupInv, RunIsBuilt
    <2>15. ASSUME NEW d \in Advancers PROVE FollowsPreparation(advancer[d])'
      <3>1. CASE d = c
        BY <2>2, <2>3, <2>4, <2>5, <2>6, <2>8, <2>10, <3>1 DEF FollowsPreparation
      <3>2. CASE d # c
        <4>2. new = old \/ (new = worker /\ old \in abandoned' \ {worker} /\ ~runtime[old].image)
          BY <2>2, <2>9, <2>14
        <4>3. \A w \in abandoned \ {worker} : w = new \/ w \in abandoned' \ {worker} BY <2>9
        <4> QED BY <2>8, <2>10, <3>2, <4>2, <4>3 DEF FollowsPreparation, SetupInv
      <3> QED BY <3>1, <3>2
    <2>16. AbandonedIsOther' BY <2>8, <2>9, <2>14 DEF SetupInv, AbandonedIsOther, AbandonedLeftNothing
    <2>17. RunIsBuilt' BY <2>8, <2>14 DEF SetupInv, RunIsBuilt
    <2> QED BY <2>11, <2>12, <2>13, <2>15, <2>16, <2>17 DEF SetupInv
  <1> QED BY <1>3, <1>4 DEF SecondLook

LEMMA AuthorRunKeeps == ASSUME SetupInv, NEW c \in Advancers, AuthorRun(c) PROVE SetupInv'
  <1> DEFINE saw == advancer[c].saw
  <1>1. /\ advancer[c].at = "author" /\ UNCHANGED <<worker, setup, runtime, builder, abandoned>> BY DEF AuthorRun
  <1>2. /\ saw \in SetupRecords /\ saw.frozen \in Workers /\ setup.exists
        /\ saw.frozen = setup.frozen /\ runtime[setup.frozen].image
    <2>1. advancer[c] # Waiting BY <1>1, AdvancerFields DEF SetupInv, AdvancerSteps
    <2>2. FollowsPreparation(advancer[c]) BY DEF SetupInv
    <2> QED BY <1>1, <2>1, <2>2, AdvancerFields DEF SetupInv, BeginsWithPreparation, FollowsPreparation
  <1>3. CASE Answers(c) /\ UNCHANGED authored BY <1>1, <1>3, AnswerGoes
  <1>4. CASE authored' = [exists |-> TRUE, frozen |-> saw.frozen] /\ MoveTo(c, "finish", saw)
    <2> DEFINE a == [at |-> "finish", saw |-> saw]
    <2>1. a \in AdvancerStates /\ a.at = "finish" /\ a.saw = saw
      <3>1. "finish" \in AdvancerSteps BY DEF AdvancerSteps
      <3> QED BY <1>2, <3>1, StepFields
    <2>2. advancer' = [advancer EXCEPT ![c] = a] BY <1>4 DEF MoveTo
    <2> HIDE DEF a
    <2>3. advancer' \in [Advancers -> AdvancerStates] /\ advancer'[c] = a
          /\ \A d \in Advancers \ {c} : advancer'[d] = advancer[d]
      BY <2>1, <2>2 DEF SetupInv, SetupTypeOK
    <2>4. \A d \in Advancers : FollowsPreparation(advancer[d])'
      <3> TAKE d \in Advancers
      <3>1. FollowsPreparation(advancer[d]) BY DEF SetupInv
      <3>2. CASE d = c BY <1>1, <1>2, <2>1, <2>3, <3>2 DEF FollowsPreparation
      <3>3. CASE d # c
        <4>1. advancer'[d] = advancer[d] BY <2>3, <3>3
        <4> QED BY <1>1, <3>1, <4>1 DEF FollowsPreparation
      <3> QED BY <3>2, <3>3
    <2>5. authored' \in [exists : {TRUE}, frozen : Workers] /\ authored'.frozen = setup.frozen BY <1>2, <1>4
    <2>6. SetupTypeOK' BY <1>1, <2>3, <2>5 DEF SetupInv, SetupTypeOK
    <2>7. \A w \in Workers : (RuntimeExplains(w) /\ CallIsNamed(w))' BY <1>1 DEF SetupInv, RuntimeExplains, CallIsNamed
    <2>8. BeginsWithPreparation' /\ AbandonedIsOther' /\ RunIsBuilt'
      BY <1>1, <1>2, <2>5 DEF SetupInv, BeginsWithPreparation, AbandonedIsOther, AbandonedLeftNothing, RunIsBuilt
    <2> QED BY <2>4, <2>6, <2>7, <2>8 DEF SetupInv
  <1> QED BY <1>3, <1>4 DEF AuthorRun

LEMMA FinishSetupKeeps == ASSUME SetupInv, NEW c \in Advancers, FinishSetup(c) PROVE SetupInv'
  <1> DEFINE z == [setup EXCEPT !.submitted = TRUE]
  <1>1. setup' = z /\ Answers(c) /\ UNCHANGED <<worker, runtime, builder, authored, abandoned>> BY DEF FinishSetup
  <1>2. setup \in SetupRecords /\ worker \in Workers BY DEF SetupInv, SetupTypeOK
  <1>3. z \in SetupRecords /\ z.frozen = setup.frozen /\ z.exists = setup.exists BY <1>2, SetupRecordChanges, Zenon
  <1> HIDE DEF z
  <1>4. advancer' \in [Advancers -> AdvancerStates] /\ advancer'[c] = Waiting
        /\ \A d \in Advancers \ {c} : advancer'[d] = advancer[d]
    BY <1>1 DEF Answers, SetupInv, SetupTypeOK, AdvancerStates
  <1>5. \A d \in Advancers : FollowsPreparation(advancer[d])'
    <2> TAKE d \in Advancers
    <2>1. FollowsPreparation(advancer[d]) BY DEF SetupInv
    <2>2. CASE d = c
      <3>1. advancer'[d] = Waiting BY <1>4, <2>2
      <3> QED BY <3>1, WaitingFollows
    <2>3. CASE d # c
      <3>1. advancer'[d] = advancer[d] BY <1>4, <2>3
      <3> QED BY <1>1, <1>3, <2>1, <3>1 DEF FollowsPreparation
    <2> QED BY <2>2, <2>3
  <1>6. SetupTypeOK' BY <1>1, <1>3, <1>4 DEF SetupInv, SetupTypeOK
  <1>7. \A w \in Workers : (RuntimeExplains(w) /\ CallIsNamed(w))' BY <1>1, <1>3 DEF SetupInv, RuntimeExplains, CallIsNamed
  <1>8. BeginsWithPreparation' /\ AbandonedIsOther' /\ RunIsBuilt'
    BY <1>1, <1>3, <1>4 DEF SetupInv, BeginsWithPreparation, AbandonedIsOther, AbandonedLeftNothing, RunIsBuilt
  <1> QED BY <1>5, <1>6, <1>7, <1>8 DEF SetupInv

LEMMA UpgradeKeeps == ASSUME SetupInv, Upgrade PROVE SetupInv'
  <1> DEFINE x(w) == [runtime[w] EXCEPT !.calling = "no"]
  <1>1. /\ worker' \in Workers /\ \A c \in Advancers : advancer'[c] = Waiting
        /\ advancer' \in [Advancers -> AdvancerStates]
        /\ UNCHANGED <<setup, builder, authored, abandoned>> /\ runtime' = [w \in Workers |-> x(w)]
    BY DEF Upgrade, AdvancerStates
  <1>2. ASSUME NEW w \in Workers
        PROVE  /\ x(w) \in RuntimeRecords /\ x(w).recorded = runtime[w].recorded /\ x(w).started = runtime[w].started
               /\ x(w).image = runtime[w].image /\ x(w).calling = "no"
    <2> DEFINE y == runtime[w]
               z == RuntimeRecord(y.recorded, y.started, y.image, "no")
    <2>1. y \in RuntimeRecords BY DEF SetupInv, SetupTypeOK
    <2>2. "no" \in {"no", "call", "sent"} OBVIOUS
    <2>3. z \in RuntimeRecords /\ z.recorded = y.recorded /\ z.started = y.started /\ z.image = y.image /\ z.calling = "no"
      BY <2>1 DEF RuntimeRecords, RuntimeRecord
    <2>4. x(w) = z BY <2>1, <2>2, CallingChanges, Zenon
    <2> HIDE DEF x, y, z
    <2> QED BY <2>3, <2>4 DEF y
  <1> HIDE DEF x
  <1>3. runtime' \in [Workers -> RuntimeRecords] /\ \A w \in Workers :
            /\ runtime'[w].recorded = runtime[w].recorded /\ runtime'[w].started = runtime[w].started
            /\ runtime'[w].image = runtime[w].image /\ runtime'[w].calling = "no"
    BY <1>1, <1>2
  <1>5. SetupTypeOK' BY <1>1, <1>3 DEF SetupInv, SetupTypeOK
  <1>6. \A w \in Workers : (RuntimeExplains(w) /\ CallIsNamed(w))' BY <1>1, <1>3 DEF SetupInv, RuntimeExplains, CallIsNamed
  <1>7. setup.frozen \in Workers BY DEF SetupInv, SetupTypeOK, SetupRecords
  <1>8. BeginsWithPreparation' /\ AbandonedIsOther' /\ RunIsBuilt'
    BY <1>1, <1>3, <1>7 DEF SetupInv, BeginsWithPreparation, AbandonedIsOther, AbandonedLeftNothing, RunIsBuilt
  <1> QED BY <1>1, WaitingFollows, <1>5, <1>6, <1>8 DEF SetupInv

LEMMA SetupSteps == SetupInv /\ [SetupNext]_setupVars => SetupInv'
  <1> SUFFICES ASSUME SetupInv, [SetupNext]_setupVars PROVE SetupInv' OBVIOUS
  <1>1. CASE PrepareSetup \/ Upgrade BY <1>1, PrepareSetupKeeps, UpgradeKeeps
  <1>2. ASSUME NEW c \in Advancers,
               \/ FirstLook(c) \/ RecordRuntime(c) \/ SecondLook(c) \/ SetupStatus(c) \/ Execute(c)
               \/ Reconcile(c) \/ AuthorRun(c) \/ FinishSetup(c) \/ GiveUp(c)
        PROVE  SetupInv'
    BY <1>2, LookActions, RecordRuntimeKeeps, SecondLookKeeps, ExecuteKeeps, ReconcileKeeps, AuthorRunKeeps,
       FinishSetupKeeps
  <1>3. ASSUME NEW w \in Workers, CallBuild(w) \/ CallReturns(w) \/ BuilderFinishes(w) PROVE SetupInv'
    BY <1>3, CallBuildKeeps, CallReturnsKeeps, BuilderFinishesKeeps
  <1>4. CASE UNCHANGED setupVars
    <2>1. UNCHANGED <<worker, setup, runtime, builder, advancer, authored, abandoned>> BY <1>4 DEF setupVars
    <2>2. \A d \in Advancers : FollowsPreparation(advancer[d])' BY <2>1 DEF SetupInv, FollowsPreparation
    <2> QED BY <2>1, <2>2 DEF SetupInv, SetupTypeOK, RuntimeExplains, CallIsNamed, BeginsWithPreparation,
                       AbandonedIsOther, AbandonedLeftNothing, RunIsBuilt
  <1> QED BY <1>1, <1>2, <1>3, <1>4 DEF SetupNext

(* For every number of Attempts, reconciliations, continues and Workers:
   a retry adds an Attempt only after the job of the one before it ended;
   a Runtime that may be built has no builder at work, unless an answer
   about an earlier build was taken for this one; a Runtime that a setup
   has left was never built; its Run is written once, with the Runtime it
   names and whose image is there; a Runtime is recorded before it is
   looked at (retry.rs, builds.rs, first_submission.rs). *)
THEOREM AttemptsBeginAsPrepared == PreparationSpec => []AttemptsBeginOnce
  <1> DEFINE Inv == RetryInv /\ BuildInv /\ SetupInv
  <1>1. PreparationInit => Inv BY RetryStarts, BuildStarts, SetupStarts DEF PreparationInit
  <1>2. Inv /\ [PreparationNext]_<<jobVars, retryVars, buildVars, setupVars>> => Inv'
    <2> SUFFICES ASSUME Inv, [PreparationNext]_<<jobVars, retryVars, buildVars, setupVars>> PROVE Inv' OBVIOUS
    <2>1. [RetryNext]_<<jobVars, retryVars>> /\ [BuildNext]_buildVars /\ [SetupNext]_setupVars
      BY Zenon DEF PreparationNext
    <2> QED BY <2>1, RetrySteps, BuildSteps, SetupSteps
  <1>3. Inv => AttemptsBeginOnce
    <2> SUFFICES ASSUME Inv PROVE AttemptsBeginOnce OBVIOUS
    <2>2. RetrySafeIsTrue BY DEF BuildInv, CallIsMarked, NobodyBuildsUnmarked, RetrySafeIsTrue
    <2>3. AbandonedLeftNothing BY DEF SetupInv, AbandonedIsOther
    <2>4. RunIsThePreparations
      <3>2. setup.frozen \in Workers BY DEF SetupInv, SetupTypeOK, SetupRecords
      <3> QED BY <3>2 DEF SetupInv, RunIsBuilt, RuntimeExplains, RunIsThePreparations, NoRun
    <2>5. RuntimeIsRecorded BY DEF SetupInv, FollowsPreparation, RuntimeIsRecorded
    <2> QED BY <2>2, <2>3, <2>4, <2>5 DEF AttemptsBeginOnce, RetryInv
  <1> QED BY <1>1, <1>2, <1>3, PTL DEF PreparationSpec

(* A Run never goes back to an Attempt it has left, and names the newest
   or the one before it, which a retry that was interrupted left there:
   every step keeps that, for every number of Attempts (retry.rs). *)
THEOREM RunNeverGoesBack == PreparationSpec => RunFollowsAttempts
  <1> DEFINE RunStep == current' >= current /\ {current', current' + 1} \cap DOMAIN attempts' # {}
                        /\ \A n \in DOMAIN attempts' : n <= current' + 1
  <1>1. JobsInit /\ RetryInit => RetryInv BY RetryStarts
  <1>2. RetryInv /\ [PreparationNext]_<<jobVars, retryVars, buildVars, setupVars>> => RetryInv' /\ [RunStep]_retryVars
    <2> SUFFICES ASSUME RetryInv, [PreparationNext]_<<jobVars, retryVars, buildVars, setupVars>>
                 PROVE  RetryInv' /\ [RunStep]_retryVars
      OBVIOUS
    <2>1. [RetryNext]_<<jobVars, retryVars>> BY Zenon DEF PreparationNext
    <2>2. RetryInv' BY <2>1, RetrySteps
    <2>3. current \in Nat BY AttemptsAssumption DEF RetryInv, AttemptNumbers
    <2>4. CASE UNCHANGED retryVars BY <2>2, <2>4
    <2>5. ASSUME NEW n \in AttemptNumbers, NEW request \in RetryRequests, Retry(n, request) PROVE current' >= current
      <3>1. current' \in {current, current + 1} BY <2>5, RetryAdds
      <3> QED BY <2>3, <3>1
    <2>6. ASSUME NEW n \in AttemptNumbers, NEW request \in RetryRequests, RepeatRetry(n, request) PROVE current' >= current
      BY <2>3, <2>6 DEF RepeatRetry, Moved
    <2>7. current' >= current \/ UNCHANGED retryVars
      <3>1. CASE Fence BY <2>3, <3>1 DEF Fence
      <3> QED BY <2>1, <2>5, <2>6, <3>1 DEF RetryNext, SubmitAttempt, retryVars
    <2> QED BY <2>2, <2>4, <2>7 DEF RetryInv
  <1> QED BY <1>1, <1>2, PTL DEF PreparationSpec, PreparationInit, RunFollowsAttempts

------------
(* The upload of a dataset.  That a verified archive is stored is not
   inductive: whoever accepts it has read its objects long before.  As
   long as no discard has begun since, nobody removes what was read. *)
PartStates == Bytes \cup {Missing}
AssetRecords == [parts : [Parts -> PartStates], verified : BOOLEAN, discards : Nat]
Puts == [at : {"put"}, part : Parts, bytes : Bytes, seen : Nat, again : BOOLEAN]
Resumed == {IdleClient} \cup Puts
ArchiveReads == [at : {"read", "accept", "compare"}, part : Parts, seen : Nat,
                 parts : [Parts -> PartStates], wrong : SUBSET Parts]
DiscardWaits == [at : {"discard"}, wrong : SUBSET Parts, seen : Nat, then : Resumed]
DiscardSteps == [at : {"deleting", "unrecord"}, left : SUBSET Parts, wrong : SUBSET Parts, then : Resumed]
ClientStates ==
    Resumed \cup ArchiveReads \cup DiscardWaits \cup DiscardSteps
      \cup [at : {"record"}, part : Parts, bytes : Bytes]
      \cup [at : {"head"}, part : Parts, bytes : Bytes, seen : Nat]

UploadTypeOK == asset \in AssetRecords /\ client \in [Clients -> ClientStates] /\ DOMAIN object = Parts

NobodyDiscards == \A d \in Clients : client[d].at \notin {"deleting", "unrecord"}

\* What a client has read of the archive, if nothing was discarded since.
ReadIsThere(c) ==
    client[c].at \in {"read", "accept"} =>
        /\ client[c].seen <= asset.discards
        /\ client[c].seen = asset.discards =>
             /\ NobodyDiscards
             /\ \A p \in Parts : client[c].at = "accept" \/ p < client[c].part =>
                   object[p] = "good" /\ client[c].parts[p] = "good"

UploadInv ==
    /\ UploadTypeOK
    /\ \A c \in Clients : ReadIsThere(c)
    /\ asset.verified => NobodyDiscards
    /\ VerifiedIsStored

\* The record of an asset, and how it changes.
AssetRecord(ps, v, n) == [parts |-> ps, verified |-> v, discards |-> n]

LEMMA AssetFields ==
    \A ps \in [Parts -> PartStates], v \in BOOLEAN, n \in Nat :
       /\ AssetRecord(ps, v, n) \in AssetRecords
       /\ AssetRecord(ps, v, n).parts = ps
       /\ AssetRecord(ps, v, n).verified = v
       /\ AssetRecord(ps, v, n).discards = n
  BY DEF AssetRecord, AssetRecords

LEMMA AssetChanges ==
    ASSUME NEW a \in AssetRecords
    PROVE  /\ a.parts \in [Parts -> PartStates] /\ a.verified \in BOOLEAN /\ a.discards \in Nat
           /\ \A v \in BOOLEAN : [a EXCEPT !.verified = v] = AssetRecord(a.parts, v, a.discards)
           /\ \A n \in Nat : [a EXCEPT !.discards = n] = AssetRecord(a.parts, a.verified, n)
           /\ \A ps \in [Parts -> PartStates] : [a EXCEPT !.parts = ps] = AssetRecord(ps, a.verified, a.discards)
  BY DEF AssetRecord, AssetRecords

LEMMA UploadStarts == UploadInit => UploadInv
  <1> SUFFICES ASSUME UploadInit PROVE UploadInv
    OBVIOUS
  <1>2. [p \in Parts |-> Missing] \in [Parts -> PartStates] BY DEF PartStates
  <1>3. asset \in AssetRecords /\ asset.verified = FALSE BY <1>2 DEF AssetRecords, UploadInit
  <1>4. client \in [Clients -> ClientStates] /\ \A c \in Clients : client[c].at = "idle"
    BY DEF UploadInit, IdleClient, ClientStates, Resumed
  <1> QED BY <1>3, <1>4 DEF UploadInv, UploadTypeOK, ReadIsThere, VerifiedIsStored, UploadInit

------------
(* Most steps change one client only, or add an object. *)
LEMMA ClientFields ==
    ASSUME UploadInv, NEW c \in Clients
    PROVE  /\ client[c] \in ClientStates
           /\ client[c].at = "put" => client[c] \in Puts
           /\ client[c].at \in {"read", "accept", "compare"} => client[c] \in ArchiveReads
           /\ client[c].at = "discard" => client[c] \in DiscardWaits
           /\ client[c].at \in {"deleting", "unrecord"} => client[c] \in DiscardSteps
           /\ client[c].at = "record" => client[c].part \in Parts /\ client[c].bytes \in Bytes
           /\ client[c].at = "head" => client[c].part \in Parts /\ client[c].bytes \in Bytes /\ client[c].seen \in Nat
           /\ client[c] = IdleClient <=> client[c].at = "idle"
  <1>1. client[c] \in ClientStates BY DEF UploadInv, UploadTypeOK
  <1> DEFINE r == client[c]
  <1>2. CASE r = IdleClient BY <1>1, <1>2 DEF IdleClient
  <1>3. CASE r \in Puts BY <1>1, <1>3 DEF Puts, IdleClient
  <1>4. CASE r \in ArchiveReads BY <1>1, <1>4 DEF ArchiveReads, IdleClient
  <1>5. CASE r \in DiscardWaits BY <1>1, <1>5 DEF DiscardWaits, IdleClient
  <1>6. CASE r \in DiscardSteps BY <1>1, <1>6 DEF DiscardSteps, IdleClient
  <1>7. CASE r \in [at : {"record"}, part : Parts, bytes : Bytes] BY <1>1, <1>7 DEF IdleClient
  <1>8. CASE r \in [at : {"head"}, part : Parts, bytes : Bytes, seen : Nat] BY <1>1, <1>8 DEF IdleClient
  <1> QED BY <1>1, <1>2, <1>3, <1>4, <1>5, <1>6, <1>7, <1>8 DEF ClientStates, Resumed

\* A client that goes elsewhere than to read on or to discard.
LEMMA ClientGoes ==
    ASSUME UploadInv, NEW c \in Clients, NEW r \in ClientStates, Goes(c, r),
           r.at \notin {"read", "accept", "deleting", "unrecord"}, UNCHANGED asset,
           DOMAIN object' = Parts, \A p \in Parts : object[p] = "good" => object'[p] = "good"
    PROVE  UploadInv'
  <1>1. client' \in [Clients -> ClientStates] /\ client'[c] = r /\ \A d \in Clients \ {c} : client'[d] = client[d]
    BY DEF UploadInv, UploadTypeOK, Goes
  <1>3. NobodyDiscards => NobodyDiscards' BY <1>1 DEF NobodyDiscards
  <1>4. ASSUME NEW d \in Clients PROVE ReadIsThere(d)'
    <2> QED BY <1>1, <1>3 DEF ReadIsThere, UploadInv
  <1>5. VerifiedIsStored' BY DEF UploadInv, VerifiedIsStored
  <1> QED BY <1>1, <1>3, <1>4, <1>5 DEF UploadInv, UploadTypeOK

\* A PUT adds an object and takes none away.
LEMMA ObjectComes ==
    ASSUME UploadInv, NEW p \in Parts, NEW b, UNCHANGED <<asset, client>>,
           object' = [object EXCEPT ![p] = IF @ = Missing THEN b ELSE @]
    PROVE  UploadInv'
  <1>1. DOMAIN object' = Parts /\ \A q \in Parts : object[q] = "good" => object'[q] = "good"
    BY DEF UploadInv, UploadTypeOK, Missing
  <1>3. ASSUME NEW d \in Clients PROVE ReadIsThere(d)'
    <2> QED BY <1>1 DEF ReadIsThere, NobodyDiscards, UploadInv
  <1>4. VerifiedIsStored' BY <1>1 DEF UploadInv, VerifiedIsStored
  <1> QED BY <1>1, <1>3, <1>4 DEF UploadInv, NobodyDiscards, UploadTypeOK

------------
(* The steps of a request, one after the other. *)
LEMMA StatesOfClients ==
    /\ IdleClient \in ClientStates /\ IdleClient.at = "idle"
    /\ \A p \in Parts, b \in Bytes : Record([part |-> p, bytes |-> b]) \in ClientStates
    /\ \A r \in Puts : /\ Record(r) \in ClientStates /\ Record(r).at = "record"
                       /\ r.part \in Parts /\ r.bytes \in Bytes /\ r.seen \in Nat
    /\ \A r \in Resumed : r \in ClientStates /\ r.at \in {"idle", "put"}
  BY DEF ClientStates, Resumed, Puts, Record, IdleClient

LEMMA AgainIsPut == \A r \in Puts, v \in BOOLEAN : [r EXCEPT !.again = v] \in Puts
  BY DEF Puts

LEMMA DiscardWaitStates ==
    \A w \in SUBSET Parts, n \in Nat, t \in Resumed :
       /\ [at |-> "discard", wrong |-> w, seen |-> n, then |-> t] \in ClientStates
       /\ [at |-> "discard", wrong |-> w, seen |-> n, then |-> t].at = "discard"
  BY DEF ClientStates, DiscardWaits

LEMMA PutKeeps == ASSUME UploadInv, NEW c \in Clients, Put(c) PROVE UploadInv'
  <1> DEFINE r == client[c]
             stored == [object EXCEPT ![r.part] = IF @ = Missing THEN r.bytes ELSE @]
             again == [r EXCEPT !.again = TRUE]
             wait == [at |-> "discard", wrong |-> {r.part}, seen |-> r.seen, then |-> again]
  <1>1. r \in Puts BY ClientFields DEF Put, At
  <1>2. r.part \in Parts /\ r.seen \in Nat /\ Record(r) \in ClientStates /\ Record(r).at = "record"
    BY <1>1, StatesOfClients
  <1>3. DOMAIN object' = Parts /\ \A p \in Parts : object[p] = "good" => object'[p] = "good"
    <2> QED BY <1>2 DEF UploadInv, UploadTypeOK, Missing, Put
  <1>4. wait \in ClientStates /\ wait.at = "discard"
    <2>2. again \in Resumed /\ {r.part} \in SUBSET Parts BY <1>2, <1>1, AgainIsPut DEF Resumed
    <2> QED BY <1>2, <2>2, DiscardWaitStates
  <1>5. UNCHANGED asset BY DEF Put
  <1>6. Goes(c, Record(r)) \/ Goes(c, wait) \/ Goes(c, IdleClient) BY DEF Put, Ends
  <1> HIDE DEF wait, r
  <1>7. CASE Goes(c, Record(r)) BY <1>2, <1>3, <1>5, <1>7, ClientGoes
  <1>8. CASE Goes(c, wait) BY <1>3, <1>4, <1>5, <1>8, ClientGoes
  <1>9. CASE Goes(c, IdleClient) BY <1>3, <1>5, <1>9, ClientGoes, StatesOfClients
  <1> QED BY <1>6, <1>7, <1>8, <1>9

LEMMA StoredStays ==
    ASSUME UploadInv, UNCHANGED object
    PROVE  DOMAIN object' = Parts /\ \A p \in Parts : object[p] = "good" => object'[p] = "good"
  BY DEF UploadInv, UploadTypeOK

LEMMA RequestsBegin ==
    ASSUME UploadInv, NEW c \in Clients, NEW p \in Parts, NEW b \in Bytes,
           BeginPart(c, p, b) \/ PartUploaded(c, p, b)
    PROVE  UploadInv'
  <1> DEFINE put == [at |-> "put", part |-> p, bytes |-> b, seen |-> Seen, again |-> FALSE]
             head == [at |-> "head", part |-> p, bytes |-> b, seen |-> Seen]
  <1>1. Seen \in Nat BY AssetChanges DEF Seen, UploadInv, UploadTypeOK
  <1>2. put \in ClientStates /\ put.at = "put" BY <1>1 DEF ClientStates, Resumed, Puts
  <1>3. head \in ClientStates /\ head.at = "head" BY <1>1 DEF ClientStates
  <1>4. UNCHANGED <<asset, object>> /\ (Goes(c, put) \/ Goes(c, head)) BY DEF BeginPart, PartUploaded
  <1> HIDE DEF put, head
  <1>5. CASE Goes(c, put) BY <1>2, <1>4, <1>5, ClientGoes, StoredStays
  <1>6. CASE Goes(c, head) BY <1>3, <1>4, <1>6, ClientGoes, StoredStays
  <1> QED BY <1>4, <1>5, <1>6

LEMMA HeadKeeps == ASSUME UploadInv, NEW c \in Clients, HeadPart(c) PROVE UploadInv'
  <1> DEFINE r == client[c]
             wait == [at |-> "discard", wrong |-> {r.part}, seen |-> r.seen, then |-> IdleClient]
  <1>1. r.part \in Parts /\ r.bytes \in Bytes /\ r.seen \in Nat BY ClientFields DEF HeadPart, At
  <1>3. wait \in ClientStates /\ wait.at = "discard"
    <2> QED BY <1>1, DiscardWaitStates DEF Resumed
  <1>4. UNCHANGED <<asset, object>> /\ (Goes(c, Record(r)) \/ Goes(c, wait) \/ Goes(c, IdleClient))
    BY DEF HeadPart, Ends
  <1> HIDE DEF wait, r
  <1>5. CASE Goes(c, Record(r)) BY <1>1, <1>4, <1>5, ClientGoes, StoredStays DEF Record, ClientStates
  <1>6. CASE Goes(c, wait) BY <1>3, <1>4, <1>6, ClientGoes, StoredStays
  <1>7. CASE Goes(c, IdleClient) BY <1>4, <1>7, ClientGoes, StoredStays, StatesOfClients
  <1> QED BY <1>4, <1>5, <1>6, <1>7

LEMMA AbandonKeeps == ASSUME UploadInv, NEW c \in Clients, Abandon(c) PROVE UploadInv'
  BY ClientGoes, StoredStays, StatesOfClients DEF Abandon, Ends

\* A part is recorded; one that is verified is recorded as it was.
LEMMA RecordKeeps == ASSUME UploadInv, NEW c \in Clients, RecordPart(c) PROVE UploadInv'
  <1> DEFINE p == client[c].part
             b == client[c].bytes
             ps == [asset.parts EXCEPT ![p] = b]
  <1>1. p \in Parts /\ b \in Bytes /\ Goes(c, IdleClient) /\ UNCHANGED object
    BY ClientFields DEF RecordPart, At, Ends
  <1>2. asset \in AssetRecords BY DEF UploadInv, UploadTypeOK
  <1>3. CASE UNCHANGED asset BY <1>1, <1>3, ClientGoes, StoredStays, StatesOfClients
  <1>4. CASE Takes(p, b) /\ asset' = [asset EXCEPT !.parts[p] = b]
    <2>1. asset.parts \in [Parts -> PartStates] /\ asset.discards \in Nat /\ asset.verified \in BOOLEAN
      BY <1>2, AssetChanges
    <2>2. ps \in [Parts -> PartStates] BY <1>1, <2>1 DEF PartStates
    <2>3. asset' = [asset EXCEPT !.parts = ps] BY <1>4, Zenon
    <2>4. asset' = AssetRecord(ps, asset.verified, asset.discards) BY <1>2, <2>2, <2>3, AssetChanges, Zenon
    <2> HIDE DEF ps
    <2>5. asset' \in AssetRecords /\ asset'.parts = ps /\ asset'.verified = asset.verified
            /\ asset'.discards = asset.discards
      BY <2>1, <2>2, <2>4, AssetFields
    <2>6. client' \in [Clients -> ClientStates] /\ client'[c] = IdleClient
            /\ \A d \in Clients \ {c} : client'[d] = client[d]
      BY <1>1, StatesOfClients DEF UploadInv, UploadTypeOK, Goes
    <2>7. UploadTypeOK' BY <1>1, <2>5, <2>6 DEF UploadInv, UploadTypeOK
    <2>8. NobodyDiscards => NobodyDiscards' BY <2>6, StatesOfClients DEF NobodyDiscards
    <2>9. ASSUME NEW d \in Clients PROVE ReadIsThere(d)'
      <3> QED BY <1>1, <2>5, <2>6, <2>8, StatesOfClients DEF ReadIsThere, UploadInv
    <2>10. VerifiedIsStored'
      <3>1. asset.verified => asset.parts[p] = b BY <1>1, <1>4 DEF UploadInv, VerifiedIsStored, Takes, Missing
      <3> QED BY <1>1, <2>5, <2>1, <3>1 DEF UploadInv, VerifiedIsStored, ps
    <2> QED BY <2>5, <2>7, <2>8, <2>9, <2>10 DEF UploadInv
  <1> QED BY <1>3, <1>4 DEF RecordPart

------------
(* The archive is read. *)
ArchiveRead(a, p, n, ps, w) == [at |-> a, part |-> p, seen |-> n, parts |-> ps, wrong |-> w]
ReadingSteps == {"read", "accept", "compare"}

LEMMA ArchiveReadFields ==
    \A a \in ReadingSteps, p \in Parts, n \in Nat, ps \in [Parts -> PartStates], w \in SUBSET Parts :
       /\ ArchiveRead(a, p, n, ps, w) \in ArchiveReads
       /\ ArchiveRead(a, p, n, ps, w).at = a
       /\ ArchiveRead(a, p, n, ps, w).part = p
       /\ ArchiveRead(a, p, n, ps, w).seen = n
       /\ ArchiveRead(a, p, n, ps, w).parts = ps
  BY DEF ArchiveRead, ArchiveReads, ReadingSteps

LEMMA ArchiveReadTyped ==
    \A r \in ArchiveReads : /\ r.at \in ReadingSteps /\ r.part \in Parts /\ r.seen \in Nat
                             /\ r.parts \in [Parts -> PartStates] /\ r.wrong \in SUBSET Parts
  BY DEF ArchiveReads, ReadingSteps

LEMMA ArchiveReadSets ==
    /\ \A r \in ArchiveReads, a \in ReadingSteps :
          [r EXCEPT !.at = a] = ArchiveRead(a, r.part, r.seen, r.parts, r.wrong)
    /\ \A r \in ArchiveReads, p \in Parts :
          [r EXCEPT !.part = p] = ArchiveRead(r.at, p, r.seen, r.parts, r.wrong)
    /\ \A r \in ArchiveReads, w \in SUBSET Parts :
          [r EXCEPT !.wrong = w] = ArchiveRead(r.at, r.part, r.seen, r.parts, w)
  BY DEF ArchiveReads, ArchiveRead, ReadingSteps

LEMMA ReadMovesOn ==
    ASSUME NEW r \in ArchiveReads, NEW p \in Parts
    PROVE  [r EXCEPT !.part = p] = ArchiveRead(r.at, p, r.seen, r.parts, r.wrong)
  BY ArchiveReadSets, Zenon

LEMMA ReadIsAccepted ==
    ASSUME NEW r \in ArchiveReads
    PROVE  [r EXCEPT !.at = "accept"] = ArchiveRead("accept", r.part, r.seen, r.parts, r.wrong)
  <1>1. "accept" \in ReadingSteps BY DEF ReadingSteps
  <1> QED BY <1>1, ArchiveReadSets, Zenon

LEMMA ReadIsCompared ==
    ASSUME NEW r \in ArchiveReads, NEW p \in Parts
    PROVE  /\ [r EXCEPT !.at = "compare", !.part = p] \in ArchiveReads
           /\ [r EXCEPT !.at = "compare", !.part = p].at = "compare"
  <1> DEFINE c == [r EXCEPT !.at = "compare"]
  <1>1. "compare" \in ReadingSteps BY DEF ReadingSteps
  <1>2. c = ArchiveRead("compare", r.part, r.seen, r.parts, r.wrong) BY <1>1, ArchiveReadSets, Zenon
  <1>3. c \in ArchiveReads /\ c.at = "compare" BY <1>1, <1>2, ArchiveReadTyped, ArchiveReadFields
  <1>4. [r EXCEPT !.at = "compare", !.part = p] = [c EXCEPT !.part = p] BY Zenon
  <1> HIDE DEF c
  <1> QED BY <1>3, <1>4, ReadMovesOn, ArchiveReadTyped, ArchiveReadFields

LEMMA ComparisonMovesOn ==
    ASSUME NEW r \in ArchiveReads, NEW p \in Parts, NEW w \in SUBSET Parts
    PROVE  /\ [r EXCEPT !.part = p, !.wrong = w] \in ArchiveReads
           /\ [r EXCEPT !.part = p, !.wrong = w].at = r.at
  <1> DEFINE c == [r EXCEPT !.part = p]
  <1>2. c \in ArchiveReads /\ c.at = r.at BY ReadMovesOn, ArchiveReadTyped, ArchiveReadFields
  <1>3. [r EXCEPT !.part = p, !.wrong = w] = [c EXCEPT !.wrong = w] BY Zenon
  <1> HIDE DEF c
  <1>4. [c EXCEPT !.wrong = w] = ArchiveRead(c.at, c.part, c.seen, c.parts, w) BY <1>2, ArchiveReadSets, Zenon
  <1> QED BY <1>2, <1>3, <1>4, ArchiveReadTyped, ArchiveReadFields

LEMMA ReadsAreStates == \A r \in ArchiveReads : r \in ClientStates BY DEF ClientStates

\* A client reads on: what it has read is there.
LEMMA ReaderGoes ==
    ASSUME UploadInv, NEW c \in Clients, NEW r \in ClientStates, Goes(c, r),
           r.at \in {"read", "accept"}, UNCHANGED <<asset, object>>,
           r.seen <= asset.discards,
           r.seen = asset.discards =>
             /\ NobodyDiscards
             /\ \A p \in Parts : r.at = "accept" \/ p < r.part => object[p] = "good" /\ r.parts[p] = "good"
    PROVE  UploadInv'
  <1>1. client' \in [Clients -> ClientStates] /\ client'[c] = r /\ \A d \in Clients \ {c} : client'[d] = client[d]
    BY DEF UploadInv, UploadTypeOK, Goes
  <1>3. NobodyDiscards => NobodyDiscards' BY <1>1 DEF NobodyDiscards
  <1>4. ASSUME NEW d \in Clients PROVE ReadIsThere(d)'
    <2>2. CASE d = c BY <1>1, <1>3, <2>2 DEF ReadIsThere
    <2>3. CASE d # c BY <1>1, <1>3, <2>3 DEF ReadIsThere, UploadInv
    <2> QED BY <2>2, <2>3
  <1>5. VerifiedIsStored' BY DEF UploadInv, VerifiedIsStored
  <1> QED BY <1>1, <1>3, <1>4, <1>5 DEF UploadInv, UploadTypeOK

LEMMA CompleteKeeps == ASSUME UploadInv, Overtaking = FALSE, NEW c \in Clients, Complete(c) PROVE UploadInv'
  <1> DEFINE r == [at |-> "read", part |-> 1, seen |-> Seen, parts |-> asset.parts, wrong |-> {}]
  <1>1. asset.parts \in [Parts -> PartStates] /\ Seen \in Nat /\ 1 \in Parts
    BY AssetChanges, DatasetAssumption DEF UploadInv, UploadTypeOK, Seen, Parts
  <1>2. r \in ClientStates BY <1>1 DEF ClientStates, ArchiveReads
  <1>3. NobodyDiscards BY DEF Complete, Begins, NobodyDiscards
  <1>4. \A p \in Parts : ~(p < 1) BY DEF Parts
  <1>5. Goes(c, r) /\ UNCHANGED <<asset, object>> BY DEF Complete
  <1>6. r.at = "read" /\ r.seen = asset.discards /\ r.part = 1 BY DEF Seen
  <1> HIDE DEF r
  <1> QED BY <1>1, <1>2, <1>3, <1>4, <1>5, <1>6, ReaderGoes DEF Seen

LEMMA ReadKeeps == ASSUME UploadInv, NEW c \in Clients, ReadPart(c) PROVE UploadInv'
  <1> DEFINE r == client[c]
             holds == object[r.part] = "good" /\ r.parts[r.part] = "good"
             compare == [r EXCEPT !.at = "compare", !.part = 1]
             next == [r EXCEPT !.part = r.part + 1]
             accept == [r EXCEPT !.at = "accept"]
  <1>1. r \in ArchiveReads /\ r.at = "read" /\ ReadIsThere(c)
    BY ClientFields DEF ReadPart, At, UploadInv
  <1>2. r.part \in Parts /\ r.seen \in Nat BY <1>1 DEF ArchiveReads
  <1>3. UNCHANGED <<asset, object>> BY DEF ReadPart
  <1>4. asset.discards \in Nat BY AssetChanges DEF UploadInv, UploadTypeOK
  <1>5. CASE ~holds
    <2>1. Goes(c, compare) BY <1>5 DEF ReadPart
    <2>2. 1 \in Parts BY DatasetAssumption DEF Parts
    <2>3. compare \in ClientStates /\ compare.at = "compare" BY <1>1, <2>2, ReadIsCompared, ReadsAreStates
    <2> HIDE DEF compare
    <2> QED BY <1>3, <2>1, <2>3, ClientGoes, StoredStays
  <1>6. CASE holds /\ r.part < NParts
    <2>1. Goes(c, next) BY <1>6 DEF ReadPart
    <2>2. r.part + 1 \in Parts BY <1>2, <1>6, DatasetAssumption DEF Parts
    <2>3. next \in ClientStates /\ next.at = "read" /\ next.part = r.part + 1 /\ next.seen = r.seen /\ next.parts = r.parts
      <3>1. next = ArchiveRead(r.at, r.part + 1, r.seen, r.parts, r.wrong) BY <1>1, <2>2, ReadMovesOn
      <3> HIDE DEF next, r
      <3> QED BY <1>1, <2>2, <3>1, ArchiveReadTyped, ArchiveReadFields, ReadsAreStates
    <2> HIDE DEF next
    <2>5. next.seen <= asset.discards BY <1>1, <2>3 DEF ReadIsThere
    <2>6. ASSUME next.seen = asset.discards
          PROVE  /\ NobodyDiscards
                 /\ \A p \in Parts : p < next.part => object[p] = "good" /\ next.parts[p] = "good"
      BY <1>1, <1>6, <2>3, <1>2, <2>6 DEF ReadIsThere, Parts
    <2> QED BY <1>3, <2>1, <2>3, <2>5, <2>6, ReaderGoes
  <1>7. CASE holds /\ ~(r.part < NParts)
    <2>1. Goes(c, accept) BY <1>7 DEF ReadPart
    <2>2. accept \in ClientStates /\ accept.at = "accept" /\ accept.seen = r.seen /\ accept.parts = r.parts
      <3>1. accept = ArchiveRead("accept", r.part, r.seen, r.parts, r.wrong) BY <1>1, ReadIsAccepted
      <3>2. "accept" \in ReadingSteps BY DEF ReadingSteps
      <3> HIDE DEF accept, r
      <3> QED BY <1>1, <3>1, <3>2, ArchiveReadTyped, ArchiveReadFields, ReadsAreStates
    <2>3. \A p \in Parts : p < r.part \/ p = r.part BY <1>2, <1>7, DatasetAssumption DEF Parts
    <2> HIDE DEF accept
    <2>5. accept.seen <= asset.discards BY <1>1, <2>2 DEF ReadIsThere
    <2>6. ASSUME accept.seen = asset.discards
          PROVE  NobodyDiscards /\ \A p \in Parts : object[p] = "good" /\ accept.parts[p] = "good"
      BY <1>1, <1>7, <2>2, <2>3, <2>6 DEF ReadIsThere
    <2> QED BY <1>3, <2>1, <2>2, <2>5, <2>6, ReaderGoes
  <1> QED BY <1>5, <1>6, <1>7

LEMMA CompareKeeps == ASSUME UploadInv, NEW c \in Clients, ComparePart(c) PROVE UploadInv'
  <1> DEFINE r == client[c]
             wrong == r.wrong \cup {p \in {r.part} : object[p] # r.parts[p]}
             next == [r EXCEPT !.part = r.part + 1, !.wrong = wrong]
             wait == [at |-> "discard", wrong |-> wrong, seen |-> r.seen, then |-> IdleClient]
  <1>1. r \in ArchiveReads /\ r.at = "compare" BY ClientFields DEF ComparePart, At
  <1>2. r.part \in Parts /\ r.seen \in Nat /\ wrong \in SUBSET Parts BY <1>1 DEF ArchiveReads
  <1>3. UNCHANGED <<asset, object>> BY DEF ComparePart
  <1>4. CASE r.part < NParts
    <2>1. Goes(c, next)
      <3>1. r.part # NParts BY <1>2, <1>4, DatasetAssumption DEF Parts
      <3> QED BY <1>4, <3>1, Zenon DEF ComparePart
    <2>2. r.part + 1 \in Parts BY <1>2, <1>4, DatasetAssumption DEF Parts
    <2> HIDE DEF wrong, r
    <2>3. next \in ClientStates /\ next.at = "compare" BY <1>1, <1>2, <2>2, ComparisonMovesOn, ReadsAreStates
    <2> HIDE DEF next
    <2> QED BY <1>3, <2>1, <2>3, ClientGoes, StoredStays
  <1>5. CASE r.part = NParts /\ wrong = {}
    <2>1. Goes(c, IdleClient) BY <1>5, DatasetAssumption DEF ComparePart, Ends
    <2> QED BY <1>3, <2>1, ClientGoes, StoredStays, StatesOfClients
  <1>6. CASE ~(r.part < NParts) /\ ~(r.part = NParts /\ wrong = {})
    <2>1. Goes(c, wait) BY <1>6 DEF ComparePart
    <2> HIDE DEF wrong
    <2>3. wait \in ClientStates /\ wait.at = "discard" BY <1>2, DiscardWaitStates DEF Resumed
    <2> HIDE DEF wait
    <2> QED BY <1>3, <2>1, <2>3, ClientGoes, StoredStays
  <1> QED BY <1>4, <1>5, <1>6

\* What was read is what is accepted, unless a discard has begun since.
LEMMA AcceptKeeps == ASSUME UploadInv, NEW c \in Clients, AcceptArchive(c) PROVE UploadInv'
  <1>1. asset \in AssetRecords /\ Goes(c, IdleClient) /\ UNCHANGED object
    BY DEF UploadInv, UploadTypeOK, AcceptArchive, Ends
  <1>2. CASE UNCHANGED asset BY <1>1, <1>2, ClientGoes, StoredStays, StatesOfClients
  <1>3. CASE StillAsRead(c) /\ asset' = [asset EXCEPT !.verified = TRUE]
    <2>2. asset' = AssetRecord(asset.parts, TRUE, asset.discards)
      <3>1. TRUE \in BOOLEAN OBVIOUS
      <3> QED BY <1>1, <1>3, <3>1, AssetChanges, Zenon
    <2>3. asset' \in AssetRecords /\ asset'.parts = asset.parts /\ asset'.discards = asset.discards
      BY <1>1, AssetChanges, <2>2 DEF AssetRecord, AssetRecords
    <2>4. client' \in [Clients -> ClientStates] /\ client'[c] = IdleClient
            /\ \A d \in Clients \ {c} : client'[d] = client[d]
      BY <1>1, StatesOfClients DEF UploadInv, UploadTypeOK, Goes
    <2>5. UploadTypeOK' BY <1>1, <2>3, <2>4 DEF UploadInv, UploadTypeOK
    <2>6. NobodyDiscards => NobodyDiscards' BY <2>4, StatesOfClients DEF NobodyDiscards
    <2>7. ASSUME NEW d \in Clients PROVE ReadIsThere(d)'
      <3> QED BY <1>1, <2>3, <2>4, <2>6, StatesOfClients DEF ReadIsThere, UploadInv
    <2>8. NobodyDiscards /\ \A p \in Parts : object[p] = "good" /\ asset.parts[p] = "good"
      <3>2. ReadIsThere(c) BY DEF UploadInv
      <3> QED BY <1>3, <3>2 DEF ReadIsThere, AcceptArchive, At, StillAsRead, Seen
    <2>9. VerifiedIsStored' BY <1>1, <2>3, <2>8 DEF VerifiedIsStored
    <2> QED BY <2>5, <2>6, <2>7, <2>8, <2>9 DEF UploadInv
  <1> QED BY <1>2, <1>3 DEF AcceptArchive

------------
(* A discard: nothing is verified while it is at work, and whoever reads
   began before it. *)
LEMMA DiscardStates ==
    \A a \in {"deleting", "unrecord"}, l, w \in SUBSET Parts, t \in Resumed :
       /\ [at |-> a, left |-> l, wrong |-> w, then |-> t] \in DiscardSteps
       /\ [at |-> a, left |-> l, wrong |-> w, then |-> t] \in ClientStates
       /\ [at |-> a, left |-> l, wrong |-> w, then |-> t].at = a
  BY DEF DiscardSteps, ClientStates

LEMMA DiscardMovesOn ==
    ASSUME NEW r \in DiscardSteps, NEW l \in SUBSET Parts, NEW a
    PROVE  [r EXCEPT !.left = l, !.at = IF a THEN "unrecord" ELSE @] \in DiscardSteps
  <1> DEFINE c == [r EXCEPT !.left = l]
             next == IF a THEN "unrecord" ELSE r.at
  <1>1. \A d \in DiscardSteps, m \in SUBSET Parts : [d EXCEPT !.left = m] \in DiscardSteps /\ [d EXCEPT !.left = m].at = d.at
    BY DEF DiscardSteps
  <1>2. \A d \in DiscardSteps, s \in {"deleting", "unrecord"} : [d EXCEPT !.at = s] \in DiscardSteps
    BY DEF DiscardSteps
  <1>3. c \in DiscardSteps /\ c.at = r.at BY <1>1, Zenon
  <1>4. next \in {"deleting", "unrecord"} BY DEF DiscardSteps
  <1>5. [r EXCEPT !.left = l, !.at = IF a THEN "unrecord" ELSE @] = [c EXCEPT !.at = next] BY <1>3, Zenon
  <1> HIDE DEF c, next
  <1> QED BY <1>2, <1>3, <1>4, <1>5, Zenon

\* Once nothing is verified, and every reader is older than the last discard.
LEMMA DiscardGoesOn ==
    ASSUME UploadInv, NEW c \in Clients, NEW r \in ClientStates, Goes(c, r),
           r.at \notin {"read", "accept"}, asset' \in AssetRecords, DOMAIN object' = Parts,
           asset'.verified = FALSE, asset'.discards >= asset.discards,
           asset'.discards # asset.discards \/ ~NobodyDiscards
    PROVE  UploadInv'
  <1>1. client' \in [Clients -> ClientStates] /\ client'[c] = r /\ \A d \in Clients \ {c} : client'[d] = client[d]
    BY DEF UploadInv, UploadTypeOK, Goes
  <1>3. asset.discards \in Nat /\ asset'.discards \in Nat BY AssetChanges DEF UploadInv, UploadTypeOK
  <1>4. ASSUME NEW d \in Clients PROVE ReadIsThere(d)'
    <2>1. CASE d = c BY <1>1, <2>1 DEF ReadIsThere
    <2>2. CASE d # c
      <3>3. client[d].at \in {"read", "accept"} => client[d].seen \in Nat
        <4> QED BY ClientFields, ArchiveReadTyped
      <3>4. client[d].at \in {"read", "accept"} => client[d].seen < asset'.discards
        BY <1>3, <3>3 DEF ReadIsThere, UploadInv
      <3> QED BY <1>3, <1>1, <2>2, <3>3, <3>4 DEF ReadIsThere
    <2> QED BY <2>1, <2>2
  <1> QED BY <1>1, <1>4 DEF UploadInv, VerifiedIsStored, UploadTypeOK

LEMMA DiscardKeeps ==
    ASSUME UploadInv, NEW c \in Clients, BeginDiscard(c) \/ Unrecord(c)
    PROVE  UploadInv'
  <1> DEFINE r == client[c]
  <1>1. asset \in AssetRecords /\ UNCHANGED object /\ DOMAIN object' = Parts
    BY DEF UploadInv, UploadTypeOK, BeginDiscard, Unrecord
  <1>2. asset.parts \in [Parts -> PartStates] /\ asset.discards \in Nat /\ asset.verified \in BOOLEAN
    BY <1>1, AssetChanges
  <1>3. CASE BeginDiscard(c)
    <2> DEFINE deleting == [at |-> "deleting", left |-> r.wrong, wrong |-> r.wrong, then |-> r.then]
    <2>2. r.wrong \in SUBSET Parts /\ r.then \in Resumed
      BY <1>3, ClientFields DEF DiscardWaits, BeginDiscard, At
    <2>3. CASE UNCHANGED asset
      <3>1. Goes(c, IdleClient) \/ Goes(c, r.then)
        <4>1. ~(asset' = [asset EXCEPT !.discards = asset.discards + 1])
          <5>1. asset.discards + 1 \in Nat /\ asset.discards + 1 # asset.discards BY <1>2
          <5>2. [asset EXCEPT !.discards = asset.discards + 1] = AssetRecord(asset.parts, asset.verified, asset.discards + 1)
            BY <1>1, <5>1, AssetChanges, Zenon
          <5>3. AssetRecord(asset.parts, asset.verified, asset.discards + 1).discards = asset.discards + 1
            BY <1>2, <5>1, AssetFields
          <5> QED BY <2>3, <5>1, <5>2, <5>3, Zenon
        <4> QED BY <1>3, <4>1, Zenon DEF BeginDiscard, Ends
      <3> HIDE DEF r
      <3> QED BY <1>1, <2>2, <2>3, <3>1, ClientGoes, StoredStays, StatesOfClients
    <2>4. CASE asset' # asset
      <3>1. asset.verified = FALSE /\ asset' = [asset EXCEPT !.discards = asset.discards + 1] /\ Goes(c, deleting)
        BY <1>3, <2>4 DEF BeginDiscard
      <3>2. asset.discards + 1 \in Nat BY <1>2
      <3>3. asset' = AssetRecord(asset.parts, asset.verified, asset.discards + 1)
        BY <1>1, <3>1, <3>2, AssetChanges, Zenon
      <3>4. asset' \in AssetRecords /\ asset'.verified = FALSE /\ asset'.discards = asset.discards + 1
        BY <1>2, <3>1, <3>2, <3>3, AssetFields
      <3>5. deleting \in ClientStates /\ deleting.at = "deleting" BY <2>2, DiscardStates
      <3>6. asset'.discards >= asset.discards /\ asset'.discards # asset.discards BY <1>2, <3>4
      <3>7. deleting.at \notin {"read", "accept"} BY <3>5
      <3>8. Goes(c, deleting) BY <3>1
      <3> HIDE DEF deleting
      <3> QED BY <1>1, <3>4, <3>5, <3>6, <3>7, <3>8, DiscardGoesOn, Zenon
    <2> QED BY <2>3, <2>4
  <1>4. CASE Unrecord(c)
    <2> DEFINE ps == [p \in Parts |-> IF p \in r.wrong THEN Missing ELSE asset.parts[p]]
    <2>1. r \in DiscardSteps /\ ~NobodyDiscards BY <1>4, ClientFields DEF Unrecord, At, NobodyDiscards
    <2>2. r.then \in Resumed BY <2>1 DEF DiscardSteps
    <2>4. CASE UNCHANGED asset
      <3>1. Goes(c, IdleClient) \/ Goes(c, r.then) BY <1>4 DEF Unrecord, Ends
      <3> HIDE DEF r
      <3> QED BY <1>1, <2>2, <2>4, <3>1, ClientGoes, StoredStays, StatesOfClients
    <2>5. CASE asset' # asset
      <3>1. Goes(c, r.then) /\ asset' = [asset EXCEPT !.parts = ps] BY <1>4, <2>5, Zenon DEF Unrecord
      <3>2. ps \in [Parts -> PartStates] BY <1>2 DEF PartStates
      <3> HIDE DEF ps
      <3>3. asset' = AssetRecord(ps, asset.verified, asset.discards) BY <1>1, <3>1, <3>2, AssetChanges, Zenon
      <3>4. asset' \in AssetRecords /\ asset'.verified = FALSE /\ asset'.discards = asset.discards
        BY <1>2, <2>1, <3>2, <3>3, AssetFields DEF UploadInv
      <3>5. asset'.discards >= asset.discards BY <1>2, <3>4
      <3>6. r.then \in ClientStates /\ r.then.at \notin {"read", "accept"}
        <4> QED BY <2>2, StatesOfClients
      <3>7. Goes(c, r.then) BY <3>1
      <3> HIDE DEF r
      <3> QED BY <1>1, <2>1, <3>4, <3>5, <3>6, <3>7, DiscardGoesOn, Zenon
    <2> QED BY <2>4, <2>5
  <1> QED BY <1>3, <1>4

LEMMA DeleteKeeps == ASSUME UploadInv, NEW c \in Clients, DeleteObject(c) PROVE UploadInv'
  <1> DEFINE r == client[c]
  <1>1. r \in DiscardSteps /\ ~NobodyDiscards BY ClientFields DEF DeleteObject, At, NobodyDiscards
  <1>2. PICK p \in r.left : /\ object' = [object EXCEPT ![p] = Missing]
                            /\ Goes(c, [r EXCEPT !.left = @ \ {p},
                                                 !.at = IF r.left = {p} THEN "unrecord" ELSE @])
    BY Zenon DEF DeleteObject
  <1> DEFINE next == [r EXCEPT !.left = @ \ {p}, !.at = IF r.left = {p} THEN "unrecord" ELSE @]
  <1>3. next \in DiscardSteps
    <2> QED BY <1>1, DiscardMovesOn DEF DiscardSteps
  <1>4. next \in ClientStates /\ next.at \in {"deleting", "unrecord"} BY <1>3 DEF ClientStates, DiscardSteps
  <1>5. UNCHANGED asset /\ asset \in AssetRecords /\ asset.verified = FALSE
    <2>1. UNCHANGED asset /\ asset \in AssetRecords BY DEF DeleteObject, UploadInv, UploadTypeOK
    <2> QED BY <1>1, <2>1, AssetChanges DEF UploadInv
  <1>6. DOMAIN object' = Parts BY <1>2 DEF UploadInv, UploadTypeOK
  <1>8. Goes(c, next) BY <1>2
  <1>9. asset'.discards >= asset.discards BY <1>5, AssetChanges
  <1>10. next.at \notin {"read", "accept"} BY <1>4
  <1>11. asset' \in AssetRecords /\ asset'.verified = FALSE BY <1>5
  <1> HIDE DEF next
  <1> QED BY <1>1, <1>4, <1>6, <1>8, <1>9, <1>10, <1>11, DiscardGoesOn, Zenon

LEMMA TicketsKeep ==
    ASSUME UploadInv, NEW p \in Parts, NEW b, IssueTicket(p) \/ DirectPut(p, b)
    PROVE  UploadInv'
  <1>1. UNCHANGED <<asset, client>> BY DEF IssueTicket, DirectPut
  <1>2. CASE UNCHANGED object
    BY <1>1, <1>2 DEF UploadInv, UploadTypeOK, ReadIsThere, NobodyDiscards, VerifiedIsStored
  <1>3. CASE object[p] = Missing /\ object' = [object EXCEPT ![p] = b]
    <2> QED BY <1>1, <1>3, ObjectComes
  <1> QED BY <1>2, <1>3 DEF IssueTicket, DirectPut

LEMMA UploadSteps == ASSUME UploadInv, Overtaking = FALSE, UploadNext PROVE UploadInv'
  <1>1. ASSUME NEW c \in Clients, UploadStep(c) PROVE UploadInv'
    BY <1>1, PutKeeps, RecordKeeps, HeadKeeps, ReadKeeps, CompareKeeps, AcceptKeeps, DiscardKeeps, DeleteKeeps
       DEF UploadStep
  <1>2. ASSUME NEW c \in Clients, NEW p \in Parts, NEW b \in Bytes, BeginPart(c, p, b) \/ PartUploaded(c, p, b)
        PROVE  UploadInv'
    BY <1>2, RequestsBegin
  <1>3. ASSUME NEW c \in Clients, Complete(c) \/ Abandon(c) PROVE UploadInv'
    BY <1>3, CompleteKeeps, AbandonKeeps
  <1>4. ASSUME NEW p \in DirectParts, NEW b, IssueTicket(p) \/ DirectPut(p, b) PROVE UploadInv'
    BY <1>4, TicketsKeep, DatasetAssumption
  <1> QED BY <1>1, <1>2, <1>3, <1>4 DEF UploadNext

------------
(* The copies.  What keeps them accounted for: from the proof of the old
   job to the replacement of its identity the delivery lock is held, so
   the asset still names the job that was proven to have ended. *)
JobStates == {"none", "running"} \cup Final
SlotRecords == [entry : {"none", "prepared", "started"}, limits : Limits \cup {Unrecorded}]
CopyRecords == [request : CopyRequests \cup {Nothing}, ready : BOOLEAN]
Publishings == [at : {"idle", "prove", "replace", "submit"}, request : CopyRequests \cup {Nothing}]

CopyTypeOK ==
    /\ slot \in [Slots -> SlotRecords]
    /\ pjob \in [Slots -> JobStates]
    /\ limit \in Limits
    /\ copy \in CopyRecords
    /\ superseded \subseteq CopyRequests
    /\ publishing \in Publishings

Replaceable ==
    /\ publishing.at # "idle" => publishing.request \in CopyRequests
    /\ publishing.at = "replace" =>
          copy.request \in {Nothing, publishing.request} \/ pjob[copy.request] = "failed"
    /\ publishing.at = "submit" => copy.request = publishing.request

CopyInv == CopyTypeOK /\ Replaceable /\ CopiesAreAccounted

LEMMA CopyStarts == JobsInit /\ CopyInit => CopyInv
  <1> SUFFICES ASSUME JobsInit, CopyInit PROVE CopyInv
    OBVIOUS
  <1>1. NoSlot \in SlotRecords /\ NoSlot.entry = "none" BY DEF NoSlot, SlotRecords
  <1>2. slot \in [Slots -> SlotRecords] /\ pjob \in [Slots -> JobStates] /\ limit \in Limits
    BY <1>1 DEF JobsInit, JobStates
  <1>3. copy \in CopyRecords /\ publishing \in Publishings /\ publishing.at = "idle"
    BY DEF CopyInit, CopyRecords, Publishings, NotPublishing
  <1>4. \A r \in CopyRequests : slot[r].entry # "started" BY <1>1, DatasetAssumption DEF JobsInit
  <1> QED BY <1>2, <1>3, <1>4 DEF CopyInit, CopyInv, CopyTypeOK, Replaceable, CopiesAreAccounted

LEMMA CopyFields ==
    ASSUME CopyInv
    PROVE  /\ copy \in CopyRecords /\ copy.request \in CopyRequests \cup {Nothing} /\ copy.ready \in BOOLEAN
           /\ publishing \in Publishings /\ publishing.at \in {"idle", "prove", "replace", "submit"}
           /\ publishing.request \in CopyRequests \cup {Nothing}
           /\ NotPublishing \in Publishings /\ NotPublishing.at = "idle"
  BY DEF CopyInv, CopyTypeOK, CopyRecords, Publishings, NotPublishing

PublishingAt(a, r) == [at |-> a, request |-> r]

LEMMA PublishingMoves ==
    ASSUME CopyInv, NEW a \in {"idle", "prove", "replace", "submit"}
    PROVE  /\ [publishing EXCEPT !.at = a] \in Publishings
           /\ [publishing EXCEPT !.at = a].at = a
           /\ [publishing EXCEPT !.at = a].request = publishing.request
  <1>1. \A p \in Publishings, s \in {"idle", "prove", "replace", "submit"} :
           [p EXCEPT !.at = s] = PublishingAt(s, p.request)
    BY DEF Publishings, PublishingAt
  <1>2. [publishing EXCEPT !.at = a] = PublishingAt(a, publishing.request) BY <1>1, CopyFields, Zenon
  <1> QED BY <1>2, CopyFields DEF PublishingAt, Publishings

LEMMA CopyChanges ==
    ASSUME CopyInv, NEW r \in CopyRequests \cup {Nothing}
    PROVE  /\ [copy EXCEPT !.request = r] \in CopyRecords
           /\ [copy EXCEPT !.request = r].request = r
           /\ [copy EXCEPT !.request = r].ready = copy.ready
           /\ [copy EXCEPT !.ready = TRUE] \in CopyRecords
           /\ [copy EXCEPT !.ready = TRUE].request = copy.request
           /\ copy.ready => [copy EXCEPT !.ready = TRUE] = copy
  BY CopyFields DEF CopyRecords

------------
LEMMA LockMoves ==
    ASSUME CopyInv, UNCHANGED <<copy, superseded, jobVars>>, publishing' \in Publishings,
           Replaceable'
    PROVE  CopyInv'
  BY DEF CopyInv, CopyTypeOK, CopiesAreAccounted, jobVars

LEMMA PublishKeeps ==
    ASSUME CopyInv, (\E r \in CopyRequests : Publish(r)) \/ Prove \/ AbandonPublish
    PROVE  CopyInv'
  <1>1. UNCHANGED <<copy, superseded, jobVars>> BY DEF Publish, Prove, AbandonPublish
  <1>2. publishing' \in Publishings /\ Replaceable'
    <2>1. ASSUME NEW r \in CopyRequests, Publish(r) PROVE publishing' \in Publishings /\ Replaceable'
      <3>2. publishing' \in Publishings /\ publishing'.request = r
              /\ publishing'.at = (IF copy.request \in {Nothing, r} THEN "replace" ELSE "prove")
        BY <2>1 DEF PublishingAt, Publishings, Publish
      <3> QED BY <1>1, <3>2 DEF Replaceable
    <2>2. CASE publishing' = NotPublishing BY <2>2, CopyFields DEF Replaceable
    <2>3. CASE Prove /\ publishing' # NotPublishing
      <3>1. ThenAt("replace") /\ AllowsNewRequest(copy.request) /\ publishing.at = "prove" BY <2>3 DEF Prove
      <3>2. publishing' \in Publishings /\ publishing'.at = "replace" /\ publishing'.request = publishing.request
        BY <3>1, PublishingMoves DEF ThenAt
      <3>3. pjob[copy.request] = "failed" BY <3>1 DEF AllowsNewRequest, Proven
      <3> QED BY <1>1, <3>1, <3>2, <3>3 DEF Replaceable, CopyInv, jobVars
    <2> QED BY <2>1, <2>2, <2>3 DEF AbandonPublish
  <1> QED BY <1>1, <1>2, LockMoves

LEMMA ReplaceKeeps == ASSUME CopyInv, Replace PROVE CopyInv'
  <1> DEFINE old == copy.request
  <1>1. publishing.at = "replace" /\ UNCHANGED jobVars /\ publishing.request \in CopyRequests
          /\ (old \in {Nothing, publishing.request} \/ pjob[old] = "failed")
    BY DEF Replace, CopyInv, Replaceable
  <1>2. CASE ~MayReplace
    <2> QED BY <1>1, <1>2, LockMoves, CopyFields DEF Replaceable, Replace
  <1>3. CASE MayReplace
    <2>2. superseded \subseteq superseded' /\ superseded' \subseteq CopyRequests
            /\ (old \notin {Nothing, publishing.request} => old \in superseded')
      BY <1>3, CopyFields DEF PutAside, CopyInv, CopyTypeOK, Replace
    <2>3. CASE UNCHANGED copy /\ publishing' = NotPublishing
      <3>1. CopiesAreAccounted' BY <1>1, <2>2, <2>3 DEF CopyInv, CopiesAreAccounted, jobVars
      <3>2. CopyTypeOK' BY <1>1, <2>2, <2>3, CopyFields DEF CopyInv, CopyTypeOK, jobVars
      <3> QED BY <3>1, <3>2, <2>3, CopyFields DEF CopyInv, Replaceable
    <2>4. CASE copy' = [copy EXCEPT !.request = publishing.request] /\ ThenAt("submit")
      <3>1. copy' \in CopyRecords /\ copy'.request = publishing.request BY <1>1, <2>4, CopyChanges
      <3>2. publishing' \in Publishings /\ publishing'.at = "submit" /\ publishing'.request = publishing.request
        BY <2>4, PublishingMoves DEF ThenAt
      <3>3. ASSUME NEW r \in CopyRequests, slot[r].entry = "started"
            PROVE  r = publishing.request \/ (r \in superseded' /\ pjob[r] = "failed")
        <4> QED BY <1>1, <2>2, <3>3, DatasetAssumption DEF CopyInv, CopiesAreAccounted
      <3>4. CopiesAreAccounted' BY <1>1, <3>1, <3>3 DEF CopiesAreAccounted, jobVars
      <3>5. CopyTypeOK' BY <1>1, <2>2, <3>1, <3>2 DEF CopyInv, CopyTypeOK, jobVars
      <3> QED BY <3>4, <3>5, <1>1, <3>1, <3>2 DEF CopyInv, Replaceable
    <2> QED BY <1>3, <2>3, <2>4 DEF Replace
  <1> QED BY <1>2, <1>3

LEMMA SlotChanges ==
    ASSUME CopyInv, NEW r \in CopyRequests, slot' \in {Submitted(r, limit), OnlyPrepared(r, limit)}
    PROVE  slot' \in [Slots -> SlotRecords] /\ \A t \in Slots \ {r} : slot'[t] = slot[t]
  <1>1. slot \in [Slots -> SlotRecords] /\ r \in Slots /\ limit \in Limits
    BY DatasetAssumption DEF CopyInv, CopyTypeOK
  <1>3. /\ [entry |-> "started", limits |-> limit] \in SlotRecords
        /\ [entry |-> IF slot[r].entry = "started" THEN slot[r].entry ELSE "prepared", limits |-> limit] \in SlotRecords
    BY <1>1 DEF SlotRecords
  <1> QED BY <1>1, <1>3 DEF Submitted, OnlyPrepared

LEMMA SubmitKeeps == ASSUME CopyInv, SubmitCopy PROVE CopyInv'
  <1>1. publishing.request \in CopyRequests /\ copy.request = publishing.request
    BY DEF SubmitCopy, CopyInv, Replaceable
  <1>2. slot' \in {Submitted(publishing.request, limit), OnlyPrepared(publishing.request, limit)}
          /\ publishing' = NotPublishing /\ UNCHANGED <<copy, superseded, pjob, limit>>
    BY DEF SubmitCopy
  <1>3. slot' \in [Slots -> SlotRecords] /\ \A t \in Slots \ {publishing.request} : slot'[t] = slot[t]
    BY <1>1, <1>2, SlotChanges
  <1>5. Replaceable' BY <1>2, CopyFields DEF Replaceable
  <1>6. CopiesAreAccounted' BY <1>1, <1>2, <1>3, DatasetAssumption DEF CopyInv, CopiesAreAccounted
  <1> QED BY <1>2, <1>3, CopyFields, <1>5, <1>6 DEF CopyInv, CopyTypeOK

LEMMA JobsKeep ==
    ASSUME CopyInv, NEW r \in CopyRequests, CopyEnds(r) \/ (Accept(r) /\ UNCHANGED copyVars)
    PROVE  CopyInv'
  <1>1. UNCHANGED <<slot, limit, copy, superseded, publishing>> BY DEF CopyEnds, Accept, copyVars
  <1>3. PICK v \in JobStates : pjob' = [pjob EXCEPT ![r] = v]
    BY DEF CopyEnds, Accept, JobStates, Final
  <1>4. pjob' \in [Slots -> JobStates] /\ \A t \in Slots : pjob[t] = "failed" => pjob'[t] = "failed"
    BY DatasetAssumption, <1>3 DEF CopyEnds, Accept, CopyInv, CopyTypeOK
  <1>6. Replaceable'
    <2>2. copy.request = Nothing \/ copy.request \in Slots BY CopyFields, DatasetAssumption
    <2> QED BY <1>1, <1>4, <2>2 DEF Replaceable, CopyInv
  <1>7. CopiesAreAccounted' BY <1>1, <1>4, DatasetAssumption DEF CopyInv, CopiesAreAccounted
  <1> QED BY <1>1, <1>4, <1>6, <1>7 DEF CopyInv, CopyTypeOK

LEMMA ReadyKeeps == ASSUME CopyInv, DataReady PROVE CopyInv'
  <1>1. copy' = [copy EXCEPT !.ready = TRUE] /\ UNCHANGED <<superseded, publishing, slot, pjob, limit>>
    BY DEF DataReady, jobVars
  <1> QED BY <1>1, CopyChanges, CopyFields DEF CopyInv, CopyTypeOK, Replaceable, CopiesAreAccounted

LEMMA CopySteps == ASSUME CopyInv, CopyNext PROVE CopyInv' /\ (copy.ready => copy' = copy)
  <1>2. copy.ready => copy' = copy
    <2> SUFFICES ASSUME copy.ready PROVE copy' = copy
      OBVIOUS
    <2>1. CASE Replace BY <2>1 DEF Replace, MayReplace
    <2>2. CASE DataReady BY <2>2, CopyChanges, CopyFields DEF DataReady
    <2>3. CASE ~Replace /\ ~DataReady
      BY <2>3 DEF CopyNext, Publish, Prove, SubmitCopy, AbandonPublish, CopyEnds, Accept, copyVars
    <2> QED BY <2>1, <2>2, <2>3
  <1> QED BY PublishKeeps, ReplaceKeeps, SubmitKeeps, JobsKeep, ReadyKeeps, <1>2 DEF CopyNext

------------
(* A verified dataset is stored byte for byte, and every copy that was
   paid for is the one the asset names or ended without success and was
   put aside, for any number of clients, parts, discards and requests, if
   no request begins while a discard is deleting.  The condition is needed:
   nothing in datasets.rs ensures it, and the run dataset_discards shows
   what happens without it. *)
THEOREM DatasetsStayStored == ASSUME Overtaking = FALSE PROVE DatasetsSpec => []DatasetsAreStored
  <1>1. DatasetsInit => UploadInv /\ CopyInv BY UploadStarts, CopyStarts DEF DatasetsInit
  <1>2. UploadInv /\ CopyInv /\ [DatasetsNext]_<<uploadVars, jobVars, copyVars>> => UploadInv' /\ CopyInv'
    <2> SUFFICES ASSUME UploadInv, CopyInv, [DatasetsNext]_<<uploadVars, jobVars, copyVars>>
                 PROVE  UploadInv' /\ CopyInv'
      OBVIOUS
    <2>1. UploadInv'
      <3>1. CASE UploadNext BY <3>1, UploadSteps
      <3>2. CASE UNCHANGED uploadVars
        BY <3>2 DEF uploadVars, UploadInv, UploadTypeOK, ReadIsThere, NobodyDiscards, VerifiedIsStored
      <3> QED BY <3>1, <3>2 DEF DatasetsNext
    <2>2. CopyInv'
      <3>1. CASE CopyNext BY <3>1, CopySteps
      <3>2. CASE UNCHANGED <<jobVars, copyVars>>
        BY <3>2 DEF jobVars, copyVars, CopyInv, CopyTypeOK, Replaceable, CopiesAreAccounted
      <3> QED BY <3>1, <3>2 DEF DatasetsNext
    <2> QED BY <2>1, <2>2
  <1>3. UploadInv /\ CopyInv => DatasetsAreStored BY DEF UploadInv, CopyInv, DatasetsAreStored
  <1> QED BY <1>1, <1>2, <1>3, PTL DEF DatasetsSpec

(* Copies are accounted for, and ready data keeps the request that brought
   it, whatever discards overtake one another (data_copies.rs). *)
THEOREM CopiesStayAccounted == DatasetsSpec => []CopiesAreAccounted /\ ReadyKeepsItsCopy
  <1>1. DatasetsInit => CopyInv BY CopyStarts DEF DatasetsInit
  <1>2. CopyInv /\ [DatasetsNext]_<<uploadVars, jobVars, copyVars>> => CopyInv' /\ [copy.ready => copy' = copy]_copyVars
    <2> SUFFICES ASSUME CopyInv, [DatasetsNext]_<<uploadVars, jobVars, copyVars>>
                 PROVE  CopyInv' /\ [copy.ready => copy' = copy]_copyVars
      OBVIOUS
    <2>1. CASE CopyNext BY <2>1, CopySteps
    <2>2. CASE UNCHANGED <<jobVars, copyVars>>
      BY <2>2 DEF jobVars, copyVars, CopyInv, CopyTypeOK, Replaceable, CopiesAreAccounted
    <2> QED BY <2>1, <2>2 DEF DatasetsNext
  <1>3. CopyInv => CopiesAreAccounted BY DEF CopyInv
  <1> QED BY <1>1, <1>2, <1>3, PTL DEF DatasetsSpec, ReadyKeepsItsCopy
=============================================================================

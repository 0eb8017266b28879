------------------------ MODULE SlurmSubmissionProofs ------------------------
(* Proofs about the Slurm service over its gateway, for every number of
   Actions, renewals, requests, calls and jobs: type correctness, one job
   per Attempt, what is known of a submission is kept, and the claim of an
   Action is committed before the calls it answers for. *)
EXTENDS SlurmSubmission, TLAPS

------------
(* The gateway alone, for every set of scopes, intents, calls and jobs: an
   inductive invariant ties calls, gates, commands on their way and
   scheduler jobs together, and every step of the gateway keeps it. *)
ScopeGate(i) == gate[ScopeOf[i]]
HeldBy(i, phases) == ScopeGate(i).claim = i /\ ScopeGate(i).phase \in phases
NoEffect(i) == i \notin inflight /\ \A j \in Jobs : jobs[j] # i

(* Only a started claim has effects, and it has one: a command on its way
   or one job. *)
EffectsAreClaimed ==
    /\ \A i \in inflight : HeldBy(i, {"STARTED"}) /\ \A j \in Jobs : jobs[j] # i
    /\ \A j \in Jobs : jobs[j] # None => HeldBy(jobs[j], {"STARTED", "SUBMITTED"})
    /\ \A j, k \in Jobs : jobs[j] # None /\ jobs[j] = jobs[k] => j = k

GatesAreClaimed ==
    \A s \in Scopes :
        /\ gate[s].claim = None => gate[s].phase = "FREE"
        /\ gate[s].phase = "SUBMITTED" => gate[s].job # None /\ jobs[gate[s].job] = gate[s].claim

(* One call at a time is submitting an intent, and before it runs sbatch
   the intent has no effect at all. *)
StarterIsAlone ==
    \A p \in Invocations :
        /\ call[p].step \in {"starting", "sbatched"} =>
             /\ HeldBy(call[p].intent, {"STARTED"})
             /\ \A q \in Invocations : /\ call[q].step \in {"starting", "sbatched"}
                                       /\ ScopeOf[call[q].intent] = ScopeOf[call[p].intent]
                                       => q = p
        /\ call[p].step = "starting" => NoEffect(call[p].intent)
        /\ call[p].step = "recorded" => HeldBy(call[p].intent, {"SUBMITTED"})

(* An answer that names a job names the one the gate records. *)
AnswersAreTrue ==
    \A p \in Invocations :
        call[p].reply.kind \in {"SUBMITTED", "JOB_OBSERVED"} =>
            /\ call[p].step = "done"
            /\ HeldBy(call[p].intent, {"SUBMITTED"})
            /\ ScopeGate(call[p].intent).job = call[p].reply.job

GatewayInv ==
    /\ GatewayTypeOK
    /\ EffectsAreClaimed
    /\ GatesAreClaimed
    /\ StarterIsAlone
    /\ AnswersAreTrue

------------
(* What replacing the progress or the answer of one call leaves alone. *)
SameRequest(p) ==
    /\ call'[p].op = call[p].op
    /\ call'[p].intent = call[p].intent
    /\ call'[p].job = call[p].job
    /\ \A q \in Invocations \ {p} : call'[q] = call[q]

(* A call that moves on keeps its request and has no answer yet. *)
LEMMA GoesOn ==
  ASSUME GatewayTypeOK, NEW p \in Invocations, NEW s \in CallSteps, Go(p, s)
  PROVE  /\ call' \in [Invocations -> Requests]
         /\ SameRequest(p)
         /\ call'[p].step = s /\ call'[p].reply = call[p].reply
  <1>1. call[p] \in Requests
    BY DEF GatewayTypeOK
  <1> QED BY <1>1 DEF Go, SameRequest, GatewayTypeOK, Requests

(* A call that is answered keeps its request. *)
LEMMA Replied ==
  ASSUME GatewayTypeOK, NEW p \in Invocations, NEW r \in Replies, Reply(p, r)
  PROVE  /\ call' \in [Invocations -> Requests]
         /\ SameRequest(p)
         /\ call'[p].step = "done" /\ call'[p].reply = r
  <1>1. call[p] \in Requests
    BY DEF GatewayTypeOK
  <1>3. call' = [call EXCEPT ![p] = [call[p] EXCEPT !.step = "done", !.reply = r]]
    BY <1>1 DEF Reply, GatewayTypeOK, Requests
  <1> QED BY <1>1, <1>3 DEF SameRequest, GatewayTypeOK, Requests, CallSteps

(* The answers and the unsent call have their types. *)
LEMMA AnswerTypes ==
  /\ NoAnswer \in Replies /\ Refused \in Replies /\ Prepared \in Replies
  /\ \A j \in Jobs : Submitted(j) \in Replies /\ Observed(j) \in Replies
  BY DEF NoAnswer, Refused, Prepared, Submitted, Observed, Replies

(* So has a call that was never sent. *)
LEMMA UnsentType == Unsent \in Requests
  BY AnswerTypes DEF Unsent, Requests, CallSteps, JobOperations, LedgerOperations

(* An answer is well formed, and one that names a job names the gate's. *)
LEMMA EvidenceIsTrue ==
  ASSUME GatewayTypeOK, NEW p \in Invocations, NEW a \in Evidence(p)
  PROVE  /\ a \in Replies
         /\ a.kind \in {"SUBMITTED", "JOB_OBSERVED"} =>
              HeldBy(call[p].intent, {"SUBMITTED"}) /\ ScopeGate(call[p].intent).job = a.job
  <1>1. CASE a \in {Refused, Prepared}
    BY <1>1, AnswerTypes DEF Refused, Prepared
  <1>2. ASSUME NEW j \in Jobs, Holds(p, "SUBMITTED"), Gate(p).job = j,
               a \in {Submitted(j), Observed(j)}
        PROVE  /\ a \in Replies
               /\ HeldBy(call[p].intent, {"SUBMITTED"})
               /\ ScopeGate(call[p].intent).job = a.job
    <2>2. a.job = j
      BY <1>2 DEF Submitted, Observed
    <2> QED BY <1>2, AnswerTypes, <2>2 DEF Holds, Gate, HeldBy, ScopeGate
  <1> QED BY <1>1, <1>2 DEF Evidence

(* A call that was sent submits one of the known intents. *)
LEMMA CallScope ==
  ASSUME GatewayTypeOK, NEW p \in Invocations, call[p].step # "unsent"
  PROVE  /\ call[p].intent \in Intents /\ call[p].intent # None
         /\ ScopeOf[call[p].intent] \in Scopes
         /\ Gate(p) = ScopeGate(call[p].intent) /\ Gate(p) \in Gates
  BY GatewayAssumption DEF GatewayTypeOK, Gate, ScopeGate

(* The phase of one gate moves and nothing else does. *)
LEMMA PhaseMoves ==
  ASSUME GatewayTypeOK, NEW p \in Invocations, call[p].step # "unsent",
         NEW phase \in {"CLAIMED", "PREPARED", "STARTED", "SUBMITTED"}, Move(p, phase)
  PROVE  /\ gate' \in [Scopes -> Gates]
         /\ gate'[ScopeOf[call[p].intent]].phase = phase
         /\ gate'[ScopeOf[call[p].intent]].claim = Gate(p).claim
         /\ gate'[ScopeOf[call[p].intent]].job = Gate(p).job
         /\ \A s \in Scopes \ {ScopeOf[call[p].intent]} : gate'[s] = gate[s]
  <1> DEFINE s == ScopeOf[call[p].intent]
  <1>1. s \in Scopes /\ gate[s] \in Gates /\ Gate(p) = gate[s]
    BY CallScope DEF Gate, ScopeGate
  <1> QED BY <1>1 DEF Move, GatewayTypeOK, Gates

------------
(* A step that only answers a call keeps the invariant. *)
LEMMA AnsweringKeeps ==
  ASSUME GatewayInv, NEW p \in Invocations, call[p].step # "unsent",
         NEW r \in Replies, Reply(p, r), UNCHANGED <<gate, inflight, jobs>>,
         r.kind \in {"SUBMITTED", "JOB_OBSERVED"} =>
           HeldBy(call[p].intent, {"SUBMITTED"}) /\ ScopeGate(call[p].intent).job = r.job
  PROVE  GatewayInv'
  <1>0. GatewayTypeOK
    BY DEF GatewayInv
  <1>1. /\ call' \in [Invocations -> Requests] /\ SameRequest(p)
        /\ call'[p].step = "done" /\ call'[p].reply = r
    BY <1>0, Replied
  <1>2. \A i \in Intents : \A phases : HeldBy(i, phases)' <=> HeldBy(i, phases)
    BY DEF HeldBy, ScopeGate
  <1>3. GatewayTypeOK'
    BY <1>0, <1>1 DEF GatewayTypeOK, SameRequest
  <1>4. EffectsAreClaimed' /\ GatesAreClaimed'
    BY DEF GatewayInv, EffectsAreClaimed, GatesAreClaimed, HeldBy, ScopeGate
  <1>5. StarterIsAlone'
    BY <1>1 DEF GatewayInv, StarterIsAlone, HeldBy, ScopeGate, NoEffect, SameRequest
  <1>6. AnswersAreTrue'
    BY <1>1 DEF GatewayInv, AnswersAreTrue, HeldBy, ScopeGate, SameRequest
  <1> QED BY <1>3, <1>4, <1>5, <1>6 DEF GatewayInv

(* A claim finds its scope without effects, calls or answers to disturb. *)
LEMMA ClaimKeeps ==
  ASSUME GatewayInv, NEW p \in Invocations, Claim(p)
  PROVE  GatewayInv'
  <1> DEFINE i == call[p].intent
             s == ScopeOf[i]
  <1>0. GatewayTypeOK /\ call[p].step = "sent" /\ Gate(p).claim = None
    BY DEF GatewayInv, Claim
  <1>1. i \in Intents /\ i # None /\ s \in Scopes /\ Gate(p) = gate[s]
    BY <1>0, CallScope DEF ScopeGate
  <1>2. /\ call' \in [Invocations -> Requests] /\ SameRequest(p)
        /\ call'[p].step = "preparing" /\ call'[p].reply = call[p].reply
    BY <1>0, GoesOn DEF Claim, CallSteps
  <1>3. /\ gate' \in [Scopes -> Gates]
        /\ gate'[s] = [claim |-> i, phase |-> "CLAIMED", job |-> None]
        /\ \A t \in Scopes \ {s} : gate'[t] = gate[t]
    <2> QED BY <1>0, <1>1 DEF Claim, GatewayTypeOK, Gates
  <1>4. \A k \in Intents : ScopeOf[k] \in Scopes /\ k # None
    BY GatewayAssumption
  <1>5. \A k \in Intents : \A phases : HeldBy(k, phases) => ScopeOf[k] # s /\ HeldBy(k, phases)'
    BY <1>0, <1>1, <1>3, <1>4 DEF HeldBy, ScopeGate
  <1>6. UNCHANGED <<inflight, jobs>>
    BY DEF Claim
  <1>7. GatewayTypeOK'
    BY <1>0, <1>1, <1>2, <1>3, <1>6 DEF GatewayTypeOK, SameRequest
  <1>8. EffectsAreClaimed'
    BY <1>0, <1>5, <1>6 DEF GatewayInv, EffectsAreClaimed, GatewayTypeOK
  <1>9. GatesAreClaimed'
    BY <1>1, <1>3, <1>6 DEF GatewayInv, GatesAreClaimed
  <1>10. StarterIsAlone'
    BY <1>0, <1>2, <1>5, <1>6 DEF GatewayInv, StarterIsAlone, NoEffect, SameRequest, GatewayTypeOK
  <1>11. AnswersAreTrue'
    BY <1>0, <1>2, <1>3, <1>4, <1>5 DEF GatewayInv, AnswersAreTrue, SameRequest, ScopeGate, GatewayTypeOK
  <1> QED BY <1>7, <1>8, <1>9, <1>10, <1>11 DEF GatewayInv

(* A claimed gate becomes prepared: nothing has started yet. *)
LEMMA FinishPrepareKeeps ==
  ASSUME GatewayInv, NEW p \in Invocations, FinishPrepare(p)
  PROVE  GatewayInv'
  <1> DEFINE i == call[p].intent
             s == ScopeOf[i]
  <1>0. GatewayTypeOK /\ call[p].step = "preparing" /\ Holds(p, "CLAIMED")
    BY DEF GatewayInv, FinishPrepare
  <1>1. i \in Intents /\ i # None /\ s \in Scopes /\ Gate(p) = gate[s]
    BY <1>0, CallScope DEF ScopeGate
  <1>2. PICK r \in {Prepared, Refused} : Reply(p, r)
    BY DEF FinishPrepare
  <1>3. r \in Replies /\ r.kind \notin {"SUBMITTED", "JOB_OBSERVED"}
    BY AnswerTypes DEF Prepared, Refused
  <1>4. /\ call' \in [Invocations -> Requests] /\ SameRequest(p)
        /\ call'[p].step = "done" /\ call'[p].reply = r
    BY <1>0, <1>2, <1>3, Replied
  <1>5. /\ gate' \in [Scopes -> Gates]
        /\ gate'[s].phase = "PREPARED" /\ gate'[s].claim = i
        /\ \A t \in Scopes \ {s} : gate'[t] = gate[t]
    BY <1>0, <1>1, PhaseMoves DEF FinishPrepare, Holds
  <1>6. \A k \in Intents : ScopeOf[k] \in Scopes /\ k # None
    BY GatewayAssumption
  <1>7. \A k \in Intents, phases \in SUBSET {"STARTED", "SUBMITTED"} :
          HeldBy(k, phases) => ScopeOf[k] # s /\ HeldBy(k, phases)'
    BY <1>0, <1>1, <1>5, <1>6 DEF HeldBy, ScopeGate, Holds
  <1>8. UNCHANGED <<inflight, jobs>>
    BY DEF FinishPrepare
  <1>9. GatewayTypeOK'
    BY <1>0, <1>1, <1>4, <1>5, <1>8 DEF GatewayTypeOK, SameRequest
  <1>10. EffectsAreClaimed'
    BY <1>0, <1>7, <1>8 DEF GatewayInv, EffectsAreClaimed, GatewayTypeOK
  <1>11. GatesAreClaimed'
    BY <1>1, <1>5, <1>8 DEF GatewayInv, GatesAreClaimed
  <1>12. StarterIsAlone'
    BY <1>0, <1>4, <1>7, <1>8 DEF GatewayInv, StarterIsAlone, NoEffect, SameRequest, GatewayTypeOK
  <1>13. AnswersAreTrue'
    BY <1>0, <1>3, <1>4, <1>5, <1>6, <1>7
       DEF GatewayInv, AnswersAreTrue, SameRequest, ScopeGate, GatewayTypeOK
  <1> QED BY <1>9, <1>10, <1>11, <1>12, <1>13 DEF GatewayInv

(* A prepared gate starts: it had no effect, and no call was submitting. *)
LEMMA StartKeeps ==
  ASSUME GatewayInv, NEW p \in Invocations, Start(p)
  PROVE  GatewayInv'
  <1> DEFINE i == call[p].intent
             s == ScopeOf[i]
  <1>0. GatewayTypeOK /\ call[p].step = "sent" /\ Holds(p, "PREPARED")
    BY DEF GatewayInv, Start
  <1>1. i \in Intents /\ i # None /\ s \in Scopes /\ Gate(p) = gate[s]
    BY <1>0, CallScope DEF ScopeGate
  <1>2. /\ call' \in [Invocations -> Requests] /\ SameRequest(p)
        /\ call'[p].step = "starting" /\ call'[p].reply = call[p].reply
    BY <1>0, GoesOn DEF Start, CallSteps
  <1>3. /\ gate' \in [Scopes -> Gates]
        /\ gate'[s].phase = "STARTED" /\ gate'[s].claim = i
        /\ \A t \in Scopes \ {s} : gate'[t] = gate[t]
    BY <1>0, <1>1, PhaseMoves DEF Start, Holds
  <1>4. \A k \in Intents : ScopeOf[k] \in Scopes /\ k # None
    BY GatewayAssumption
  <1>5. \A k \in Intents, phases \in SUBSET {"STARTED", "SUBMITTED"} :
          HeldBy(k, phases) => ScopeOf[k] # s /\ HeldBy(k, phases)'
    BY <1>0, <1>1, <1>3, <1>4 DEF HeldBy, ScopeGate, Holds
  <1>6. UNCHANGED <<inflight, jobs>> /\ HeldBy(i, {"STARTED"})'
    <2> QED BY <1>2, <1>1, <1>3 DEF Start, HeldBy, ScopeGate, SameRequest
  <1>7. GatewayTypeOK'
    BY <1>0, <1>1, <1>2, <1>3, <1>6 DEF GatewayTypeOK, SameRequest
  <1>8. EffectsAreClaimed'
    BY <1>0, <1>5, <1>6 DEF GatewayInv, EffectsAreClaimed, GatewayTypeOK
  <1>9. GatesAreClaimed'
    BY <1>1, <1>3, <1>6 DEF GatewayInv, GatesAreClaimed
  <1>10. NoEffect(i)
    BY <1>0, <1>1, <1>5 DEF GatewayInv, EffectsAreClaimed, NoEffect
  <1>11. StarterIsAlone'
    BY <1>0, <1>1, <1>2, <1>5, <1>6, <1>10
       DEF GatewayInv, StarterIsAlone, NoEffect, SameRequest, GatewayTypeOK
  <1>12. AnswersAreTrue'
    BY <1>0, <1>2, <1>3, <1>4, <1>5 DEF GatewayInv, AnswersAreTrue, SameRequest, ScopeGate, GatewayTypeOK
  <1> QED BY <1>7, <1>8, <1>9, <1>11, <1>12 DEF GatewayInv

(* The started call runs sbatch: its intent had no effect until then. *)
LEMMA SbatchKeeps ==
  ASSUME GatewayInv, NEW p \in Invocations, Sbatch(p)
  PROVE  GatewayInv'
  <1> DEFINE i == call[p].intent
  <1>0. GatewayTypeOK /\ call[p].step = "starting" /\ UNCHANGED <<gate, jobs>>
    BY DEF GatewayInv, Sbatch
  <1>1. i \in Intents /\ inflight' = inflight \cup {i}
    BY <1>0, CallScope DEF Sbatch
  <1>2. /\ call' \in [Invocations -> Requests] /\ SameRequest(p)
        /\ call'[p].step = "sbatched" /\ call'[p].reply = call[p].reply
    BY <1>0, GoesOn DEF Sbatch, CallSteps
  <1>3. HeldBy(i, {"STARTED"}) /\ NoEffect(i)
    BY <1>0 DEF GatewayInv, StarterIsAlone
  <1>4. \A k \in Intents : \A phases : HeldBy(k, phases)' <=> HeldBy(k, phases)
    BY <1>0 DEF HeldBy, ScopeGate
  <1>5. GatewayTypeOK'
    BY <1>0, <1>1, <1>2 DEF GatewayTypeOK, SameRequest
  <1>6. EffectsAreClaimed'
    BY <1>0, <1>1, <1>3 DEF GatewayInv, EffectsAreClaimed, NoEffect, HeldBy, ScopeGate
  <1>8. ASSUME NEW q \in Invocations, call'[q].step = "starting"
        PROVE  ScopeOf[call[q].intent] # ScopeOf[i]
    <2> QED BY <1>2, <1>8, <1>0 DEF GatewayInv, StarterIsAlone, SameRequest
  <1>9. StarterIsAlone'
    BY <1>0, <1>1, <1>2, <1>8
       DEF GatewayInv, StarterIsAlone, NoEffect, SameRequest, HeldBy, ScopeGate
  <1>10. AnswersAreTrue'
    BY <1>0, <1>2 DEF GatewayInv, AnswersAreTrue, SameRequest, HeldBy, ScopeGate
  <1> QED BY <1>5, <1>6, <1>0, <1>9, <1>10 DEF GatewayInv, GatesAreClaimed

(* The submitting call records the job of its intent: the only one. *)
LEMMA RecordKeeps ==
  ASSUME GatewayInv, NEW p \in Invocations, Record(p)
  PROVE  GatewayInv'
  <1> DEFINE i == call[p].intent
             s == ScopeOf[i]
  <1>0. /\ GatewayTypeOK /\ call[p].step = "sbatched" /\ UNCHANGED <<inflight, jobs>>
    BY DEF GatewayInv, Record
  <1>1. /\ i \in Intents /\ i # None /\ s \in Scopes /\ gate[s] \in Gates
        /\ gate[s].claim = i /\ gate[s].phase = "STARTED"
    BY <1>0, CallScope DEF ScopeGate, GatewayInv, StarterIsAlone, HeldBy
  <1>2. PICK j \in Jobs :
          /\ jobs[j] = i
          /\ gate' = [gate EXCEPT ![s].phase = "SUBMITTED", ![s].job = j]
    BY DEF Record
  <1>3. /\ call' \in [Invocations -> Requests] /\ SameRequest(p)
        /\ call'[p].step = "recorded" /\ call'[p].reply = call[p].reply
    BY <1>0, GoesOn DEF Record, CallSteps
  <1>4. /\ gate' \in [Scopes -> Gates]
        /\ gate'[s] = [claim |-> i, phase |-> "SUBMITTED", job |-> j]
        /\ \A t \in Scopes \ {s} : gate'[t] = gate[t]
    <2>2. gate \in [Scopes -> Gates]
      BY <1>0 DEF GatewayTypeOK
    <2>3. gate'[s] = [claim |-> i, phase |-> "SUBMITTED", job |-> j]
      BY <1>1, <1>2, <2>2 DEF Gates
    <2>4. \A t \in Scopes \ {s} : gate'[t] = gate[t]
      BY <1>1, <1>2, <2>2
    <2>5. gate' = [t \in Scopes |-> gate'[t]]
      BY <1>2, <2>2
    <2> QED BY <1>1, <2>2, <2>3, <2>4, <2>5 DEF Gates
  <1>5. j # None /\ i \notin inflight
    BY <1>0, <1>2, GatewayAssumption DEF GatewayInv, EffectsAreClaimed
  <1>6. \A k \in Intents : ScopeOf[k] \in Scopes /\ k # None
    BY GatewayAssumption
  <1>7. \A k \in Intents : HeldBy(k, {"STARTED"}) /\ k # i => ScopeOf[k] # s
    BY <1>1, <1>6 DEF HeldBy, ScopeGate
  <1>8. \A k \in Intents : ScopeOf[k] # s =>
          \A phases : HeldBy(k, phases)' <=> HeldBy(k, phases)
    BY <1>4, <1>6 DEF HeldBy, ScopeGate
  <1>9. GatewayTypeOK'
    BY <1>0, <1>3, <1>4 DEF GatewayTypeOK, SameRequest
  <1>10. EffectsAreClaimed'
    <2>1. \A k \in inflight' : HeldBy(k, {"STARTED"})' /\ \A t \in Jobs : jobs'[t] # k
      BY <1>0, <1>5, <1>7, <1>8 DEF GatewayInv, EffectsAreClaimed, GatewayTypeOK
    <2>2. ASSUME NEW t \in Jobs, jobs'[t] # None
          PROVE  HeldBy(jobs[t], {"STARTED", "SUBMITTED"})'
      <3>1. jobs[t] \in Intents /\ HeldBy(jobs[t], {"STARTED", "SUBMITTED"})
        BY <1>0, <2>2 DEF GatewayInv, EffectsAreClaimed, GatewayTypeOK
      <3>2. CASE ScopeOf[jobs[t]] # s
        BY <3>1, <3>2, <1>0, <1>8 DEF HeldBy, ScopeGate
      <3>3. CASE ScopeOf[jobs[t]] = s
        BY <3>1, <3>3, <1>0, <1>1, <1>4 DEF HeldBy, ScopeGate
      <3> QED BY <3>2, <3>3
    <2> QED BY <2>1, <2>2, <1>0 DEF GatewayInv, EffectsAreClaimed
  <1>11. GatesAreClaimed'
    <2>1. ASSUME NEW t \in Scopes, t # s
          PROVE  /\ gate'[t].claim = None => gate'[t].phase = "FREE"
                 /\ gate'[t].phase = "SUBMITTED" =>
                      gate'[t].job # None /\ jobs'[gate'[t].job] = gate'[t].claim
      BY <2>1, <1>0, <1>4 DEF GatewayInv, GatesAreClaimed
    <2>3. jobs'[j] = i
      BY <1>0, <1>2
    <2> QED BY <2>1, <1>4, <2>3, <1>1, <1>5 DEF GatesAreClaimed
  <1>12. StarterIsAlone'
    <2>1. ASSUME NEW q \in Invocations, q # p, call[q].step \in {"starting", "sbatched"}
          PROVE  ScopeOf[call[q].intent] # s /\ call[q].intent \in Intents
      BY <2>1, <1>0 DEF GatewayInv, StarterIsAlone, GatewayTypeOK
    <2>2. ASSUME NEW q \in Invocations, q # p, call[q].step = "recorded"
          PROVE  ScopeOf[call[q].intent] # s /\ call[q].intent \in Intents
      BY <2>2, <1>0, <1>1 DEF GatewayInv, StarterIsAlone, GatewayTypeOK, HeldBy, ScopeGate
    <2>3. call'[p].intent = i /\ HeldBy(i, {"SUBMITTED"})'
      BY <1>1, <1>3, <1>4 DEF SameRequest, HeldBy, ScopeGate
    <2> QED BY <2>1, <2>2, <2>3, <1>0, <1>3, <1>8
            DEF GatewayInv, StarterIsAlone, NoEffect, SameRequest
  <1>13. AnswersAreTrue'
    <2>1. ASSUME NEW q \in Invocations, call[q].reply.kind \in {"SUBMITTED", "JOB_OBSERVED"}
          PROVE  ScopeOf[call[q].intent] # s /\ call[q].intent \in Intents /\ q # p
      BY <2>1, <1>0, <1>1 DEF GatewayInv, AnswersAreTrue, GatewayTypeOK, HeldBy, ScopeGate
    <2> QED BY <2>1, <1>3, <1>4, <1>6, <1>8 DEF GatewayInv, AnswersAreTrue, SameRequest, ScopeGate
  <1> QED BY <1>9, <1>10, <1>11, <1>12, <1>13 DEF GatewayInv

(* A command on its way creates the only job of its intent. *)
LEMMA CreateJobKeeps ==
  ASSUME GatewayInv, NEW i \in Intents, NEW j \in Jobs, CreateJob(i, j)
  PROVE  GatewayInv'
  <1>0. GatewayTypeOK /\ UNCHANGED <<gate, call>> /\ i \in inflight /\ jobs[j] = None
    BY DEF GatewayInv, CreateJob
  <1>1. jobs' = [jobs EXCEPT ![j] = i] /\ inflight' = inflight \ {i}
    BY DEF CreateJob
  <1>3. jobs'[j] = i /\ \A t \in Jobs \ {j} : jobs'[t] = jobs[t]
    BY <1>0, <1>1 DEF GatewayTypeOK
  <1>4. GatewayTypeOK'
    BY <1>0, <1>1 DEF GatewayTypeOK
  <1>5. EffectsAreClaimed' BY <1>0, <1>1, <1>3 DEF GatewayInv, EffectsAreClaimed, HeldBy, ScopeGate
  <1>6. GatesAreClaimed'
    <2>1. ASSUME NEW t \in Scopes, gate[t].phase = "SUBMITTED" PROVE gate[t].job # j
      BY <2>1, <1>0, GatewayAssumption DEF GatewayInv, GatesAreClaimed, GatewayTypeOK, Gates
    <2>2. ASSUME NEW t \in Scopes, gate[t].phase = "SUBMITTED" PROVE gate[t].job \in Jobs
      BY <2>2, <1>0 DEF GatewayInv, GatesAreClaimed, GatewayTypeOK, Gates
    <2> QED BY <2>1, <2>2, <1>0, <1>3 DEF GatewayInv, GatesAreClaimed
  <1>7. StarterIsAlone'
    <2>1. ASSUME NEW p \in Invocations, call[p].step = "starting" PROVE call[p].intent # i
      BY <2>1, <1>0 DEF GatewayInv, StarterIsAlone, NoEffect
    <2> QED BY <2>1, <1>0, <1>1, <1>3
            DEF GatewayInv, StarterIsAlone, NoEffect, HeldBy, ScopeGate
  <1>8. AnswersAreTrue'
    BY <1>0 DEF GatewayInv, AnswersAreTrue, HeldBy, ScopeGate
  <1> QED BY <1>4, <1>5, <1>6, <1>7, <1>8 DEF GatewayInv

(* A refused command leaves nothing. *)
LEMMA RefuseJobKeeps ==
  ASSUME GatewayInv, NEW i \in Intents, RefuseJob(i)
  PROVE  GatewayInv'
  <1>0. GatewayTypeOK /\ UNCHANGED <<gate, call, jobs>> /\ inflight' = inflight \ {i}
    BY DEF GatewayInv, RefuseJob
  <1>1. GatewayTypeOK' /\ EffectsAreClaimed' /\ GatesAreClaimed'
    BY <1>0 DEF GatewayInv, GatewayTypeOK, EffectsAreClaimed, GatesAreClaimed, HeldBy, ScopeGate
  <1>2. StarterIsAlone' /\ AnswersAreTrue'
    BY <1>0 DEF GatewayInv, StarterIsAlone, AnswersAreTrue, NoEffect, HeldBy, ScopeGate
  <1> QED BY <1>1, <1>2 DEF GatewayInv

(* A new or a forgotten call has no effect and no answer. *)
LEMMA IdlingKeeps ==
  ASSUME GatewayInv, NEW p \in Invocations, NEW c \in Requests,
         call' = [call EXCEPT ![p] = c], UNCHANGED <<gate, inflight, jobs>>,
         c.step \in {"unsent", "sent"}, c.reply.kind = "NONE",
         c.step # "unsent" => c.intent \in Intents
  PROVE  GatewayInv'
  <1>0. GatewayTypeOK
    BY DEF GatewayInv
  <1>1. call'[p] = c /\ \A q \in Invocations \ {p} : call'[q] = call[q]
    BY <1>0 DEF GatewayTypeOK
  <1>3. EffectsAreClaimed' /\ GatesAreClaimed'
    BY DEF GatewayInv, EffectsAreClaimed, GatesAreClaimed, HeldBy, ScopeGate
  <1>4. StarterIsAlone'
    BY <1>1 DEF GatewayInv, StarterIsAlone, NoEffect, HeldBy, ScopeGate
  <1>5. AnswersAreTrue'
    BY <1>1 DEF GatewayInv, AnswersAreTrue, HeldBy, ScopeGate
  <1> QED BY <1>0, <1>1, <1>3, <1>4, <1>5 DEF GatewayInv, GatewayTypeOK

(* Every step of one call keeps the invariant. *)
LEMMA ServeKeeps ==
  ASSUME GatewayInv, NEW p \in Invocations, Serve(p)
  PROVE  GatewayInv'
  <1>0. GatewayTypeOK
    BY DEF GatewayInv
  <1>1. CASE Answer(p)
    BY <1>0, <1>1, EvidenceIsTrue, AnsweringKeeps DEF Answer
  <1>2. CASE FinishSubmit(p)
    <2>1. call[p].step = "recorded" /\ HeldBy(call[p].intent, {"SUBMITTED"})
      BY <1>2 DEF FinishSubmit, GatewayInv, StarterIsAlone
    <2>2. Gate(p) = ScopeGate(call[p].intent) /\ Gate(p).job \in Jobs
      BY <1>0, <2>1, CallScope DEF GatewayInv, GatesAreClaimed, HeldBy, ScopeGate, Gates
    <2> QED BY <1>2, <2>1, <2>2, AnswerTypes, AnsweringKeeps DEF FinishSubmit, Submitted
  <1>3. CASE Abandon(p)
    <2> QED BY <1>3, AnswerTypes, AnsweringKeeps DEF Abandon, Refused
  <1> QED BY <1>1, <1>2, <1>3, ClaimKeeps, FinishPrepareKeeps, StartKeeps, SbatchKeeps,
             RecordKeeps DEF Serve

(* A call is served with the request it was sent with. *)
LEMMA ServesRequest ==
  ASSUME GatewayInv, NEW p \in Invocations, Serve(p)
  PROVE  call[p].step # "unsent" /\ SameRequest(p)
  <1>0. GatewayTypeOK
    BY DEF GatewayInv
  <1>1. CASE Answer(p)
    BY <1>0, <1>1, EvidenceIsTrue, Replied DEF Answer
  <1>2. CASE Claim(p) \/ Start(p) \/ Sbatch(p) \/ Record(p)
    BY <1>0, <1>2, GoesOn DEF Claim, Start, Sbatch, Record, CallSteps
  <1>3. CASE FinishPrepare(p) \/ Abandon(p)
    BY <1>0, <1>3, AnswerTypes, Replied DEF FinishPrepare, Abandon
  <1>4. CASE FinishSubmit(p)
    <2>1. call[p].step = "recorded" /\ HeldBy(call[p].intent, {"SUBMITTED"})
      BY <1>4 DEF FinishSubmit, GatewayInv, StarterIsAlone
    <2>2. Gate(p).job \in Jobs
      BY <1>0, <2>1, CallScope DEF GatewayInv, GatesAreClaimed, HeldBy, ScopeGate, Gates
    <2> QED BY <1>0, <1>4, <2>1, <2>2, AnswerTypes, Replied DEF FinishSubmit
  <1> QED BY <1>1, <1>2, <1>3, <1>4 DEF Serve

(* Sending a request keeps the invariant. *)
LEMMA SendKeeps ==
  ASSUME GatewayInv, NEW p \in Invocations, NEW op \in Operations, NEW i \in Intents,
         NEW j \in Jobs \cup {None}, Send(p, op, i, j)
  PROVE  GatewayInv'
  <1> DEFINE c == [step |-> "sent", op |-> op, intent |-> i, job |-> j, reply |-> NoAnswer]
  <1>1. c \in Requests
    BY AnswerTypes, GatewayAssumption DEF Requests, CallSteps, JobOperations, LedgerOperations
  <1> QED BY <1>1, IdlingKeeps DEF Send, NoAnswer

(* Forgetting an answer keeps the invariant. *)
LEMMA ForgetKeeps ==
  ASSUME GatewayInv, NEW p \in Invocations, Forget(p)
  PROVE  GatewayInv'
  <1> QED BY UnsentType, IdlingKeeps DEF Forget, Unsent, NoAnswer

(* An empty gateway satisfies the invariant. *)
LEMMA GatewayStarts == GatewayInit => GatewayInv
  <1> SUFFICES ASSUME GatewayInit PROVE GatewayInv
    OBVIOUS
  <1>2. Unsent.step = "unsent" /\ Unsent.reply.kind = "NONE"
    BY DEF Unsent, NoAnswer
  <1>3. GatewayTypeOK BY <1>2, UnsentType DEF GatewayInit, GatewayTypeOK, Gates
  <1>5. StarterIsAlone /\ AnswersAreTrue
    BY <1>2 DEF GatewayInit, StarterIsAlone, AnswersAreTrue
  <1> QED BY <1>3, <1>5 DEF GatewayInv, GatewayInit, EffectsAreClaimed, GatesAreClaimed

(* Every gateway step keeps the invariant. *)
LEMMA GatewayKeeps ==
  ASSUME GatewayInv, [GatewayNext]_gatewayVars
  PROVE  GatewayInv'
  <1>1. CASE UNCHANGED gatewayVars
    BY <1>1 DEF gatewayVars, GatewayInv, GatewayTypeOK, EffectsAreClaimed, GatesAreClaimed,
         StarterIsAlone, AnswersAreTrue, NoEffect, HeldBy, ScopeGate
  <1>2. CASE GatewayStep
    BY <1>2, ServeKeeps, CreateJobKeeps, RefuseJobKeeps DEF GatewayStep
  <1>3. CASE \E p \in Invocations : Forget(p)
    BY <1>3, ForgetKeeps
  <1>4. CASE \E p \in Invocations, op \in Operations, i \in Intents, j \in Jobs \cup {None} :
               Send(p, op, i, j)
    BY <1>4, SendKeeps
  <1> QED BY <1>1, <1>2, <1>3, <1>4 DEF GatewayNext

(* What the gateway has recorded as submitted stays so: no later call, of
   the same or of another intent, takes over a SUBMITTED ledger. *)
LEMMA SubmittedStays ==
  ASSUME GatewayInv, [GatewayNext]_gatewayVars,
         NEW i \in Intents, HeldBy(i, {"SUBMITTED"})
  PROVE  HeldBy(i, {"SUBMITTED"})' /\ ScopeGate(i)' = ScopeGate(i)
  <1> SUFFICES gate'[ScopeOf[i]] = gate[ScopeOf[i]]
    BY DEF HeldBy, ScopeGate
  <1>0. GatewayTypeOK /\ ScopeOf[i] \in Scopes /\ i # None
    BY GatewayAssumption DEF GatewayInv
  <1>1. ASSUME NEW p \in Invocations, call[p].step # "unsent", ScopeOf[call[p].intent] # ScopeOf[i],
               NEW phase \in {"CLAIMED", "PREPARED", "STARTED", "SUBMITTED"}, Move(p, phase)
        PROVE  gate'[ScopeOf[i]] = gate[ScopeOf[i]]
    BY <1>0, <1>1, PhaseMoves
  <1>2. ASSUME NEW p \in Invocations, Claim(p) PROVE gate'[ScopeOf[i]] = gate[ScopeOf[i]]
    BY <1>0, <1>2 DEF Claim, Gate, HeldBy, ScopeGate, GatewayTypeOK
  <1>3. ASSUME NEW p \in Invocations, FinishPrepare(p) \/ Start(p)
        PROVE  gate'[ScopeOf[i]] = gate[ScopeOf[i]]
    BY <1>0, <1>1, <1>3 DEF FinishPrepare, Start, Holds, Gate, HeldBy, ScopeGate
  <1>4. ASSUME NEW p \in Invocations, Record(p) PROVE gate'[ScopeOf[i]] = gate[ScopeOf[i]]
    <2>1. ScopeOf[call[p].intent] # ScopeOf[i]
      BY <1>4 DEF Record, GatewayInv, StarterIsAlone, HeldBy, ScopeGate
    <2> QED BY <1>0, <1>4, <2>1 DEF Record, GatewayTypeOK
  <1> QED BY <1>2, <1>3, <1>4
          DEF GatewayNext, GatewayStep, Serve, Answer, Sbatch, FinishSubmit, Abandon, CreateJob,
              RefuseJob, Forget, Send, gatewayVars

(* The gateway submits a claimed intent once, in whatever order its calls
   arrive and wherever they are abandoned: submit_locked runs sbatch only
   for a PREPARED ledger and never again after submit.started. *)
THEOREM GatewayIsSafe == GatewaySpec => []GatewayInv
<1>1. GatewayInv /\ [GatewayNext]_gatewayVars => GatewayInv'
  BY GatewayKeeps
<1> QED BY <1>1, GatewayStarts, PTL DEF GatewaySpec

------------
(* The service over the gateway. *)

\* The gateway's receipt for the Attempt names this job.
Receipt(j) == HeldBy(Frozen, {"SUBMITTED"}) /\ ScopeGate(Frozen).job = j

(* What a request carries from step to step. *)
Sound(t) ==
    /\ t.step = "arrived" /\ t.command = "Renew" => t.action \in Actions
    /\ t.step = "archive" => t.action \in Actions /\ t.other \in Actions
    /\ t.step \in {"ObserveJob", "owned"} => t.job # None
    /\ t.job # None => Receipt(t.job)

RequestsAreSound == \A r \in Threads : Sound(thread[r])

CallsAreFrozen ==
    \A p \in Invocations : call[p].step # "unsent" => call[p].intent = Frozen

ResultsAreReceipts ==
    \A a \in Actions : /\ result[a] # None => Receipt(result[a])
                       /\ status[a] = "VERIFIED" => result[a] # None

Inv ==
    /\ TypeOK
    /\ GatewayInv
    /\ CallsAreFrozen
    /\ RequestsAreSound
    /\ ResultsAreReceipts

------------
(* The one job of the Attempt follows from the invariant. *)
LEMMA InvOneJob == Inv => OneJobPerAttempt
  <1> SUFFICES ASSUME Inv PROVE OneJobPerAttempt
    OBVIOUS
  <1>0. Frozen \in Intents /\ Frozen # None
    BY SubmissionAssumption, GatewayAssumption
  <1>1. \A j, k \in Jobs : jobs[j] = Frozen /\ jobs[k] = Frozen => j = k
    BY <1>0 DEF Inv, GatewayInv, EffectsAreClaimed
  <1>3. ASSUME NEW a \in Actions, result[a] # None
        PROVE  jobs[result[a]] = Frozen /\ gate[ScopeOf[Frozen]].job = result[a]
    BY <1>0, <1>3, GatewayAssumption
       DEF Inv, ResultsAreReceipts, Receipt, HeldBy, ScopeGate, GatewayInv, GatesAreClaimed
  <1>4. \A a \in Actions : status[a] = "VERIFIED" => result[a] # None
    BY DEF Inv, ResultsAreReceipts
  <1> QED BY <1>1, <1>3, <1>4 DEF OneJobPerAttempt, Inv, GatewayInv, EffectsAreClaimed

(* Every step of the service is a step of the gateway or none at all. *)
LEMMA UsesGateway ==
  ASSUME TypeOK, [Next]_vars
  PROVE  [GatewayNext]_gatewayVars
  <1>1. ASSUME NEW r \in Threads, Rpc(r) PROVE GatewayNext
    <2>1. PICK p \in Invocations : Send(p, thread[r].step, Frozen, thread[r].job)
      BY <1>1 DEF Rpc
    <2> QED BY <2>1, <1>1, SubmissionAssumption DEF GatewayNext, Rpc, TypeOK, ThreadStates
  <1>2. ASSUME NEW r \in Threads, Receive(r) PROVE GatewayNext
    <2> QED BY <1>2 DEF GatewayNext, Receive, TypeOK, ThreadStates
  <1>3. ASSUME NEW p \in Invocations, ForgetOrphan(p) PROVE GatewayNext
    BY <1>3 DEF ForgetOrphan, GatewayNext
  <1>4. ASSUME NEW r \in Threads, Refuse(r) \/ Work(r), ~ Rpc(r), ~ Receive(r)
        PROVE  UNCHANGED gatewayVars
    BY <1>4 DEF Work, Refuse, BeginPrepare, BeginRenew, BeginExecute, BeginReconcile, Archive,
         RetainRecord, SavePlan, Link, ReplaceSlot, GiveUp, Finish
  <1>5. ASSUME NEW r \in Threads, NEW command \in Commands, NEW a \in Actions \cup {None},
               NEW w \in Renewals \cup {None}, Arrive(r, command, a, w)
        PROVE  UNCHANGED gatewayVars
    BY <1>5 DEF Arrive
  <1>6. ASSUME Crash \/ \E a \in Actions : Expire(a) PROVE UNCHANGED gatewayVars
    BY <1>6 DEF Crash, Expire
  <1>7. ASSUME UNCHANGED vars PROVE UNCHANGED gatewayVars
    BY <1>7 DEF vars
  <1>8. ASSUME GatewayStep PROVE GatewayNext
    BY <1>8 DEF GatewayNext
  <1> QED BY <1>1, <1>2, <1>3, <1>4, <1>5, <1>6, <1>7, <1>8 DEF Next

------------
(* A receipt lasts. *)
LEMMA ReceiptLasts ==
  ASSUME Inv, [Next]_vars, NEW j, Receipt(j)
  PROVE  Receipt(j)'
  <1>2. HeldBy(Frozen, {"SUBMITTED"})' /\ ScopeGate(Frozen)' = ScopeGate(Frozen)
    BY UsesGateway, SubmittedStays, SubmissionAssumption DEF Inv, Receipt
  <1> QED BY <1>2 DEF Receipt

\* What it takes for a request's new state to be fine.
Fine(t) == t \in ThreadStates /\ Sound(t)

(* One request moves to a fine state: all requests are fine. *)
LEMMA ThreadMoves ==
  ASSUME Inv, [Next]_vars, NEW r \in Threads, NEW t, Fine(t),
         thread' = [thread EXCEPT ![r] = t]
  PROVE  thread' \in [Threads -> ThreadStates] /\ RequestsAreSound'
  <1>3. ASSUME NEW q \in Threads PROVE Sound(thread[q])'
    <2>1. Sound(thread'[q])
      BY DEF Inv, TypeOK, RequestsAreSound, Fine
    <2> QED BY <2>1, ReceiptLasts DEF Sound
  <1> QED BY <1>3 DEF RequestsAreSound, Inv, TypeOK, Fine

(* The requests that do not move stay fine. *)
LEMMA ThreadsStay ==
  ASSUME Inv, [Next]_vars, UNCHANGED thread
  PROVE  thread' \in [Threads -> ThreadStates] /\ RequestsAreSound'
  <1> QED BY ReceiptLasts DEF Inv, TypeOK, RequestsAreSound, Sound

(* No request is fine, and so is the first state of one. *)
LEMMA NoThreadFine == Fine(NoThread) /\ NoThread.job = None
  BY DEF Fine, Sound, NoThread, ThreadStates, ThreadSteps, AllCommands

RequestsStayFine == thread' \in [Threads -> ThreadStates] /\ RequestsAreSound'

(* A request that only moves to another step carries the same things. *)
LEMMA ContinueFine ==
  ASSUME Inv, [Next]_vars, NEW r \in Threads, NEW s \in ThreadSteps, Continue(r, s),
         s \notin {"arrived", "ObserveJob", "owned"},
         s = "archive" => thread[r].action \in Actions /\ thread[r].other \in Actions
  PROVE  RequestsStayFine
  <1> DEFINE t == [thread[r] EXCEPT !.step = s]
  <1>1. thread[r] \in ThreadStates /\ Sound(thread[r])
    BY DEF Inv, TypeOK, RequestsAreSound
  <1>2. t \in ThreadStates
    BY <1>1 DEF ThreadStates
  <1>4. Sound(t) BY <1>1 DEF Sound, ThreadStates
  <1>5. thread' = [thread EXCEPT ![r] = t]
    BY DEF Continue
  <1> HIDE DEF t
  <1> QED BY <1>2, <1>4, <1>5, ThreadMoves DEF Fine, RequestsStayFine

(* A request that ends is gone. *)
LEMMA LeaveFine ==
  ASSUME Inv, [Next]_vars, NEW r \in Threads, Leave(r)
  PROVE  RequestsStayFine
  BY NoThreadFine, ThreadMoves DEF Leave, RequestsStayFine

(* The steps of preparing and renewing. *)
LEMMA PreparingFine ==
  ASSUME Inv, [Next]_vars, NEW r \in Threads,
         \/ BeginPrepare(r) \/ BeginRenew(r) \/ Archive(r) \/ RetainRecord(r)
         \/ SavePlan(r) \/ Link(r) \/ ReplaceSlot(r)
  PROVE  RequestsStayFine
  <1>0. /\ thread[r] \in ThreadStates /\ Sound(thread[r])
        /\ {"archive", "record", "plan", "link", "slot"} \subseteq ThreadSteps
    BY DEF Inv, TypeOK, RequestsAreSound, ThreadSteps
  <1>1. ASSUME BeginPrepare(r) PROVE RequestsStayFine
    <2>1. PICK a \in Actions : Enter(r, [thread[r] EXCEPT !.step = "plan", !.action = a])
      BY <1>1 DEF BeginPrepare
    <2> DEFINE t == [thread[r] EXCEPT !.step = "plan", !.action = a]
    <2>2. t \in ThreadStates /\ t.step = "plan" /\ t.job = thread[r].job
      BY <1>0 DEF ThreadStates
    <2>4. thread' = [thread EXCEPT ![r] = t]
      BY <2>1 DEF Enter
    <2> HIDE DEF t
    <2> QED BY <2>2, <1>0, <2>4, ThreadMoves DEF Fine, RequestsStayFine, Sound
  <1>2. ASSUME BeginRenew(r) PROVE RequestsStayFine
    <2>1. PICK b \in Actions : Enter(r, [thread[r] EXCEPT !.step = "archive", !.other = b])
      BY <1>2 DEF BeginRenew
    <2> DEFINE t == [thread[r] EXCEPT !.step = "archive", !.other = b]
    <2>2. /\ t \in ThreadStates /\ t.step = "archive" /\ t.job = thread[r].job
          /\ t.action = thread[r].action /\ t.other = b
      BY <1>0 DEF ThreadStates
    <2>4. Sound(t) BY <1>0, <2>2, <1>2 DEF Sound, BeginRenew, Admitted, Locks
    <2>5. thread' = [thread EXCEPT ![r] = t]
      BY <2>1 DEF Enter
    <2> HIDE DEF t
    <2> QED BY <2>2, <2>4, <2>5, ThreadMoves DEF Fine, RequestsStayFine
  <1>3. ASSUME Archive(r) PROVE RequestsStayFine
    <2>2. Continue(r, "record") \/ Continue(r, "archive")
      BY <1>3 DEF Archive
    <2> QED BY <1>0, <1>3, <2>2, ContinueFine DEF Archive, At, Sound
  <1>4. ASSUME RetainRecord(r) PROVE RequestsStayFine
    BY <1>0, <1>4, ContinueFine DEF RetainRecord
  <1>5. ASSUME SavePlan(r) PROVE RequestsStayFine
    <2> QED BY <1>0, <1>5, ContinueFine, LeaveFine DEF SavePlan
  <1>6. ASSUME Link(r) PROVE RequestsStayFine
    <2> QED BY <1>0, <1>6, ContinueFine, LeaveFine DEF Link
  <1>7. ASSUME ReplaceSlot(r) PROVE RequestsStayFine
    BY <1>7, LeaveFine DEF ReplaceSlot
  <1> QED BY <1>1, <1>2, <1>3, <1>4, <1>5, <1>6, <1>7

(* The steps of executing and reconciling: a job is carried only with the
   gateway's receipt for it. *)
LEMMA ExecutingFine ==
  ASSUME Inv, [Next]_vars, NEW r \in Threads,
         \/ BeginExecute(r) \/ BeginReconcile(r) \/ Rpc(r) \/ GiveUp(r) \/ Finish(r)
  PROVE  RequestsStayFine
  <1>0. /\ thread[r] \in ThreadStates /\ Sound(thread[r])
        /\ {"Prepare", "Inspect", "uncertain"} \subseteq ThreadSteps
    BY SubmissionAssumption DEF Inv, TypeOK, RequestsAreSound, ThreadSteps
  <1>1. ASSUME NEW s \in {"Prepare", "Inspect"}, Enter(r, [thread[r] EXCEPT !.step = s])
        PROVE  RequestsStayFine
    <2> DEFINE t == [thread[r] EXCEPT !.step = s]
    <2>1. t \in ThreadStates /\ t.step = s /\ t.job = thread[r].job
      BY <1>0 DEF ThreadStates
    <2>3. thread' = [thread EXCEPT ![r] = t]
      BY <1>1 DEF Enter
    <2> HIDE DEF t
    <2> QED BY <2>1, <1>0, <2>3, ThreadMoves DEF Fine, RequestsStayFine, Sound
  <1>2. ASSUME BeginExecute(r) \/ BeginReconcile(r) PROVE RequestsStayFine
    BY <1>1, <1>2 DEF BeginExecute, BeginReconcile
  <1>3. ASSUME Rpc(r) PROVE RequestsStayFine
    <2>1. PICK p \in Invocations : thread' = [thread EXCEPT ![r].call = p]
      BY <1>3 DEF Rpc
    <2> DEFINE t == [thread[r] EXCEPT !.call = p]
    <2>2. /\ t \in ThreadStates /\ t.step = thread[r].step /\ t.job = thread[r].job
          /\ t.command = thread[r].command /\ t.action = thread[r].action /\ t.other = thread[r].other
      BY <1>0 DEF ThreadStates
    <2>4. thread' = [thread EXCEPT ![r] = t]
      BY <2>1
    <2> HIDE DEF t
    <2> QED BY <2>2, <1>0, <2>4, ThreadMoves DEF Fine, RequestsStayFine, Sound
  <1>4. ASSUME GiveUp(r) PROVE RequestsStayFine
    <2> DEFINE t == [thread[r] EXCEPT !.step = "uncertain", !.call = None]
    <2>1. t \in ThreadStates /\ t.step = "uncertain" /\ t.job = thread[r].job
      BY <1>0 DEF ThreadStates
    <2>3. thread' = [thread EXCEPT ![r] = t]
      BY <1>0, <1>4 DEF GiveUp, Inv, TypeOK, ThreadStates
    <2> HIDE DEF t
    <2> QED BY <2>1, <1>0, <2>3, ThreadMoves DEF Fine, RequestsStayFine, Sound
  <1>5. ASSUME Finish(r) PROVE RequestsStayFine
    BY <1>5, LeaveFine DEF Finish
  <1> QED BY <1>2, <1>3, <1>4, <1>5

(* An answer is read: it names a job only with the gateway's receipt. *)
LEMMA ReceiveFine ==
  ASSUME Inv, [Next]_vars, NEW r \in Threads, Receive(r)
  PROVE  RequestsStayFine
  <1> DEFINE p == thread[r].call
             reply == call[p].reply
             t == AfterReply(r, reply)
  <1>0. /\ thread[r] \in ThreadStates /\ Sound(thread[r])
        /\ {"Submit", "ObserveJob", "owned", "uncertain"} \subseteq ThreadSteps
    BY SubmissionAssumption DEF Inv, TypeOK, RequestsAreSound, ThreadSteps
  <1>1. p \in Invocations /\ call[p] \in Requests /\ call[p].step = "done"
    BY <1>0 DEF Receive, ThreadStates, Inv, GatewayInv, GatewayTypeOK
  <1>2. reply.kind \in {"SUBMITTED", "JOB_OBSERVED"} => Receipt(reply.job)
    BY <1>1 DEF Inv, GatewayInv, AnswersAreTrue, CallsAreFrozen, Receipt
  <1>3. reply.job \in Jobs \cup {None} /\ (Receipt(reply.job) => reply.job # None)
    <2>1. reply.job \in Jobs \cup {None}
      BY <1>1 DEF Requests, Replies
    <2> QED BY <2>1, SubmissionAssumption, GatewayAssumption
            DEF Inv, GatewayInv, GatesAreClaimed, Receipt, HeldBy, ScopeGate
  <1>4. ASSUME NEW s \in {"Submit", "owned", "uncertain"},
               s = "owned" => thread[r].step = "ObserveJob"
        PROVE  Fine([thread[r] EXCEPT !.step = s, !.call = None])
    <2> DEFINE u == [thread[r] EXCEPT !.step = s, !.call = None]
    <2>1. u \in ThreadStates /\ u.step = s /\ u.job = thread[r].job
      BY <1>0 DEF ThreadStates
    <2> HIDE DEF u
    <2>2. Fine(u)
      BY <1>0, <1>4, <2>1 DEF Sound, Fine
    <2> QED BY <2>2 DEF u
  <1>5. ASSUME reply.kind = "SUBMITTED"
        PROVE  Fine([thread[r] EXCEPT !.step = "ObserveJob", !.call = None, !.job = reply.job])
    <2> DEFINE u == [thread[r] EXCEPT !.step = "ObserveJob", !.call = None, !.job = reply.job]
    <2>1. u \in ThreadStates /\ u.step = "ObserveJob" /\ u.job = reply.job
      BY <1>0, <1>3 DEF ThreadStates
    <2> HIDE DEF u
    <2>2. Fine(u)
      BY <1>2, <1>3, <1>5, <2>1 DEF Sound, Fine
    <2> QED BY <2>2 DEF u
  <1>7. thread' = [thread EXCEPT ![r] = t]
    BY DEF Receive
  <1>8. Fine(t) BY <1>4, <1>5 DEF AfterReply
  <1> HIDE DEF t
  <1> QED BY <1>7, <1>8, ThreadMoves DEF RequestsStayFine

(* A new request carries no job; an expired Action is one to be renewed. *)
LEMMA ArriveFine ==
  ASSUME Inv, [Next]_vars, NEW r \in Threads, NEW command \in Commands,
         NEW a \in Actions \cup {None}, NEW w \in Renewals \cup {None},
         Arrive(r, command, a, w)
  PROVE  RequestsStayFine
  <1> DEFINE t == [NoThread EXCEPT !.step = "arrived", !.command = command, !.action = a,
                     !.late = command \in {"Renew", "Execute"} /\ a \in expired,
                     !.renewal = w]
  <1>1. command \in AllCommands /\ "arrived" \in ThreadSteps
    BY SubmissionAssumption DEF AllCommands, ThreadSteps
  <1>3. t \in ThreadStates BY <1>1, NoThreadFine DEF Fine, ThreadStates, NoThread
  <1>4. t.step = "arrived" /\ t.command = command /\ t.action = a /\ t.job = None
    BY DEF NoThread
  <1>5. command = "Renew" => a \in Actions
    BY DEF Arrive
  <1>6. thread' = [thread EXCEPT ![r] = t]
    BY DEF Arrive
  <1> HIDE DEF t
  <1>7. Fine(t)
    BY <1>3, <1>4, <1>5 DEF Sound, Fine
  <1> QED BY <1>6, <1>7, ThreadMoves DEF RequestsStayFine

(* Requests stay fine in every step of the service. *)
LEMMA RequestsKeep ==
  ASSUME Inv, [Next]_vars
  PROVE  RequestsStayFine
  <1>1. ASSUME NEW r \in Threads, Work(r) PROVE RequestsStayFine
    BY <1>1, PreparingFine, ExecutingFine, ReceiveFine DEF Work
  <1>2. ASSUME NEW r \in Threads, Refuse(r) PROVE RequestsStayFine
    BY <1>2, NoThreadFine, ThreadMoves DEF Refuse, RequestsStayFine
  <1>3. ASSUME Crash PROVE RequestsStayFine
    <2>2. thread' = [r \in Threads |-> NoThread]
      BY <1>3 DEF Crash
    <2> QED BY NoThreadFine, <2>2 DEF RequestsStayFine, RequestsAreSound, Sound, Fine, NoThread
  <1>4. ASSUME \/ \E a \in Actions : Expire(a)
               \/ GatewayStep /\ UNCHANGED serverVars
               \/ \E p \in Invocations : ForgetOrphan(p)
               \/ UNCHANGED vars
        PROVE  RequestsStayFine
    BY <1>4, ThreadsStay DEF Expire, ForgetOrphan, serverVars, vars, RequestsStayFine
  <1> QED BY <1>1, <1>2, <1>3, <1>4, ArriveFine DEF Next

------------
(* The service asks the gateway for nothing but the frozen intent. *)
LEMMA CallsKeep ==
  ASSUME Inv, [Next]_vars
  PROVE  CallsAreFrozen'
  <1>0. call \in [Invocations -> Requests] /\ CallsAreFrozen
    BY DEF Inv, GatewayInv, GatewayTypeOK
  <1>1. ASSUME NEW r \in Threads, Rpc(r) PROVE CallsAreFrozen'
    <2>1. PICK p \in Invocations : Send(p, thread[r].step, Frozen, thread[r].job)
      BY <1>1 DEF Rpc
    <2> QED BY <1>0, <2>1 DEF Send, CallsAreFrozen
  <1>2. ASSUME NEW p \in Invocations, Forget(p) PROVE CallsAreFrozen'
    BY <1>0, <1>2 DEF Forget, Unsent, CallsAreFrozen
  <1>3. ASSUME NEW p \in Invocations, Serve(p) PROVE CallsAreFrozen'
    BY <1>0, <1>3, ServesRequest DEF SameRequest, CallsAreFrozen, Inv
  <1>4. ASSUME UNCHANGED call PROVE CallsAreFrozen'
    BY <1>0, <1>4 DEF CallsAreFrozen
  <1>5. ASSUME GatewayStep PROVE CallsAreFrozen'
    BY <1>3, <1>4, <1>5 DEF GatewayStep, CreateJob, RefuseJob
  <1>6. ASSUME NEW r \in Threads, Receive(r) PROVE CallsAreFrozen'
    <2> QED BY <1>2, <1>6 DEF Receive, Inv, TypeOK, ThreadStates
  <1>7. ASSUME NEW r \in Threads, Refuse(r) \/ Work(r), ~ Rpc(r), ~ Receive(r)
        PROVE  UNCHANGED call
    BY <1>7 DEF Work, Refuse, BeginPrepare, BeginRenew, BeginExecute, BeginReconcile, Archive,
         RetainRecord, SavePlan, Link, ReplaceSlot, GiveUp, Finish, gatewayVars
  <1>8. ASSUME \/ Crash
               \/ \E a \in Actions : Expire(a)
               \/ \E r \in Threads, command \in Commands, a \in Actions \cup {None},
                     w \in Renewals \cup {None} : Arrive(r, command, a, w)
               \/ UNCHANGED vars
        PROVE  UNCHANGED call
    BY <1>8 DEF Crash, Expire, Arrive, vars, gatewayVars
  <1> QED BY <1>1, <1>2, <1>4, <1>5, <1>6, <1>7, <1>8 DEF Next, ForgetOrphan

(* The files of the service, apart from what its requests carry. *)
FilesTypeOK ==
    /\ status \in [Actions -> Statuses]
    /\ result \in [Actions -> Jobs \cup {None}]
    /\ expired \subseteq Actions /\ archived \subseteq Actions
    /\ slot \in Actions \cup {None}
    /\ records \in [Renewals -> [original : Actions \cup {None},
                                 replacement : Actions \cup {None}]]
    /\ successor \in [Actions -> Actions \cup {None}]
    /\ lock \in Threads \cup {None}

(* They keep their types. *)
LEMMA FilesKeep ==
  ASSUME Inv, [Next]_vars
  PROVE  FilesTypeOK'
  <1>0. FilesTypeOK
    BY DEF Inv, TypeOK, FilesTypeOK
  <1>1. ASSUME NEW r \in Threads, Work(r) PROVE FilesTypeOK'
    <2>0. /\ thread[r] \in ThreadStates /\ Sound(thread[r])
          /\ {"PREPARED", "EXECUTING", "RECONCILE_REQUIRED", "VERIFIED"} \subseteq Statuses
      BY DEF Inv, TypeOK, RequestsAreSound, Statuses
    <2>1. CASE BeginPrepare(r)
      BY <1>0, <2>1 DEF BeginPrepare, FilesTypeOK, Enter
    <2>2. CASE BeginRenew(r)
      BY <1>0, <2>2 DEF BeginRenew, FilesTypeOK, Enter, saved
    <2>3. CASE BeginExecute(r)
      BY <1>0, <2>0, <2>3 DEF BeginExecute, FilesTypeOK, Enter
    <2>4. CASE BeginReconcile(r)
      BY <1>0, <2>0, <2>4 DEF BeginReconcile, FilesTypeOK, Enter
    <2>5. CASE Archive(r)
      BY <1>0, <2>0, <2>5 DEF Archive, Sound, At, Action, FilesTypeOK, Continue
    <2>6. CASE RetainRecord(r)
      <3>1. [original |-> Action(r), replacement |-> thread[r].other] \in
              [original : Actions \cup {None}, replacement : Actions \cup {None}]
        BY <2>0 DEF Action, ThreadStates
      <3> QED BY <1>0, <2>6, <3>1 DEF RetainRecord, FilesTypeOK, Continue
    <2>7. CASE SavePlan(r)
      BY <1>0, <2>0, <2>7 DEF SavePlan, FilesTypeOK, Continue, Leave
    <2>8. CASE Link(r)
      <3>1. thread[r].other \in Actions \cup {None}
        BY <2>0 DEF ThreadStates
      <3> QED BY <1>0, <2>8, <3>1 DEF Link, FilesTypeOK, Continue, Leave
    <2>9. CASE ReplaceSlot(r)
      <3> QED BY <1>0, <2>9, <2>0 DEF ReplaceSlot, FilesTypeOK, Leave, ThreadStates
    <2>10. CASE Rpc(r) \/ Receive(r) \/ GiveUp(r)
      BY <1>0, <2>10 DEF Rpc, Receive, GiveUp, FilesTypeOK, saved
    <2>11. CASE Finish(r)
      <3> DEFINE a == Action(r)
                 known == IF thread[r].job # None THEN thread[r].job ELSE result[a]
      <3>2. a \in Actions => known \in Jobs \cup {None} BY <1>0, <2>0 DEF FilesTypeOK, ThreadStates
      <3>5. (\E to \in Resolved(r) : status' = [status EXCEPT ![a] = to]) \/ UNCHANGED status
        BY <2>11 DEF Finish
      <3>6. result' \in [Actions -> Jobs \cup {None}] BY <1>0, <3>2, <2>11 DEF FilesTypeOK, Finish
      <3>7. status' \in [Actions -> Statuses] BY <1>0, <2>0, <3>5 DEF FilesTypeOK, Resolved
      <3> QED BY <1>0, <2>11, <3>6, <3>7 DEF Finish, FilesTypeOK, Leave
    <2> QED BY <1>1, <2>1, <2>2, <2>3, <2>4, <2>5, <2>6, <2>7, <2>8, <2>9, <2>10, <2>11 DEF Work
  <1>2. ASSUME NEW a \in Actions, Expire(a) PROVE FilesTypeOK'
    BY <1>0, <1>2 DEF Expire, FilesTypeOK, saved
  <1>3. ASSUME Crash PROVE FilesTypeOK'
    BY <1>0, <1>3 DEF Crash, FilesTypeOK, saved
  <1>4. ASSUME NEW r \in Threads, Refuse(r) PROVE FilesTypeOK'
    BY <1>0, <1>4 DEF Refuse, FilesTypeOK, saved
  <1>5. ASSUME NEW r \in Threads, NEW command \in Commands, NEW a \in Actions \cup {None},
               NEW w \in Renewals \cup {None}, Arrive(r, command, a, w)
        PROVE  FilesTypeOK'
    BY <1>0, <1>5 DEF Arrive, FilesTypeOK, saved
  <1>6. ASSUME UNCHANGED serverVars PROVE FilesTypeOK'
    BY <1>0, <1>6 DEF serverVars, FilesTypeOK, saved
  <1> QED BY <1>1, <1>2, <1>3, <1>4, <1>5, <1>6 DEF Next, ForgetOrphan, vars

------------
(* What is committed of an Action: an owned job with its receipt, never
   over another one, and nothing that takes a status back. *)
StatusKept(a) ==
    /\ result[a] # None => result'[a] = result[a]
    /\ status[a] = "VERIFIED" => status'[a] = "VERIFIED"
    /\ status[a] \in {"EXECUTING", "RECONCILE_REQUIRED"} => status'[a] \notin {"NONE", "PREPARED"}

Committed(a) ==
    /\ StatusKept(a)
    /\ result'[a] # result[a] => Receipt(result'[a])
    /\ status'[a] = "VERIFIED" => status[a] = "VERIFIED" \/ result'[a] # None

(* finish commits like that, whatever was committed since the claim. *)
LEMMA FinishCommits ==
  ASSUME Inv, NEW r \in Threads, Finish(r), NEW b \in Actions
  PROVE  Committed(b)
  <1> DEFINE a == Action(r)
             known == IF thread[r].job # None THEN thread[r].job ELSE result[a]
  <1>0. /\ status \in [Actions -> Statuses] /\ result \in [Actions -> Jobs \cup {None}]
        /\ Sound(thread[r])
    BY DEF Inv, TypeOK, RequestsAreSound
  <1>1. CASE UNCHANGED <<status, result>> \/ b # a
    <2> QED BY <1>0, <1>1 DEF Committed, StatusKept, Finish
  <1>2. CASE b = a /\ ~ UNCHANGED <<status, result>>
    <2>1. /\ status[a] = Claimed(r) /\ result[a] \in {None, known}
          /\ result' = [result EXCEPT ![a] = known]
          /\ \E to \in Resolved(r) : status' = [status EXCEPT ![a] = to]
      BY <1>2 DEF Finish
    <2>2. result'[b] = known /\ status'[b] \in Resolved(r)
      BY <1>0, <1>2, <2>1
    <2>3. known # result[a] => Receipt(known)
      BY <1>0 DEF Sound
    <2>4. Resolved(r) \subseteq {"RECONCILE_REQUIRED", "VERIFIED"}
          /\ ("VERIFIED" \in Resolved(r) => known # None)
      BY <1>0 DEF Resolved, Sound
    <2>5. status[a] \in {"EXECUTING", "RECONCILE_REQUIRED"}
      BY <2>1 DEF Claimed
    <2> HIDE DEF known
    <2> QED BY <1>2, <2>1, <2>2, <2>3, <2>4, <2>5 DEF Committed, StatusKept
  <1> QED BY <1>1, <1>2

(* So does every other step of the service. *)
LEMMA StepCommits ==
  ASSUME Inv, [Next]_vars, NEW b \in Actions
  PROVE  Committed(b)
  <1>0. status \in [Actions -> Statuses] /\ result \in [Actions -> Jobs \cup {None}]
    BY DEF Inv, TypeOK
  <1>1. ASSUME UNCHANGED <<status, result>> PROVE Committed(b)
    BY <1>1 DEF Committed, StatusKept
  <1>2. ASSUME NEW r \in Threads,
               \/ BeginExecute(r) \/ BeginReconcile(r) \/ SavePlan(r)
        PROVE  Committed(b)
    <2>1. UNCHANGED result
      BY <1>2 DEF BeginExecute, BeginReconcile, SavePlan
    <2>2. ASSUME BeginExecute(r) PROVE Committed(b)
      BY <1>0, <2>1, <2>2 DEF BeginExecute, Committed, StatusKept
    <2>3. ASSUME BeginReconcile(r) PROVE Committed(b)
      BY <1>0, <2>1, <2>3 DEF BeginReconcile, Committed, StatusKept
    <2>4. ASSUME SavePlan(r) PROVE Committed(b)
      BY <1>0, <2>1, <2>4 DEF SavePlan, Committed, StatusKept
    <2> QED BY <1>2, <2>2, <2>3, <2>4
  <1>3. ASSUME NEW r \in Threads,
               \/ Refuse(r) \/ BeginPrepare(r) \/ BeginRenew(r) \/ Archive(r) \/ RetainRecord(r)
               \/ Link(r) \/ ReplaceSlot(r) \/ Rpc(r) \/ Receive(r) \/ GiveUp(r)
        PROVE  UNCHANGED <<status, result>>
    BY <1>3 DEF Refuse, BeginPrepare, BeginRenew, Archive, RetainRecord, Link, ReplaceSlot,
         Rpc, Receive, GiveUp, saved
  <1>4. ASSUME \/ Crash
               \/ \E a \in Actions : Expire(a)
               \/ \E r \in Threads, command \in Commands, a \in Actions \cup {None},
                     w \in Renewals \cup {None} : Arrive(r, command, a, w)
               \/ UNCHANGED serverVars \/ UNCHANGED vars
        PROVE  UNCHANGED <<status, result>>
    BY <1>4 DEF Crash, Expire, Arrive, serverVars, vars, saved
  <1> QED BY <1>1, <1>2, <1>3, <1>4, FinishCommits DEF Next, Work, ForgetOrphan

(* Recorded jobs are the gateway's, before and after every step. *)
LEMMA ResultsKeep ==
  ASSUME Inv, [Next]_vars
  PROVE  ResultsAreReceipts'
  <1>2. ASSUME NEW b \in Actions
        PROVE  /\ result'[b] # None => Receipt(result'[b])
               /\ status'[b] = "VERIFIED" => result'[b] # None
    <2>2. /\ result[b] # None => Receipt(result[b])
          /\ status[b] = "VERIFIED" => result[b] # None
      BY DEF Inv, ResultsAreReceipts
    <2> QED BY StepCommits, <2>2 DEF Committed, StatusKept
  <1>3. ASSUME NEW b \in Actions
        PROVE  (result[b] # None => Receipt(result[b]))' BY ReceiptLasts, <1>2
  <1> QED BY <1>2, <1>3 DEF ResultsAreReceipts

------------
(* An empty service satisfies the invariant. *)
LEMMA ServiceStarts == Init => Inv
  <1> SUFFICES ASSUME Init PROVE Inv
    OBVIOUS
  <1>1. GatewayInv
    BY GatewayStarts DEF Init
  <1>3. NoThread \in ThreadStates /\ Sound(NoThread)
    BY NoThreadFine DEF Fine
  <1>4. TypeOK BY <1>1, <1>3 DEF Init, TypeOK, GatewayInv, Statuses, NoRecord
  <1>5. CallsAreFrozen
    BY DEF Init, GatewayInit, Unsent, CallsAreFrozen
  <1>6. RequestsAreSound
    BY <1>3 DEF Init, RequestsAreSound
  <1> QED BY <1>1, <1>4, <1>5, <1>6 DEF Inv, Init, ResultsAreReceipts

(* Every step of the service keeps the invariant. *)
LEMMA ServiceKeeps ==
  ASSUME Inv, [Next]_vars
  PROVE  Inv'
  <1>1. GatewayInv'
    BY UsesGateway, GatewayKeeps DEF Inv
  <1>2. TypeOK'
    BY <1>1, FilesKeep, RequestsKeep DEF TypeOK, FilesTypeOK, RequestsStayFine, GatewayInv
  <1> QED BY <1>1, <1>2, CallsKeep, ResultsKeep, RequestsKeep DEF Inv, RequestsStayFine

(* The invariant holds throughout. *)
LEMMA ServiceIsSafe == Spec => []Inv
<1>1. Inv /\ [Next]_vars => Inv'
  BY ServiceKeeps
<1> QED BY <1>1, ServiceStarts, PTL DEF Spec

(* Type correctness of the service and of the gateway it uses. *)
THEOREM TypeCorrect == Spec => []TypeOK
<1>1. Inv => TypeOK
  BY DEF Inv
<1> QED BY <1>1, ServiceIsSafe, PTL

(* One Attempt has one job, for every number of Actions, renewals, HTTP
   requests and SSH calls, whatever is lost, repeated or late: execute,
   reconcile and renew commit only what the gateway's receipt says. *)
THEOREM OneJob == Spec => []OneJobPerAttempt
  BY InvOneJob, ServiceIsSafe, PTL

(* The service implements the gateway's callers: its requests and calls
   show the gateway nothing it does not allow. *)
THEOREM ServiceUsesGateway == Spec => GatewaySpec
<1>1. Init => GatewayInit
  BY DEF Init
<1>2. Inv /\ [Next]_vars => [GatewayNext]_gatewayVars
  BY UsesGateway DEF Inv
<1> QED BY <1>1, <1>2, ServiceIsSafe, PTL DEF Spec, GatewaySpec

(* finish never exchanges a recorded job, and no status is taken back. *)
THEOREM KnownStays == Spec => KnownIsKept
<1> DEFINE Kept == \A a \in Actions :
         /\ result[a] # None => result'[a] = result[a]
         /\ status[a] = "VERIFIED" => status'[a] = "VERIFIED"
         /\ status[a] \in {"EXECUTING", "RECONCILE_REQUIRED"} =>
              status'[a] \notin {"NONE", "PREPARED"}
<1>1. Inv /\ [Next]_vars => [Kept]_vars
  BY StepCommits DEF Committed, StatusKept
<1> QED BY <1>1, ServiceIsSafe, PTL DEF Spec, KnownIsKept

------------
Waits(t) == t.step \in {"idle", "arrived"}

(* What a request was admitted for: its steps are those of its command. *)
Asked(t) ==
    /\ t.step # "idle" /\ t.command # "Prepare" => t.action \in Actions
    /\ t.step \in {"archive", "record", "link", "slot"} => t.command = "Renew"
    /\ t.step = "plan" => t.command \in {"Prepare", "Renew"}
    /\ t.step \in Operations \cup {"owned", "uncertain"} => t.command \in {"Execute", "Reconcile"}

(* What the holder of the lock has left on file so far, in these files. *)
OnFile(t, aSlot, anArchive, aStatus) ==
    /\ t.step = "plan" /\ t.command = "Prepare" =>
         t.action \in Actions /\ (t.action \in anArchive \/ aSlot = t.action)
    /\ t.step \in {"record", "plan", "link", "slot"} /\ t.command = "Renew" =>
         {t.action, t.other} \subseteq anArchive
    /\ t.step \in Operations \cup {"owned", "uncertain"} =>
         aStatus[t.action] = IF t.command = "Execute" THEN "EXECUTING" ELSE "RECONCILE_REQUIRED"

(* Only the holder of the lock is past its arrival. *)
OneAtWork == \A r \in Threads : Waits(thread[r]) \/ lock = r

RequestsAreClaimed ==
    \A r \in Threads : Asked(thread[r]) /\ OnFile(thread[r], slot, archived, status)

Unclaimed(a) == status[a] \in {"NONE", "PREPARED"}

CallsAreClaimed ==
    \A p \in Invocations :
         call[p].op \in {"Prepare", "Submit"} /\ call[p].step # "unsent" =>
            \E a \in Actions : ~ Unclaimed(a)

ClaimInv ==
    /\ Inv
    /\ OneAtWork
    /\ RequestsAreClaimed
    /\ PlannedIsLoadable
    /\ CallsAreClaimed
    /\ \A a \in Actions : Unclaimed(a) => result[a] = None

------------
(* The claims follow from the invariant. *)
LEMMA ClaimInvHonours == ClaimInv => ClaimsAreHonoured
  <1> SUFFICES ASSUME ClaimInv PROVE ClaimsAreHonoured
    OBVIOUS
  <1>2. ClaimedBeforeCalled
    BY DEF ClaimInv, CallsAreClaimed, Unclaimed, ClaimedBeforeCalled
  <1>3. ClaimantIsUndisturbed
    BY DEF ClaimInv, RequestsAreClaimed, OnFile, ClaimantIsUndisturbed, Calls, Claimed, Action
  <1> QED BY <1>2, <1>3 DEF ClaimsAreHonoured, ClaimInv, Inv

(* One request moves, holding the lock or giving it up, and touches no
   file a waiting request depends on: all requests are as claimed. *)
LEMMA ClaimMoves ==
  ASSUME ClaimInv, NEW r \in Threads, NEW t,
         thread' = [thread EXCEPT ![r] = t],
         lock \in {r, None} \/ (Waits(t) /\ UNCHANGED <<lock, saved>>),
         Asked(t), OnFile(t, slot', archived', status'),
         lock' = r \/ Waits(t), 
         lock = None => UNCHANGED lock \/ lock' = r
  PROVE  OneAtWork' /\ RequestsAreClaimed'
  <1>0. thread \in [Threads -> ThreadStates] /\ None \notin Threads
    BY SubmissionAssumption DEF ClaimInv, Inv, TypeOK
  <1>1. thread'[r] = t
    BY <1>0
  <1>2. CASE Waits(t) /\ UNCHANGED <<lock, saved>>
    <2>1. ASSUME NEW q \in Threads, q # r PROVE thread'[q] = thread[q]
      BY <1>0, <2>1
    <2>2. OneAtWork'
      BY <1>1, <1>2, <2>1 DEF ClaimInv, OneAtWork, Waits
    <2>3. ASSUME NEW q \in Threads, q # r PROVE Asked(thread'[q]) /\ OnFile(thread'[q], slot', archived', status')
      BY <1>2, <2>1 DEF ClaimInv, RequestsAreClaimed, Asked, OnFile, saved
    <2> QED BY <1>1, <2>2, <2>3 DEF RequestsAreClaimed, Asked
  <1>3. CASE lock \in {r, None}
    <2>1. ASSUME NEW q \in Threads, q # r PROVE thread'[q] = thread[q] /\ Waits(thread[q])
      BY <1>0, <1>3, <2>1 DEF ClaimInv, OneAtWork
    <2>3. ASSUME NEW q \in Threads, q # r PROVE Asked(thread'[q]) /\ OnFile(thread'[q], slot', archived', status')
      <3>1. thread'[q] = thread[q] /\ thread[q].step \in {"idle", "arrived"}
        BY <2>1, <2>3 DEF Waits
      <3>4. Asked(thread'[q]) BY <3>1 DEF Asked, ClaimInv, RequestsAreClaimed
      <3>5. OnFile(thread'[q], slot', archived', status') BY <3>1, GatewayAssumption DEF OnFile
      <3> QED BY <3>4, <3>5
    <2> QED BY <1>1, <2>1, <2>3 DEF RequestsAreClaimed, Asked, OneAtWork, Waits
  <1> QED BY <1>2, <1>3

ClaimsStay == OneAtWork' /\ RequestsAreClaimed' /\ PlannedIsLoadable'

(* A plan stays loadable while archives are kept and only an archived
   Action loses the slot. *)
LEMMA LoadablesStay ==
  ASSUME ClaimInv, archived \subseteq archived', slot' = slot \/ slot \in archived \cup {None},
         \A a \in Actions : status'[a] # "NONE" =>
            status[a] # "NONE" \/ a \in archived' \/ slot' = a
  PROVE  PlannedIsLoadable'
  <1> QED BY SubmissionAssumption DEF ClaimInv, PlannedIsLoadable, Loadable

(* A request that ends gives the lock up. *)
LEMMA LeaveClaims ==
  ASSUME ClaimInv, NEW r \in Threads, Leave(r), ~ Waits(thread[r])
  PROVE  OneAtWork' /\ RequestsAreClaimed'
  <1>1. Waits(NoThread) /\ NoThread.step = "idle"
    BY DEF Waits, NoThread
  <1>2. Asked(NoThread) /\ OnFile(NoThread, slot', archived', status')
    BY <1>1, GatewayAssumption DEF Asked, OnFile
  <1>3. lock = r
    BY DEF ClaimInv, OneAtWork
  <1>5. lock # None
    BY <1>3, SubmissionAssumption
  <1> QED BY <1>1, <1>2, <1>3, <1>5, ClaimMoves DEF Leave

(* The steps of preparing and renewing keep the claims. *)
LEMMA PreparingClaims ==
  ASSUME ClaimInv, NEW r \in Threads,
         \/ BeginPrepare(r) \/ BeginRenew(r) \/ Archive(r) \/ RetainRecord(r)
         \/ SavePlan(r) \/ Link(r) \/ ReplaceSlot(r)
  PROVE  ClaimsStay
  <1>0. /\ thread[r] \in ThreadStates /\ Sound(thread[r]) /\ thread \in [Threads -> ThreadStates]
        /\ Asked(thread[r]) /\ OnFile(thread[r], slot, archived, status)
        /\ status \in [Actions -> Statuses] /\ slot \in Actions \cup {None}
    BY DEF ClaimInv, Inv, TypeOK, RequestsAreSound, RequestsAreClaimed
  <1>1. Waits(thread[r]) \/ lock = r
    BY DEF ClaimInv, OneAtWork
  <1>2. r # None
    BY SubmissionAssumption
  <1>3. ASSUME NEW s \in {"record", "archive", "plan", "link", "slot"}, Continue(r, s), lock = r,
               thread[r].command = "Renew", thread[r].action \in Actions,
               s # "archive" => {thread[r].action, thread[r].other} \subseteq archived'
        PROVE  OneAtWork' /\ RequestsAreClaimed'
    <2> DEFINE t == [thread[r] EXCEPT !.step = s]
    <2>1. t.step = s /\ t.command = "Renew" /\ t.action = thread[r].action /\ t.other = thread[r].other
      BY <1>0, <1>3 DEF ThreadStates
    <2>2. thread' = [thread EXCEPT ![r] = t] /\ lock' = lock
      BY <1>3 DEF Continue
    <2> HIDE DEF t
    <2>3. s \notin Operations
      BY <1>3, GatewayAssumption
    <2>4. Asked(t) /\ OnFile(t, slot', archived', status')
      BY <1>3, <2>1, <2>3 DEF Asked, OnFile
    <2> QED BY <1>3, <2>2, <2>4, ClaimMoves
  <1>4. CASE BeginPrepare(r)
    <2>1. PICK a \in Actions : /\ IF slot = None THEN Fresh(a) ELSE a = slot
                               /\ slot' = a
                               /\ Enter(r, [thread[r] EXCEPT !.step = "plan", !.action = a])
      BY <1>4 DEF BeginPrepare
    <2> DEFINE t == [thread[r] EXCEPT !.step = "plan", !.action = a]
    <2>2. t.step = "plan" /\ t.action = a /\ t.command = "Prepare" /\ lock = None
      BY <1>0, <1>4 DEF ThreadStates, BeginPrepare, Locks
    <2>3. thread' = [thread EXCEPT ![r] = t] /\ lock' = r
      BY <2>1 DEF Enter
    <2> HIDE DEF t
    <2>5. Asked(t) /\ OnFile(t, slot', archived', status') BY <2>1, <2>2, GatewayAssumption DEF Asked, OnFile
    <2>6. OneAtWork' /\ RequestsAreClaimed'
      BY <2>2, <2>3, <2>5, ClaimMoves
    <2> QED BY <2>6, <1>4, <2>1, LoadablesStay DEF ClaimsStay, BeginPrepare
  <1>5. CASE BeginRenew(r)
    <2>1. PICK b \in Actions : Enter(r, [thread[r] EXCEPT !.step = "archive", !.other = b])
      BY <1>5 DEF BeginRenew
    <2> DEFINE t == [thread[r] EXCEPT !.step = "archive", !.other = b]
    <2>2. /\ t.step = "archive" /\ t.action = thread[r].action /\ t.command = "Renew"
          /\ lock = None /\ thread[r].step = "arrived" /\ thread[r].command = "Renew"
      BY <1>0, <1>5 DEF ThreadStates, BeginRenew, Admitted, Locks
    <2>3. thread' = [thread EXCEPT ![r] = t] /\ lock' = r
      BY <2>1 DEF Enter
    <2> HIDE DEF t
    <2>5. Asked(t) /\ OnFile(t, slot', archived', status')
      BY <1>0, <2>1, <2>2, GatewayAssumption DEF Asked, OnFile, Sound
    <2>6. OneAtWork' /\ RequestsAreClaimed'
      BY <2>2, <2>3, <2>5, ClaimMoves
    <2> QED BY <2>6, <1>5, LoadablesStay DEF ClaimsStay, BeginRenew, saved
  <1>6. CASE Archive(r)
    <2>1. /\ thread[r].step = "archive" /\ lock = r /\ thread[r].command = "Renew"
          /\ thread[r].action \in Actions /\ thread[r].other \in Actions
      BY <1>0, <1>1, <1>6 DEF Archive, At, Waits, Asked, Sound
    <2>3. OneAtWork' /\ RequestsAreClaimed' BY <1>3, <2>1, <1>6 DEF Archive, Action
    <2> QED BY <2>3, <1>6, LoadablesStay DEF ClaimsStay, Archive
  <1>7. CASE RetainRecord(r)
    <2>1. /\ lock = r /\ thread[r].command = "Renew" /\ thread[r].action \in Actions
          /\ {thread[r].action, thread[r].other} \subseteq archived'
      BY <1>0, <1>1, <1>7 DEF RetainRecord, At, Waits, Asked, OnFile
    <2>3. PlannedIsLoadable'
      BY <1>7, LoadablesStay DEF RetainRecord
    <2> QED BY <1>3, <1>7, <2>1, <2>3 DEF ClaimsStay, RetainRecord
  <1>8. CASE SavePlan(r)
    <2>1. lock = r /\ thread[r].step = "plan" /\ ~ Waits(thread[r]) /\ thread[r].command \in {"Prepare", "Renew"}
      BY <1>0, <1>1, <1>8 DEF SavePlan, At, Waits, Asked
    <2>2. CASE thread[r].command = "Renew"
      <3>1. thread[r].action \in Actions /\ {thread[r].action, thread[r].other} \subseteq archived'
        BY <1>0, <1>8, <2>1, <2>2 DEF SavePlan, Asked, OnFile
      <3>3. OneAtWork' /\ RequestsAreClaimed' BY <1>3, <2>1, <2>2, <3>1, <1>8 DEF SavePlan
      <3>5. PlannedIsLoadable' BY <1>8, <1>0, <2>2, <3>1, LoadablesStay DEF SavePlan
      <3> QED BY <3>3, <3>5 DEF ClaimsStay
    <2>3. CASE thread[r].command = "Prepare"
      <3>1. thread[r].action \in archived \/ slot = thread[r].action
        BY <1>0, <2>1, <2>3 DEF OnFile
      <3>3. OneAtWork' /\ RequestsAreClaimed' BY <2>1, <1>8, <2>3, LeaveClaims DEF SavePlan
      <3>5. PlannedIsLoadable' BY <1>8, <3>1, <1>0, <2>3, LoadablesStay DEF SavePlan, Action
      <3> QED BY <3>3, <3>5 DEF ClaimsStay
    <2> QED BY <2>1, <2>2, <2>3
  <1>9. CASE Link(r)
    <2>1. /\ lock = r /\ ~ Waits(thread[r]) /\ thread[r].command = "Renew" /\ thread[r].action \in Actions
          /\ {thread[r].action, thread[r].other} \subseteq archived'
      BY <1>0, <1>1, <1>9 DEF Link, At, Waits, Asked, OnFile
    <2>3. OneAtWork' /\ RequestsAreClaimed' BY <1>3, <2>1, <1>9, LeaveClaims DEF Link
    <2> QED BY <2>3, <1>9, LoadablesStay DEF ClaimsStay, Link
  <1>10. CASE ReplaceSlot(r)
    <2>1. ~ Waits(thread[r]) /\ thread[r].command = "Renew" /\ thread[r].action \in archived
      BY <1>0, <1>1, <1>10 DEF ReplaceSlot, At, Waits, Asked, OnFile
    <2>4. PlannedIsLoadable' BY <1>10, <2>1, LoadablesStay DEF ReplaceSlot, Action
    <2> QED BY <1>10, <2>1, LeaveClaims, <2>4 DEF ClaimsStay, ReplaceSlot
  <1> QED BY <1>4, <1>5, <1>6, <1>7, <1>8, <1>9, <1>10

(* A request moves on to another step of its calls. *)
LEMMA CallingClaims ==
  ASSUME ClaimInv, NEW r \in Threads, Calls(r), NEW t, t.action = thread[r].action,
         t.command = thread[r].command, t.step \in Operations \cup {"owned", "uncertain"},
         thread' = [thread EXCEPT ![r] = t], UNCHANGED <<saved, lock>>
  PROVE  ClaimsStay
  <1>0. ~ Waits(thread[r]) /\ thread[r].step \notin {"idle", "arrived"}
    BY GatewayAssumption DEF Waits, Calls
  <1>2. t.step \notin {"idle", "arrived", "plan", "archive", "record", "link", "slot"}
    BY GatewayAssumption
  <1>3. Asked(thread[r]) /\ OnFile(thread[r], slot, archived, status)
    BY DEF ClaimInv, RequestsAreClaimed
  <1>4. Asked(t)
    BY <1>0, <1>2, <1>3 DEF Asked, Calls
  <1>5. OnFile(t, slot', archived', status')
    BY <1>2, <1>3 DEF OnFile, Calls, saved
  <1>6. OneAtWork' /\ RequestsAreClaimed' BY <1>0, <1>4, <1>5, ClaimMoves DEF ClaimInv, OneAtWork
  <1> QED BY <1>6, LoadablesStay DEF ClaimsStay, saved

(* The steps of executing and reconciling keep the claims: one is made
   under the lock, and its holder alone commits on top of it. *)
LEMMA ExecutingClaims ==
  ASSUME ClaimInv, NEW r \in Threads,
         \/ BeginExecute(r) \/ BeginReconcile(r) \/ Rpc(r) \/ Receive(r)
         \/ GiveUp(r) \/ Finish(r)
  PROVE  ClaimsStay
  <1>0. /\ thread[r] \in ThreadStates /\ thread \in [Threads -> ThreadStates]
        /\ Asked(thread[r]) /\ OnFile(thread[r], slot, archived, status)
        /\ status \in [Actions -> Statuses] /\ {"Prepare", "Submit", "Inspect", "ObserveJob"} \subseteq Operations
    BY SubmissionAssumption DEF ClaimInv, Inv, TypeOK, RequestsAreClaimed
  <1>1. ASSUME NEW s \in {"Prepare", "Inspect"}, NEW c \in {"Execute", "Reconcile"},
               NEW v, v = IF c = "Execute" THEN "EXECUTING" ELSE "RECONCILE_REQUIRED",
               Admitted(r, c), Enter(r, [thread[r] EXCEPT !.step = s]),
               status[Action(r)] # "NONE", status' = [status EXCEPT ![Action(r)] = v],
               UNCHANGED <<slot, archived>>
        PROVE  ClaimsStay
    <2> DEFINE t == [thread[r] EXCEPT !.step = s]
    <2>1. /\ t.step = s /\ t.action = thread[r].action /\ t.command = c
          /\ lock = None /\ thread[r].step = "arrived" /\ thread[r].command = c
      BY <1>0, <1>1 DEF ThreadStates, Admitted, Locks
    <2>2. thread[r].action \in Actions
      BY <1>0, <2>1 DEF Asked
    <2>3. thread' = [thread EXCEPT ![r] = t] /\ lock' = r
      BY <1>1 DEF Enter
    <2> HIDE DEF t
    <2>5. Asked(t) /\ OnFile(t, slot', archived', status') BY <1>1, <2>1, <2>2, <1>0 DEF Asked, OnFile, Action
    <2>6. OneAtWork' /\ RequestsAreClaimed'
      BY <2>1, <2>3, <2>5, ClaimMoves
    <2>8. PlannedIsLoadable' BY <1>1, <1>0, LoadablesStay DEF Action
    <2> QED BY <2>6, <2>8 DEF ClaimsStay
  <1>2. CASE BeginExecute(r)
    BY <1>1, <1>2 DEF BeginExecute
  <1>3. CASE BeginReconcile(r)
    BY <1>1, <1>3 DEF BeginReconcile
  <1>4. CASE Rpc(r)
    <2>1. PICK p \in Invocations : thread' = [thread EXCEPT ![r].call = p]
      BY <1>4 DEF Rpc
    <2> DEFINE t == [thread[r] EXCEPT !.call = p]
    <2>3. thread' = [thread EXCEPT ![r] = t] /\ thread[r].step \in Operations
      BY <1>4, <2>1 DEF Rpc
    <2> HIDE DEF t
    <2> QED BY <1>4, <1>0, <2>3, CallingClaims DEF Calls, Rpc, ThreadStates
  <1>5. CASE Receive(r)
    <2> DEFINE t == AfterReply(r, call[thread[r].call].reply)
    <2>1. /\ t.step \in {"Submit", "ObserveJob", "owned", "uncertain"}
          /\ t.command = thread[r].command /\ t.action = thread[r].action
      BY <1>0 DEF AfterReply, ThreadStates
    <2>2. thread' = [thread EXCEPT ![r] = t] /\ thread[r].step \in Operations
      BY <1>5 DEF Receive
    <2> HIDE DEF t
    <2>4. t.step \in Operations \cup {"owned", "uncertain"}
      BY <1>0, <2>1
    <2> QED BY <2>1, <2>2, <1>5, <2>4, CallingClaims DEF Calls, Receive
  <1>6. CASE GiveUp(r)
    <2> DEFINE t == [thread[r] EXCEPT !.step = "uncertain", !.call = None]
    <2>1. t.step = "uncertain" /\ t.command = thread[r].command /\ t.action = thread[r].action
      BY <1>0 DEF ThreadStates
    <2>2. thread' = [thread EXCEPT ![r] = t] /\ thread[r].step \in Operations
      BY <1>0, <1>6 DEF GiveUp, ThreadStates
    <2> HIDE DEF t
    <2> QED BY <1>6, <2>1, <2>2, CallingClaims DEF Calls, GiveUp
  <1>7. CASE Finish(r)
    <2>2. OneAtWork' /\ RequestsAreClaimed' BY <1>7, LeaveClaims DEF Finish, Waits
    <2>3. \A a \in Actions : status'[a] # "NONE" => status[a] # "NONE"
      <3>1. CASE UNCHANGED status
        BY <3>1
      <3>2. CASE status[Action(r)] = Claimed(r) /\ \E to \in Resolved(r) : status' = [status EXCEPT ![Action(r)] = to]
        BY <1>0, <3>2 DEF Claimed
      <3> QED BY <1>7, <3>1, <3>2 DEF Finish
    <2> QED BY <2>2, <1>7, <2>3, LoadablesStay DEF ClaimsStay, Finish
  <1> QED BY <1>2, <1>3, <1>4, <1>5, <1>6, <1>7

(* A request arrives or is refused: it waits, and changes no file. *)
LEMMA WaitingClaims ==
  ASSUME ClaimInv, NEW r \in Threads, NEW t, Waits(t), Asked(t),
         thread' = [thread EXCEPT ![r] = t], UNCHANGED <<saved, lock>>
  PROVE  ClaimsStay
  <1>2. OneAtWork' /\ RequestsAreClaimed' BY GatewayAssumption, ClaimMoves DEF OnFile, Waits
  <1> QED BY <1>2, LoadablesStay DEF ClaimsStay, saved

(* Every step of the service keeps the claims. *)
LEMMA ClaimsKeep ==
  ASSUME ClaimInv, [Next]_vars
  PROVE  ClaimsStay
  <1>1. ASSUME NEW r \in Threads, Work(r) PROVE ClaimsStay
    BY <1>1, PreparingClaims, ExecutingClaims DEF Work
  <1>2. ASSUME NEW r \in Threads, Refuse(r) PROVE ClaimsStay
    <2>1. Waits(NoThread) /\ Asked(NoThread)
      BY GatewayAssumption DEF Waits, Asked, NoThread
    <2> QED BY <1>2, <2>1, WaitingClaims DEF Refuse
  <1>3. ASSUME NEW r \in Threads, NEW command \in Commands, NEW a \in Actions \cup {None},
               NEW w \in Renewals \cup {None}, Arrive(r, command, a, w)
        PROVE  ClaimsStay
    <2> DEFINE t == [NoThread EXCEPT !.step = "arrived", !.command = command, !.action = a,
                       !.late = command \in {"Renew", "Execute"} /\ a \in expired,
                       !.renewal = w]
    <2>1. t.step = "arrived" /\ t.command = command /\ t.action = a
      BY DEF NoThread
    <2>2. command # "Prepare" => a \in Actions
      BY <1>3 DEF Arrive
    <2>3. thread' = [thread EXCEPT ![r] = t]
      BY <1>3 DEF Arrive
    <2> HIDE DEF t
    <2>4. Waits(t) /\ Asked(t)
      BY <2>1, <2>2, GatewayAssumption DEF Waits, Asked
    <2> QED BY <1>3, <2>3, <2>4, WaitingClaims DEF Arrive
  <1>4. ASSUME Crash PROVE ClaimsStay
    <2>2. ASSUME NEW r \in Threads
          PROVE  /\ Waits(thread'[r]) /\ Asked(thread'[r])
                 /\ OnFile(thread'[r], slot', archived', status')
      <3>1. thread'[r].step = "idle" BY <1>4 DEF NoThread, Crash
      <3> QED BY <3>1, GatewayAssumption DEF Waits, Asked, OnFile
    <2>4. RequestsAreClaimed'
      BY <2>2 DEF RequestsAreClaimed
    <2>5. PlannedIsLoadable'
      BY <1>4, LoadablesStay DEF Crash, saved
    <2> QED BY <2>2, <2>4, <2>5 DEF ClaimsStay, OneAtWork, Waits
  <1>5. ASSUME UNCHANGED <<thread, lock, saved>> PROVE ClaimsStay
    <2> QED BY <1>5, LoadablesStay DEF ClaimsStay, ClaimInv, OneAtWork, RequestsAreClaimed, saved
  <1>6. ASSUME \/ \E a \in Actions : Expire(a)
               \/ GatewayStep /\ UNCHANGED serverVars
               \/ \E p \in Invocations : ForgetOrphan(p)
               \/ UNCHANGED vars
        PROVE  UNCHANGED <<thread, lock, saved>>
    BY <1>6 DEF Expire, ForgetOrphan, serverVars, vars
  <1> QED BY <1>1, <1>2, <1>3, <1>4, <1>5, <1>6 DEF Next

(* A helper is called only for an Action that was claimed, and a claim is
   never taken back. *)
LEMMA CallsKeepClaims ==
  ASSUME ClaimInv, [Next]_vars
  PROVE  CallsAreClaimed'
  <1>0. call \in [Invocations -> Requests] /\ Inv
    BY DEF ClaimInv, Inv, GatewayInv, GatewayTypeOK
  <1>1. ASSUME NEW a \in Actions, ~ Unclaimed(a) PROVE ~ Unclaimed(a)'
    <2>1. status[a] \in Statuses /\ StatusKept(a)
      BY <1>0, StepCommits DEF Inv, TypeOK, Committed
    <2> QED BY <1>1, <2>1 DEF StatusKept, Unclaimed, Statuses
  <1>2. ASSUME NEW p \in Invocations,
               (call[p].op \in {"Prepare", "Submit"} /\ call[p].step # "unsent")',
               call[p].op \in {"Prepare", "Submit"} /\ call[p].step # "unsent"
        PROVE  \E a \in Actions : ~ Unclaimed(a)'
    BY <1>1, <1>2 DEF ClaimInv, CallsAreClaimed
  <1>3. ASSUME NEW r \in Threads, NEW p \in Invocations, Rpc(r)
        PROVE  \E a \in Actions : ~ Unclaimed(a)'
    <2>1. thread[r].step \in Operations /\ Asked(thread[r]) /\ OnFile(thread[r], slot, archived, status)
      BY <1>3 DEF Rpc, ClaimInv, RequestsAreClaimed
    <2>3. thread[r].action \in Actions /\ ~ Unclaimed(thread[r].action)
      BY <2>1, GatewayAssumption DEF Asked, OnFile, Unclaimed
    <2> QED BY <1>1, <2>3
  <1>4. ASSUME NEW p \in Invocations, ~ \E r \in Threads : Rpc(r)
        PROVE  \/ call'[p].op = call[p].op /\ (call[p].step = "unsent" => call'[p].step = "unsent")
               \/ call'[p].step = "unsent"
    <2>1. ASSUME NEW q \in Invocations, Forget(q) PROVE call'[p] = call[p] \/ call'[p].step = "unsent"
      BY <1>0, <2>1 DEF Forget, Unsent
    <2>2. ASSUME NEW q \in Invocations, Serve(q)
          PROVE  call'[p].op = call[p].op /\ (call[p].step = "unsent" => call'[p].step = "unsent")
      BY <1>0, <2>2, ServesRequest DEF SameRequest, Inv
    <2>3. ASSUME GatewayStep
          PROVE  call'[p].op = call[p].op /\ (call[p].step = "unsent" => call'[p].step = "unsent")
      BY <2>2, <2>3 DEF GatewayStep, CreateJob, RefuseJob
    <2>4. ASSUME NEW r \in Threads, Receive(r)
          PROVE  call'[p] = call[p] \/ call'[p].step = "unsent"
      <3> QED BY <2>1, <1>0, <2>4 DEF Receive, Inv, TypeOK, ThreadStates
    <2>5. ASSUME NEW r \in Threads, Refuse(r) \/ Work(r), ~ Receive(r) PROVE UNCHANGED call
      BY <1>4, <2>5 DEF Work, Refuse, BeginPrepare, BeginRenew, BeginExecute, BeginReconcile, Archive,
         RetainRecord, SavePlan, Link, ReplaceSlot, GiveUp, Finish, gatewayVars
    <2>6. ASSUME \/ Crash
                 \/ \E a \in Actions : Expire(a)
                 \/ \E r \in Threads, command \in Commands, a \in Actions \cup {None},
                       w \in Renewals \cup {None} : Arrive(r, command, a, w)
                 \/ UNCHANGED vars
          PROVE  UNCHANGED call
      BY <2>6 DEF Crash, Expire, Arrive, vars, gatewayVars
    <2> QED BY <2>1, <2>3, <2>4, <2>5, <2>6 DEF Next, ForgetOrphan
  <1>5. ASSUME NEW p \in Invocations,
               (call[p].op \in {"Prepare", "Submit"} /\ call[p].step # "unsent")'
        PROVE  \E a \in Actions : ~ Unclaimed(a)'
    <2>1. CASE \E r \in Threads : Rpc(r)
      BY <1>3, <2>1
    <2>2. CASE ~ \E r \in Threads : Rpc(r)
      BY <1>2, <1>4, <1>5, <2>2
    <2> QED BY <2>1, <2>2
  <1> QED BY <1>5 DEF CallsAreClaimed

(* A job is recorded only under a claim. *)
LEMMA ResultsKeepClaims ==
  ASSUME ClaimInv, [Next]_vars, NEW a \in Actions, Unclaimed(a)'
  PROVE  result'[a] = None
  <1>0. /\ status \in [Actions -> Statuses] /\ Inv /\ StatusKept(a)
        /\ result \in [Actions -> Jobs \cup {None}]
    BY StepCommits DEF ClaimInv, Inv, TypeOK, Committed
  <1>1. Unclaimed(a) /\ result[a] = None
    BY <1>0 DEF StatusKept, Unclaimed, Statuses, ClaimInv
  <1>2. ASSUME NEW r \in Threads, Finish(r) PROVE UNCHANGED result \/ result'[a] = result[a]
    <2>1. CASE Action(r) = a
      BY <1>1, <1>2, <2>1 DEF Finish, Claimed, Unclaimed
    <2>2. CASE Action(r) # a
      BY <1>0, <1>2, <2>2 DEF Finish
    <2> QED BY <2>1, <2>2
  <1>3. ASSUME NEW r \in Threads, Refuse(r) \/ Work(r), ~ Finish(r) PROVE UNCHANGED result
    BY <1>3 DEF Work, Refuse, BeginPrepare, BeginRenew, BeginExecute, BeginReconcile, Archive,
         RetainRecord, SavePlan, Link, ReplaceSlot, GiveUp, Rpc, Receive, saved
  <1>4. ASSUME \/ Crash
               \/ \E b \in Actions : Expire(b)
               \/ \E r \in Threads, command \in Commands, b \in Actions \cup {None},
                     w \in Renewals \cup {None} : Arrive(r, command, b, w)
               \/ UNCHANGED serverVars \/ UNCHANGED vars
        PROVE  UNCHANGED result
    BY <1>4 DEF Crash, Expire, Arrive, vars, serverVars, saved
  <1> QED BY <1>1, <1>2, <1>3, <1>4 DEF Next, ForgetOrphan

(* An empty service has nothing claimed. *)
LEMMA ClaimsStart == Init => ClaimInv
  <1> SUFFICES ASSUME Init PROVE ClaimInv
    OBVIOUS
  <1>1. \A r \in Threads : thread[r].step = "idle"
    BY DEF Init, NoThread
  <1>2. OneAtWork
    BY <1>1 DEF OneAtWork, Waits
  <1>3. RequestsAreClaimed
    BY <1>1, GatewayAssumption DEF RequestsAreClaimed, Asked, OnFile
  <1>5. CallsAreClaimed
    BY DEF Init, GatewayInit, Unsent, CallsAreClaimed
  <1> QED BY <1>2, <1>3, <1>5, ServiceStarts DEF ClaimInv, Init, PlannedIsLoadable

(* Every step of the service keeps all of it. *)
LEMMA ClaimInvKeeps ==
  ASSUME ClaimInv, [Next]_vars
  PROVE  ClaimInv'
  <1>2. OneAtWork' /\ RequestsAreClaimed' /\ PlannedIsLoadable'
    BY ClaimsKeep DEF ClaimsStay
  <1>4. (\A a \in Actions : Unclaimed(a) => result[a] = None)' BY ResultsKeepClaims
  <1> QED BY ServiceKeeps, <1>2, <1>4, CallsKeepClaims DEF ClaimInv

(* Whoever claims an Action can load its plan, has the claim on file
   before the helper is called, and is not disturbed by other requests,
   renewals and restarts until its outcome is saved. *)
THEOREM ClaimsHold == Spec => []ClaimsAreHonoured
<1>1. ClaimInv /\ [Next]_vars => ClaimInv'
  BY ClaimInvKeeps
<1> QED BY <1>1, ClaimsStart, ClaimInvHonours, PTL DEF Spec
=============================================================================

-------------------------- MODULE SlurmLedgerProofs --------------------------
(* Proofs about the helper of the Slurm gateway for every number of
   scopes, intents, calls and jobs: a scope is submitted once and its job
   is cancelled once, behind durable files that only grow, and the answers
   of the helpers are true of the scheduler. *)
EXTENDS SlurmLedger, FiniteSetTheorems, TLAPS

(* The steps taken under the flock, those of a call whose intent claimed
   the scope, and those of a cancellation under way. *)
Holding == {"register", "claim", "intent", "manifest", "script", "state", "start", "started",
            "sbatch", "sbatched", "receipt", "submitted",
            "cancel.start", "cancel.state", "scancel", "scancelled"}
Cancels == {"cancel.start", "cancel.state", "scancel", "scancelled"}
Claiming == {"claim", "intent", "manifest", "script", "stage", "seal", "relock", "state",
             "start", "started", "sbatch", "sbatched", "receipt", "submitted"} \cup Cancels

Born(j) == jobs[j].intent # None

(* What the files of a scope have to do with each other and with the job. *)
ScopeOK(s) ==
    /\ claims[s] # None => ScopeOf[claims[s]] = s
    /\ ledger[s].files # {} => claims[s] # None
    /\ Has(ledger[s], "start") => Has(ledger[s], "claim") /\ Has(ledger[s], "state")
    /\ Has(ledger[s], "receipt") <=> ledger[s].receipt # None
    /\ Has(ledger[s], "receipt") =>
         /\ Has(ledger[s], "start") /\ ledger[s].phase \in {"SUBMIT_STARTED", "SUBMITTED"}
         /\ jobs[ledger[s].receipt].intent = claims[s]
    /\ ledger[s].head # None => ledger[s].head = ledger[s].receipt
    /\ ledger[s].phase = "SUBMITTED" =>
         ledger[s].receipt # None /\ ledger[s].head = ledger[s].receipt
    /\ sbatches[s] \in {0, 1}
    /\ sbatches[s] = 1 => Has(ledger[s], "start")
    /\ ledger[s].cancel = "VERIFIED" =>
         ledger[s].receipt # None /\ jobs[ledger[s].receipt].state = ledger[s].result
         /\ ledger[s].result \in Terminal

(* A job was asked for by the intent that claimed its scope, never leaves
   a last state, and is cancelled behind the files of that scope. *)
JobOK(j) ==
    /\ Born(j) =>
         /\ claims[ScopeOf[jobs[j].intent]] = jobs[j].intent
         /\ sbatches[ScopeOf[jobs[j].intent]] = 1
         /\ jobs[j].state \in jobs[j].past
         /\ jobs[j].past \cap Terminal \subseteq {jobs[j].state}
    /\ ~ Born(j) => jobs[j] = Unborn
    /\ scancels[j] \in {0, 1}
    /\ scancels[j] = 1 =>
         /\ Born(j) /\ ledger[ScopeOf[jobs[j].intent]].receipt = j
         /\ {"cancel.start", "cancel.state"} \subseteq ledger[ScopeOf[jobs[j].intent]].files
    /\ j \in cancelling => Born(j)

OneJob ==
    \A j, k \in Jobs : Born(j) /\ Born(k) /\ ScopeOf[jobs[j].intent] = ScopeOf[jobs[k].intent] => j = k

\* The sbatch that may still reach the scheduler is the only effect of its scope.
InflightOK ==
    \A i \in inflight :
        /\ claims[ScopeOf[i]] = i /\ sbatches[ScopeOf[i]] = 1
        /\ \A j \in Jobs : Born(j) => ScopeOf[jobs[j].intent] # ScopeOf[i]

(* What a helper at one of its steps knows of the files it has written or
   read, under the flock or because they are never taken back. *)
Knows(p) ==
    LET h == helper[p]
        L == ledger[ScopeOf[helper[p].intent]]
    IN /\ h.step \in Holding => flock = p
       /\ h.step # "done" => h.reply = NoReply
       /\ h.step = "register" => claims[ScopeOf[h.intent]] = None
       /\ h.step \in Claiming => claims[ScopeOf[h.intent]] = h.intent
       /\ h.step = "state" => L.files \cap {"state", "start", "receipt"} = {}
       /\ h.step = "start" => Has(L, "claim") /\ Has(L, "state") /\ ~ Has(L, "start")
       /\ h.step \in {"started", "sbatch", "sbatched", "receipt"} => Has(L, "start") /\ ~ Has(L, "receipt")
       /\ h.step \in {"started", "sbatch"} => sbatches[ScopeOf[h.intent]] = 0
       /\ h.step \in {"sbatch", "sbatched", "receipt"} => L.phase = "SUBMIT_STARTED"
       /\ h.step \in {"receipt", "submitted"} => h.job \in Jobs /\ jobs[h.job].intent = h.intent
       /\ h.step \in {"submitted"} \cup Cancels => h.job \in Jobs /\ L.receipt = h.job
       /\ h.step \in {"cancel.start", "cancel.state", "scancel"} => scancels[h.job] = 0
       /\ h.step \in {"cancel.start", "cancel.state"} => L.cancel # "VERIFIED"
       /\ h.step = "cancel.state" => Has(L, "cancel.start")
       /\ h.step \in {"scancel", "scancelled"} => {"cancel.start", "cancel.state"} \subseteq L.files

(* An answer that names a job names the job of the receipt. *)
Tells(p) ==
    helper[p].reply.kind \in {"SUBMITTED", "JOB_OBSERVED", "CANCEL_PENDING"} =>
        /\ helper[p].intent \in Intents /\ helper[p].reply.job \in Jobs
        /\ jobs[helper[p].reply.job].intent = helper[p].intent
        /\ helper[p].reply.job = ledger[ScopeOf[helper[p].intent]].receipt
        /\ helper[p].reply.kind = "JOB_OBSERVED" =>
             helper[p].reply.state \in jobs[helper[p].reply.job].past

LedgerInv ==
    /\ TypeOK
    /\ \A s \in Scopes : ScopeOK(s)
    /\ \A j \in Jobs : JobOK(j)
    /\ OneJob
    /\ InflightOK
    /\ \A p \in Invocations : Knows(p) /\ Tells(p)

------------
(* The values that a step writes are typed. *)
LEMMA Typed ==
  /\ NoReply \in Replies /\ Unknown \in Replies /\ Rejected \in Replies
  /\ Failed \in Replies /\ TimedOut \in Replies
  /\ \A j \in Jobs \cup {None} : Reply("PREPARED", j) \in Replies
  /\ \A j \in Jobs \cup {None} : Reply("SUBMITTED", j) \in Replies
  /\ \A j \in Jobs \cup {None} : CancelPending(j) \in Replies
  /\ \A j \in Jobs, st \in JobStates : JobObserved(j, st) \in Replies
  /\ EmptyLedger \in Ledgers /\ Unsent \in Helpers /\ Unborn.intent = None
  BY DEF NoReply, Unknown, Rejected, Failed, TimedOut, Reply, CancelPending, JobObserved, Replies,
         EmptyLedger, Ledgers, Phases, Files, Unsent, Helpers, HelperSteps, AllOperations, Unborn,
         JobStates, Terminal

(* A reply that names no job says nothing. *)
LEMMA Kinds ==
  /\ NoReply.kind = "NONE" /\ Unknown.kind = "UNKNOWN" /\ Rejected.kind = "REJECTED"
  /\ Failed.kind = "ERROR" /\ TimedOut.kind = "TIMEOUT"
  /\ Unknown.state = "NONE"
  /\ \A k, j : Reply(k, j).kind = k /\ Reply(k, j).job = j /\ Reply(k, j).state = "NONE"
  /\ \A j : CancelPending(j).kind = "CANCEL_PENDING" /\ CancelPending(j).job = j
            /\ CancelPending(j).state = "NONE"
  /\ \A j, st : JobObserved(j, st).kind = "JOB_OBSERVED" /\ JobObserved(j, st).job = j
                /\ JobObserved(j, st).state = st
  BY DEF NoReply, Unknown, Rejected, Failed, TimedOut, Reply, CancelPending, JobObserved

(* A helper that goes on keeps what it was called for. *)
Others(p) == \A d \in Invocations \ {p} : helper'[d] = helper[d]
SameCall(p) ==
    /\ helper'[p].op = helper[p].op /\ helper'[p].intent = helper[p].intent
    /\ helper'[p].job = helper[p].job

LEMMA Stepped ==
  ASSUME TypeOK, NEW p \in Invocations, NEW s \in HelperSteps, Step(p, s)
  PROVE  /\ helper' \in [Invocations -> Helpers] /\ Others(p) /\ SameCall(p)
         /\ helper'[p].step = s /\ helper'[p].reply = helper[p].reply
  <1>1. helper[p] \in Helpers /\ helper \in [Invocations -> Helpers]
    BY DEF TypeOK
  <1>3. helper' = [helper EXCEPT ![p] = [helper[p] EXCEPT !.step = s]]
    BY DEF Step
  <1> QED BY <1>1, <1>3 DEF Helpers, Others, SameCall

LEMMA Answered ==
  ASSUME TypeOK, NEW p \in Invocations, NEW r \in Replies, Answer(p, r)
  PROVE  /\ helper' \in [Invocations -> Helpers] /\ Others(p) /\ SameCall(p)
         /\ helper'[p].step = "done" /\ helper'[p].reply = r
  <1>1. helper[p] \in Helpers /\ helper \in [Invocations -> Helpers]
    BY DEF TypeOK
  <1>3. helper' = [helper EXCEPT ![p] = [helper[p] EXCEPT !.step = "done", !.reply = r]]
    BY DEF Answer
  <1> QED BY <1>1, <1>3 DEF Helpers, Others, SameCall, HelperSteps

------------
(* What is never taken back: claims, files and receipts, the intent of a
   job, the states it went through and the last one. *)
Persist ==
    /\ \A s \in Scopes :
         /\ claims[s] # None => claims'[s] = claims[s]
         /\ ledger[s].files \subseteq ledger'[s].files
         /\ ledger[s].receipt # None => ledger'[s].receipt = ledger[s].receipt
    /\ \A j \in Jobs : Born(j) =>
         /\ jobs'[j].intent = jobs[j].intent
         /\ jobs[j].past \subseteq jobs'[j].past
         /\ jobs[j].state \in Terminal => jobs'[j].state = jobs[j].state

LEMMA Unchanged ==
  ASSUME UNCHANGED <<claims, ledger, jobs>>
  PROVE  Persist
  BY DEF Persist

(* A helper that rests knows what it knew: what it holds the lock for
   nobody else writes, and the rest is never taken back. *)
Free0(d) == flock # d \/ (flock' = flock /\ UNCHANGED <<claims, ledger, sbatches, scancels>>)

LEMMA OthersKnow ==
  ASSUME LedgerInv, NEW d \in Invocations, helper'[d] = helper[d], Persist, Free0(d)
  PROVE  Knows(d)' /\ Tells(d)'
  <1> DEFINE h == helper[d]
             s == ScopeOf[helper[d].intent]
  <1>1. /\ Knows(d) /\ Tells(d) /\ h \in Helpers /\ None \notin Intents
        /\ h.step # "unsent" => h.intent \in Intents /\ s \in Scopes
    BY LedgerAssumption DEF LedgerInv, TypeOK
  <1>2. Tells(d)'
    <2> SUFFICES ASSUME h.reply.kind \in {"SUBMITTED", "JOB_OBSERVED", "CANCEL_PENDING"}
                 PROVE  /\ h.intent \in Intents /\ h.reply.job \in Jobs
                        /\ jobs'[h.reply.job].intent = h.intent
                        /\ h.reply.job = ledger'[s].receipt
                        /\ h.reply.kind = "JOB_OBSERVED" => h.reply.state \in jobs'[h.reply.job].past
      BY DEF Tells
    <2>1. /\ h.intent \in Intents /\ h.reply.job \in Jobs
          /\ jobs[h.reply.job].intent = h.intent
          /\ h.reply.job = ledger[s].receipt
          /\ h.reply.kind = "JOB_OBSERVED" => h.reply.state \in jobs[h.reply.job].past
      BY <1>1 DEF Tells
    <2> QED BY <2>1, <1>1, LedgerAssumption DEF Persist, Born
  <1>4. CASE h.step \in Holding
    <2>1. flock' = flock /\ UNCHANGED <<claims, ledger, sbatches, scancels>> BY <1>1, <1>4 DEF Free0, Knows
    <2>3. h.job \in Jobs /\ jobs[h.job].intent = h.intent => jobs'[h.job].intent = h.intent
      BY <1>1, <1>4 DEF Persist, Born, Holding
    <2> QED BY <1>2, <1>1, <2>1, <2>3 DEF Knows, Holding
  <1>5. CASE h.step \in {"stage", "seal", "relock"}
    <2>2. claims'[s] = h.intent BY <1>1, <1>5 DEF Persist, Knows, Claiming
    <2>3. Knows(d)'
      BY <1>1, <1>5, <2>2 DEF Knows, Holding, Claiming, Cancels
    <2> QED BY <1>2, <2>3
  <1>6. CASE h.step \in {"unsent", "sent", "done", "dead"}
    <2> QED BY <1>2, <1>1, <1>6 DEF Knows, Holding, Claiming, Cancels
  <1> QED BY <1>1, <1>4, <1>5, <1>6 DEF Helpers, HelperSteps, Holding

------------
(* A step of a helper, which may write to the files of one scope under the
   flock and leaves the scheduler alone. *)
LEMMA HelperStep ==
  ASSUME LedgerInv, NEW p \in Invocations, NEW s \in Scopes, Persist, Others(p),
         UNCHANGED scheduler,
         helper' \in [Invocations -> Helpers],
         helper'[p].step # "unsent" => helper'[p].intent \in Intents,
         claims' \in [Scopes -> Intents \cup {None}],
         ledger' \in [Scopes -> Ledgers],
         staging' \in [Scopes -> {"ABSENT", "PARTIAL", "SEALED", "LOST"}],
         flock' \in {None, p, flock},
         flock \notin {None, p} => flock' = flock /\ UNCHANGED <<claims, ledger>>,
         \A q \in Scopes \ {s} : claims'[q] = claims[q] /\ ledger'[q] = ledger[q],
         ScopeOK(s)', Knows(p)', Tells(p)'
  PROVE  LedgerInv'
  <1>0. UNCHANGED <<sbatches, inflight, jobs, scancels, cancelling>>
    BY DEF scheduler
  <1>1. TypeOK'
    BY <1>0 DEF LedgerInv, TypeOK, Others
  <1>2. ASSUME NEW q \in Scopes PROVE ScopeOK(q)'
    <2>1. CASE q = s
      BY <2>1
    <2>2. CASE q # s
      <3> QED BY <1>0, <2>2 DEF ScopeOK, Has, LedgerInv
    <2> QED BY <2>1, <2>2
  <1>3. ASSUME NEW j \in Jobs PROVE JobOK(j)'
    <2>1. JobOK(j) /\ (Born(j) => jobs[j].intent \in Intents /\ ScopeOf[jobs[j].intent] \in Scopes)
      BY LedgerAssumption DEF LedgerInv, TypeOK, Born
    <2>2. j # None /\ None \notin Intents
      BY LedgerAssumption
    <2>4. scancels[j] = 1 =>
            /\ Born(j) /\ ledger'[ScopeOf[jobs[j].intent]].receipt = j
            /\ {"cancel.start", "cancel.state"} \subseteq ledger'[ScopeOf[jobs[j].intent]].files
      BY <2>1, <2>2 DEF JobOK, Persist
    <2> QED BY <1>0, <2>1, <2>2, <2>4 DEF JobOK, Born, Persist
  <1>4. OneJob'
    BY <1>0 DEF LedgerInv, OneJob, Born
  <1>5. InflightOK'
    <2> SUFFICES ASSUME NEW i \in inflight
                 PROVE  /\ claims'[ScopeOf[i]] = i /\ sbatches[ScopeOf[i]] = 1
                        /\ \A j \in Jobs : Born(j) => ScopeOf[jobs[j].intent] # ScopeOf[i]
      BY <1>0 DEF InflightOK, Born
    <2> QED BY LedgerAssumption DEF LedgerInv, InflightOK, Persist, TypeOK
  <1>6. ASSUME NEW d \in Invocations \ {p} PROVE Knows(d)' /\ Tells(d)'
    <2> QED BY <1>0, LedgerAssumption, OthersKnow DEF Free0, Others
  <1> QED BY <1>1, <1>2, <1>3, <1>4, <1>5, <1>6 DEF LedgerInv

(* A step of a helper that writes nothing to a ledger. *)
LEMMA QuietStep ==
  ASSUME LedgerInv, NEW p \in Invocations, Others(p), UNCHANGED <<claims, ledger, scheduler>>,
         helper' \in [Invocations -> Helpers],
         helper'[p].step # "unsent", helper'[p].intent \in Intents,
         staging' \in [Scopes -> {"ABSENT", "PARTIAL", "SEALED", "LOST"}],
         flock' \in {None, p, flock}, flock \notin {None, p} => flock' = flock,
         Knows(p)', Tells(p)'
  PROVE  LedgerInv'
  <1>1. UNCHANGED <<sbatches, jobs>>
    BY DEF scheduler
  <1>2. PICK s \in Scopes : s = ScopeOf[helper'[p].intent]
    BY LedgerAssumption
  <1>4. claims' \in [Scopes -> Intents \cup {None}] /\ ledger' \in [Scopes -> Ledgers]
    BY DEF LedgerInv, TypeOK
  <1>5. Persist
    BY <1>1, Unchanged
  <1> HIDE DEF Persist
  <1> QED BY <1>1, <1>4, <1>5, HelperStep DEF LedgerInv, ScopeOK, Has

(* The call of a helper that is at work. *)
LEMMA Called ==
  ASSUME LedgerInv, NEW p \in Invocations, helper[p].step \notin {"unsent"}
  PROVE  /\ helper[p] \in Helpers /\ Intent(p) \in Intents /\ Scope(p) \in Scopes
         /\ Intent(p) = helper[p].intent /\ Scope(p) = ScopeOf[helper[p].intent]
         /\ Ledger(p) = ledger[ScopeOf[helper[p].intent]] /\ Ledger(p) \in Ledgers
         /\ claims[Scope(p)] \in Intents \cup {None} /\ Intent(p) # None
         /\ ScopeOK(Scope(p)) /\ Knows(p) /\ Tells(p)
         /\ helper[p].step # "done" => helper[p].reply = NoReply
  BY LedgerAssumption DEF LedgerInv, TypeOK, Intent, Scope, Ledger, Knows

(* A helper that goes on has not answered. *)
LEMMA GoesOn ==
  ASSUME LedgerInv, NEW p \in Invocations, NEW s \in HelperSteps, Step(p, s),
         helper[p].step \notin {"unsent", "done"}
  PROVE  /\ helper' \in [Invocations -> Helpers] /\ Others(p) /\ SameCall(p)
         /\ helper'[p].step = s /\ helper'[p].intent = Intent(p) /\ helper'[p].intent \in Intents
         /\ helper'[p].reply = NoReply /\ Tells(p)'
  <1>1. TypeOK
    BY DEF LedgerInv
  <1>2. helper'[p].reply = NoReply /\ Intent(p) \in Intents
    BY <1>1, Stepped, Called
  <1> QED BY <1>1, <1>2, Kinds, Stepped DEF SameCall, Intent, Tells

(* A helper that answers knows nothing any more. *)
LEMMA Ends ==
  ASSUME LedgerInv, NEW p \in Invocations, NEW r \in Replies, Answer(p, r),
         helper[p].step # "unsent"
  PROVE  /\ helper' \in [Invocations -> Helpers] /\ Others(p) /\ SameCall(p)
         /\ helper'[p].step = "done" /\ helper'[p].intent = Intent(p) /\ helper'[p].intent \in Intents
         /\ helper'[p].reply = r /\ Knows(p)'
  <1>1. TypeOK
    BY DEF LedgerInv
  <1>3. Knows(p)' BY <1>1, Answered DEF Knows, Holding, Claiming, Cancels
  <1> QED BY <1>1, <1>3, Answered, Called DEF SameCall, Intent

LEMMA EndsQuietly ==
  ASSUME LedgerInv, NEW p \in Invocations, NEW r \in Replies, Answer(p, r),
         helper[p].step # "unsent",
         r.kind \notin {"SUBMITTED", "JOB_OBSERVED", "CANCEL_PENDING"}
  PROVE  Tells(p)'
  BY Ends DEF Tells

LEMMA EndsTruly ==
  ASSUME LedgerInv, NEW p \in Invocations, NEW r \in Replies, Answer(p, r),
         helper[p].step # "unsent", r.job \in Jobs,
         jobs'[r.job].intent = Intent(p), r.job = ledger'[Scope(p)].receipt,
         r.kind = "JOB_OBSERVED" => r.state \in jobs'[r.job].past
  PROVE  Tells(p)'
  BY Ends, Called DEF Tells, Intent, Scope

------------
(* What read_ledger finds is what the files say. *)
LEMMA Viewed ==
  ASSUME LedgerInv, NEW i \in Intents
  PROVE  LET s == ScopeOf[i] L == ledger[ScopeOf[i]]
         IN /\ s \in Scopes /\ L \in Ledgers /\ ScopeOK(s)
            /\ View(i) = "FOUND" => claims[s] = i /\ Has(L, "claim") /\ Has(L, "state")
            /\ View(i) = "MISSING" => claims[s] = None
            /\ Has(L, "receipt") /\ claims[s] = i => View(i) = "FOUND"
  <1> DEFINE s == ScopeOf[i]
             L == ledger[ScopeOf[i]]
  <1>1. s \in Scopes /\ L \in Ledgers /\ ScopeOK(s) /\ i # None
    BY LedgerAssumption DEF LedgerInv, TypeOK
  <1>3. View(i) = "MISSING" => claims[s] = None
    BY <1>1 DEF View
  <1>4. Has(L, "receipt") /\ claims[s] = i => View(i) = "FOUND"
    BY <1>1 DEF View, ScopeOK, Has
  <1> QED BY <1>1, <1>3, <1>4 DEF View

(* What ledger_outcome says of a view. *)
LEMMA ObservedTruly ==
  ASSUME LedgerInv, NEW i \in Intents
  PROVE  LET s == ScopeOf[i] L == ledger[ScopeOf[i]]
         IN /\ Observed(i) \in Replies /\ Observed(i).kind \in {"SUBMITTED", "PREPARED", "UNKNOWN", "REJECTED"}
            /\ Observed(i).kind = "SUBMITTED" =>
                 claims[s] = i /\ Has(L, "receipt") /\ Observed(i).job = L.receipt
            /\ Observed(i).kind = "PREPARED" => claims[s] = i /\ ~ Has(L, "start")
            /\ Has(L, "receipt") /\ claims[s] = i => Observed(i) = Reply("SUBMITTED", L.receipt)
  <1> DEFINE s == ScopeOf[i]
             L == ledger[ScopeOf[i]]
  <1>2. CASE View(i) = "FOUND"
    <2>1. Observed(i) = LedgerOutcome(L)
      BY <1>2 DEF Observed
    <2>2. claims[s] = i
      BY <1>2, Viewed
    <2> QED BY Viewed, <2>1, <2>2, Typed, Kinds DEF LedgerOutcome, Ledgers
  <1>3. CASE View(i) = "CONFLICT"
    <2> QED BY <1>3, Viewed, Typed, Kinds DEF Observed
  <1>4. CASE View(i) \notin {"FOUND", "CONFLICT"}
    <2> QED BY <1>4, Viewed, Typed, Kinds DEF Observed
  <1> QED BY <1>2, <1>3, <1>4

------------
(* A helper that answers without writing, and one that goes on without. *)
TrueOf(p, r) ==
    r.kind \in {"SUBMITTED", "JOB_OBSERVED", "CANCEL_PENDING"} =>
        /\ r.job \in Jobs /\ jobs[r.job].intent = Intent(p) /\ r.job = Ledger(p).receipt
        /\ r.kind = "JOB_OBSERVED" => r.state \in jobs[r.job].past

Staged == staging' \in [Scopes -> {"ABSENT", "PARTIAL", "SEALED", "LOST"}]

LEMMA SaysOnly ==
  ASSUME LedgerInv, NEW p \in Invocations, NEW r \in Replies, Answer(p, r),
         helper[p].step # "unsent", UNCHANGED <<claims, ledger, scheduler>>, Staged,
         flock' = flock \/ (flock = p /\ flock' = None), TrueOf(p, r)
  PROVE  LedgerInv'
  <1>2. Tells(p)' BY EndsQuietly, EndsTruly, Called DEF TrueOf, scheduler
  <1> QED BY <1>2, Ends, QuietStep DEF Staged

LEMMA MovesOnly ==
  ASSUME LedgerInv, NEW p \in Invocations, NEW s \in HelperSteps, Step(p, s),
         helper[p].step \notin {"unsent", "done"}, s # "unsent",
         UNCHANGED <<claims, ledger, scheduler>>, Staged,
         flock' \in {None, p, flock}, flock \notin {None, p} => flock' = flock,
         Knows(p)'
  PROVE  LedgerInv'
  BY GoesOn, QuietStep DEF Staged

(* A helper that writes to the ledger of its scope under the flock. *)
LEMMA Writes ==
  ASSUME LedgerInv, NEW p \in Invocations, NEW s \in Scopes, NEW L \in Ledgers,
         helper[p].step # "unsent", flock = p, flock' \in {None, p}, s = Scope(p),
         ledger' = [ledger EXCEPT ![s] = L], UNCHANGED <<claims, staging, scheduler>>,
         ledger[s].files \subseteq L.files,
         ledger[s].receipt # None => L.receipt = ledger[s].receipt,
         Others(p), helper' \in [Invocations -> Helpers], helper'[p].intent \in Intents,
         ScopeOK(s)', Knows(p)', Tells(p)'
  PROVE  LedgerInv'
  <1>1. ledger \in [Scopes -> Ledgers] /\ claims \in [Scopes -> Intents \cup {None}]
        /\ staging \in [Scopes -> {"ABSENT", "PARTIAL", "SEALED", "LOST"}]
    BY DEF LedgerInv, TypeOK
  <1>2. ledger'[s] = L /\ \A q \in Scopes \ {s} : ledger'[q] = ledger[q] /\ claims'[q] = claims[q]
    BY <1>1
  <1>4. ledger' \in [Scopes -> Ledgers]
    BY <1>1
  <1> HIDE DEF Persist
  <1> QED BY <1>1, <1>2, <1>4, HelperStep DEF Persist, scheduler

(* A step of the scheduler. *)
LEMMA SchedulerStep ==
  ASSUME LedgerInv, UNCHANGED <<storage, flock, helper, sbatches, scancels>>,
         inflight' \subseteq Intents, cancelling' \subseteq Jobs,
         jobs' \in [Jobs -> [intent : Intents \cup {None}, state : JobStates, past : SUBSET JobStates]],
         Persist, \A j \in Jobs : JobOK(j)', OneJob', InflightOK'
  PROVE  LedgerInv'
  <1>0. UNCHANGED <<claims, ledger, staging>>
    BY DEF storage
  <1>2. ASSUME NEW s \in Scopes PROVE ScopeOK(s)'
    <2>1. ScopeOK(s) /\ ledger[s] \in Ledgers /\ claims[s] \in Intents \cup {None}
      BY DEF LedgerInv, TypeOK
    <2> QED BY <1>0, <2>1 DEF ScopeOK, Persist, Has, Born, Ledgers
  <1>3. ASSUME NEW d \in Invocations PROVE Knows(d)' /\ Tells(d)'
    BY <1>0, OthersKnow DEF Free0
  <1> QED BY <1>0, <1>2, <1>3 DEF LedgerInv, TypeOK

------------
(* What the ledger says in answer to an intent is true of its job. *)
LEMMA ObservedIsTrue ==
  ASSUME LedgerInv, NEW p \in Invocations, helper[p].step # "unsent"
  PROVE  Observed(Intent(p)) \in Replies /\ TrueOf(p, Observed(Intent(p)))
  <1>1. /\ Intent(p) \in Intents /\ Ledger(p) = ledger[ScopeOf[Intent(p)]] /\ Intent(p) # None
        /\ Ledger(p).receipt \in Jobs \cup {None} /\ ScopeOK(ScopeOf[Intent(p)])
    BY Called DEF Ledgers, Scope, Intent
  <1> HIDE DEF Intent
  <1> QED BY <1>1, ObservedTruly DEF TrueOf, ScopeOK, Has

LEMMA FailsTruly ==
  ASSUME NEW p, NEW r \in {Unknown, Rejected, Failed, TimedOut, Reply("PREPARED", None)}
  PROVE  r \in Replies /\ TrueOf(p, r)
  BY Typed, Kinds DEF TrueOf

(* A call is made. *)
LEMMA Sends ==
  ASSUME LedgerInv, NEW p \in Invocations, NEW op \in Operations, NEW i \in Intents,
         NEW j \in Jobs \cup {None}, Send(p, op, i, j)
  PROVE  LedgerInv'
  <1> DEFINE h == [step |-> "sent", op |-> op, intent |-> i, job |-> j, reply |-> NoReply]
  <1>2. helper' = [helper EXCEPT ![p] = h] /\ helper \in [Invocations -> Helpers] /\ Staged
        /\ UNCHANGED <<claims, ledger, scheduler, flock>>
    BY DEF Send, LedgerInv, TypeOK, storage, Staged
  <1>3. helper'[p] = h /\ helper' \in [Invocations -> Helpers] /\ Others(p)
    BY Typed, LedgerAssumption, <1>2 DEF Others, Helpers, HelperSteps
  <1>4. Knows(p)' /\ Tells(p)'
    BY <1>3, Kinds DEF Knows, Tells, Holding, Claiming, Cancels
  <1> HIDE DEF Knows
  <1> QED BY <1>2, <1>3, <1>4, QuietStep DEF Staged

(* The helper takes the lock and answers, or begins to prepare or submit. *)
LEMMA HandleSteps ==
  ASSUME LedgerInv, NEW p \in Invocations, HandleInspect(p) \/ HandlePrepare(p) \/ HandleSubmit(p)
  PROVE  LedgerInv'
  <1>1. /\ helper[p].step = "sent" /\ flock = None /\ Staged
        /\ UNCHANGED <<claims, ledger, scheduler>>
    BY DEF HandleInspect, HandlePrepare, HandleSubmit, Free, storage, Staged, LedgerInv, TypeOK
  <1>2. ASSUME NEW r \in {Observed(Intent(p)), Rejected}, Answer(p, r), UNCHANGED flock
        PROVE  LedgerInv'
    <2> QED BY <1>1, <1>2, ObservedIsTrue, FailsTruly, SaysOnly
  <1>3. /\ Scope(p) = ScopeOf[Intent(p)] /\ Intent(p) \in Intents
        /\ Ledger(p) = ledger[ScopeOf[helper[p].intent]] /\ Intent(p) = helper[p].intent
    BY <1>1, Called DEF Scope, Intent
  <1>4. CASE HandleInspect(p)
    BY <1>2, <1>4 DEF HandleInspect
  <1>5. CASE HandlePrepare(p)
    <2>1. flock' = p /\ Step(p, "register") /\ View(Intent(p)) = "MISSING"
      BY <1>5 DEF HandlePrepare
    <2>2. helper'[p].step = "register" /\ helper'[p].intent = Intent(p) /\ helper'[p].reply = NoReply
      BY <1>1, <2>1, GoesOn DEF HelperSteps
    <2>3. claims[ScopeOf[Intent(p)]] = None
      BY <1>3, <2>1, Viewed
    <2>4. Knows(p)'
      BY <1>1, <2>1, <2>2, <2>3 DEF Knows, Holding, Claiming, Cancels
    <2> HIDE DEF Knows
    <2> QED BY <1>1, <2>1, <2>4, MovesOnly DEF HelperSteps
  <1>6. CASE HandleSubmit(p)
    <2>1. CASE View(Intent(p)) = "FOUND" /\ ~ Has(Ledger(p), "receipt") /\ StartOnce(Ledger(p))
      <3>1. flock' = p /\ Step(p, "start")
        BY <1>6, <2>1 DEF HandleSubmit
      <3>2. helper'[p].step = "start" /\ helper'[p].intent = Intent(p) /\ helper'[p].reply = NoReply
        BY <1>1, <3>1, GoesOn DEF HelperSteps
      <3>3. claims[Scope(p)] = Intent(p) /\ Has(Ledger(p), "claim") /\ Has(Ledger(p), "state")
            /\ ~ Has(Ledger(p), "start")
        BY <1>3, <2>1, Viewed DEF StartOnce
      <3>4. Knows(p)'
        BY <1>1, <1>3, <3>1, <3>2, <3>3 DEF Knows, Holding, Claiming, Cancels, Has
      <3> HIDE DEF Knows
      <3> QED BY <1>1, <3>1, <3>4, MovesOnly DEF HelperSteps
    <2>2. CASE ~ (View(Intent(p)) = "FOUND" /\ ~ Has(Ledger(p), "receipt") /\ StartOnce(Ledger(p)))
      BY <1>2, <1>6, <2>2 DEF HandleSubmit
    <2> QED BY <2>1, <2>2
  <1> QED BY <1>4, <1>5, <1>6

LEMMA TimesOut ==
  ASSUME LedgerInv, NEW p \in Invocations, LockTimeout(p)
  PROVE  LedgerInv'
  BY FailsTruly, SaysOnly DEF LockTimeout, storage, Staged, LedgerInv, TypeOK

LEMMA Dies ==
  ASSUME LedgerInv, NEW p \in Invocations, Die(p)
  PROVE  LedgerInv'
  <1>1. /\ helper[p].step \notin {"unsent", "done"} /\ Step(p, "dead") /\ Staged
        /\ UNCHANGED <<claims, ledger, scheduler>>
        /\ flock' \in {None, p, flock} /\ (flock \notin {None, p} => flock' = flock)
    BY DEF Die, storage, Staged, LedgerInv, TypeOK
  <1>3. Knows(p)' BY <1>1, GoesOn DEF Knows, Holding, Claiming, Cancels, HelperSteps
  <1> HIDE DEF Knows
  <1> QED BY <1>1, <1>3, MovesOnly DEF HelperSteps

------------
(* The scope is claimed in the registry, or the registry is full. *)
LEMMA Registers ==
  ASSUME LedgerInv, NEW p \in Invocations, Register(p)
  PROVE  LedgerInv'
  <1> PICK s \in Scopes, i \in Intents : s = Scope(p) /\ i = Intent(p)
    BY Called DEF Register, At
  <1>1. /\ helper[p].step = "register" /\ flock = p /\ Staged
        /\ UNCHANGED <<ledger, staging, scheduler, jobs, sbatches>>
    BY DEF Register, At, Staged, LedgerInv, TypeOK, scheduler
  <1>2. /\ i \in Intents /\ s \in Scopes /\ i # None /\ ScopeOf[i] = s /\ ScopeOK(s)
        /\ claims[s] = None /\ Knows(p)
    BY <1>1, Called DEF Scope, Intent, Knows
  <1>3. CASE Answer(p, Rejected) /\ flock' = None /\ UNCHANGED claims
    BY <1>1, <1>3, FailsTruly, SaysOnly
  <1>4. CASE claims' = [claims EXCEPT ![Scope(p)] = Intent(p)] /\ Step(p, "claim") /\ UNCHANGED flock
    <2>1. claims \in [Scopes -> Intents \cup {None}] /\ ledger \in [Scopes -> Ledgers]
      BY DEF LedgerInv, TypeOK
    <2>2. claims'[s] = i /\ \A q \in Scopes \ {s} : claims'[q] = claims[q] /\ ledger'[q] = ledger[q]
      BY <1>1, <1>2, <1>4, <2>1
    <2>3. Persist
      BY <1>1, <1>2, <2>2 DEF Persist
    <2>4. ScopeOK(s)'
      BY <1>1, <1>2, <2>2 DEF ScopeOK, Has
    <2>5. /\ helper'[p].step = "claim" /\ helper'[p].intent = i /\ helper'[p].reply = NoReply
          /\ helper' \in [Invocations -> Helpers] /\ Others(p) /\ Tells(p)'
      BY <1>1, <1>4, GoesOn DEF HelperSteps
    <2>6. Knows(p)'
      BY <1>1, <1>2, <1>4, <2>2, <2>5 DEF Knows, Holding, Claiming, Cancels
    <2>7. claims' \in [Scopes -> Intents \cup {None}] /\ ledger' \in [Scopes -> Ledgers]
      BY <1>1, <1>2, <1>4, <2>1
    <2> HIDE DEF Persist
    <2> QED BY <1>1, <1>2, <1>4, <2>2, <2>3, <2>4, <2>5, <2>6, <2>7, HelperStep DEF Staged
  <1> QED BY <1>3, <1>4 DEF Register

(* A file that is added to a ledger leaves the rest of it as it was. *)
LEMMA Adds ==
  ASSUME LedgerInv, NEW p \in Invocations, NEW s \in Scopes, s = Scope(p),
         NEW f \in Files, Write(p, f)
  PROVE  \E L \in Ledgers :
           /\ L = [ledger[s] EXCEPT !.files = ledger[s].files \cup {f}]
           /\ ledger' = [ledger EXCEPT ![s] = L] /\ ledger'[s] = L
  <1> DEFINE M == [ledger[s] EXCEPT !.files = ledger[s].files \cup {f}]
  <1>1. ledger \in [Scopes -> Ledgers]
    BY DEF LedgerInv, TypeOK
  <1>2. M \in Ledgers
    BY <1>1 DEF Ledgers
  <1>3. ledger' = [ledger EXCEPT ![s] = M]
    BY DEF Write
  <1>4. ledger'[s] = M
    BY <1>1, <1>3
  <1> QED BY <1>2, <1>3, <1>4

(* A file that says nothing of the submission is written, and the helper
   goes on. *)
LEMMA WritesNote ==
  ASSUME LedgerInv, NEW p \in Invocations, NEW f \in {"claim", "intent", "manifest", "script"},
         NEW n \in {"intent", "manifest", "script", "stage"},
         helper[p].step \in {"claim", "intent", "manifest", "script"}, flock = p,
         flock' = (IF n = "stage" THEN None ELSE p),
         Write(p, f), Step(p, n), UNCHANGED <<claims, staging, scheduler>>
  PROVE  LedgerInv'
  <1> PICK s \in Scopes : s = Scope(p)
    BY Called
  <1>1. PICK L \in Ledgers :
          /\ L = [ledger[s] EXCEPT !.files = ledger[s].files \cup {f}]
          /\ ledger' = [ledger EXCEPT ![s] = L] /\ ledger'[s] = L
    BY Adds DEF Files
  <1>2. /\ s \in Scopes /\ Intent(p) \in Intents /\ ledger[s] \in Ledgers /\ ScopeOK(s)
        /\ claims[s] = Intent(p) /\ Intent(p) # None /\ s = ScopeOf[Intent(p)]
    BY Called DEF Knows, Claiming, Intent, Scope, Ledger
  <1>3. ScopeOK(s)'
    BY <1>1, <1>2 DEF ScopeOK, Has, Ledgers, scheduler
  <1>4. /\ helper'[p].step = n /\ helper'[p].intent = Intent(p) /\ helper'[p].reply = NoReply
        /\ helper' \in [Invocations -> Helpers] /\ Others(p) /\ Tells(p)'
    BY GoesOn DEF HelperSteps
  <1>5. Knows(p)'
    BY <1>2, <1>4 DEF Knows, Holding, Claiming, Cancels
  <1>6. ledger[s].files \subseteq L.files /\ L.receipt = ledger[s].receipt
    BY <1>1, <1>2 DEF Ledgers
  <1> QED BY <1>1, <1>2, <1>3, <1>4, <1>5, <1>6, Writes

LEMMA Immutables ==
  ASSUME LedgerInv, NEW p \in Invocations,
         OpenClaim(p) \/ \E file \in DOMAIN Following : WriteImmutable(p, file)
  PROVE  LedgerInv'
  <1>1. CASE OpenClaim(p)
    <2>1. helper[p].step = "claim" /\ flock = p /\ Staged /\ UNCHANGED <<claims, staging, scheduler>>
      BY <1>1 DEF OpenClaim, At, Staged, LedgerInv, TypeOK
    <2>2. CASE Has(Ledger(p), "claim")
      BY <1>1, <2>1, <2>2, FailsTruly, SaysOnly DEF OpenClaim
    <2>3. CASE ~ Has(Ledger(p), "claim")
      BY <1>1, <2>1, <2>3, WritesNote DEF OpenClaim
    <2> QED BY <2>2, <2>3
  <1>2. ASSUME NEW file \in DOMAIN Following, WriteImmutable(p, file) PROVE LedgerInv'
    <2>1. file \in {"intent", "manifest", "script"}
      BY DEF Following
    <2>2. /\ Following[file] \in {"manifest", "script", "stage"}
          /\ Following[file] = "stage" <=> file = "script"
      BY <2>1 DEF Following
    <2> HIDE DEF Following
    <2> QED BY <2>1, <2>2, <1>2, WritesNote DEF WriteImmutable, At
  <1> QED BY <1>1, <1>2

(* The shared directory is staged without the lock. *)
LEMMA Stages ==
  ASSUME LedgerInv, NEW p \in Invocations, CreateShared(p) \/ SealShared(p)
  PROVE  LedgerInv'
  <1>1. /\ helper[p].step \in {"stage", "seal"} /\ UNCHANGED <<claims, ledger, flock, scheduler>>
        /\ Staged
    BY Called DEF CreateShared, SealShared, LedgerInv, TypeOK, Staged
  <1>2. CASE Answer(p, Failed)
    BY <1>1, <1>2, FailsTruly, SaysOnly
  <1>3. ASSUME NEW n \in {"seal", "relock"}, Step(p, n) PROVE LedgerInv'
    <2>1. helper'[p].step = n /\ helper'[p].intent = Intent(p) /\ helper'[p].reply = NoReply
      BY <1>1, <1>3, GoesOn DEF HelperSteps
    <2>2. Knows(p) /\ claims[Scope(p)] = Intent(p) /\ Scope(p) = ScopeOf[Intent(p)]
      BY <1>1, Called DEF Knows, Claiming, Scope, Intent
    <2>3. Knows(p)'
      BY <1>1, <2>1, <2>2 DEF Knows, Holding, Claiming, Cancels
    <2> HIDE DEF Knows
    <2> QED BY <1>1, <1>3, <2>3, MovesOnly DEF HelperSteps
  <1> QED BY <1>2, <1>3 DEF CreateShared, SealShared

LEMMA Relocks ==
  ASSUME LedgerInv, NEW p \in Invocations, Relock(p)
  PROVE  LedgerInv'
  <1>1. /\ helper[p].step = "relock" /\ flock = None /\ UNCHANGED <<claims, ledger, scheduler>>
        /\ Staged
    BY DEF Relock, LedgerInv, TypeOK, Staged, storage
  <1>2. CASE Answer(p, Failed) /\ UNCHANGED flock
    BY <1>1, <1>2, FailsTruly, SaysOnly
  <1>3. CASE /\ flock' = p /\ Step(p, "state") /\ claims[Scope(p)] = Intent(p)
             /\ Ledger(p).files \cap {"state", "start", "receipt"} = {}
    <2>1. helper'[p].step = "state" /\ helper'[p].intent = Intent(p) /\ helper'[p].reply = NoReply
      BY <1>1, <1>3, GoesOn DEF HelperSteps
    <2>2. Scope(p) = ScopeOf[Intent(p)] /\ Ledger(p) = ledger[ScopeOf[Intent(p)]]
      BY DEF Scope, Intent, Ledger
    <2>3. Knows(p)'
      BY <1>1, <1>3, <2>1, <2>2 DEF Knows, Holding, Claiming, Cancels
    <2> HIDE DEF Knows
    <2> QED BY <1>1, <1>3, <2>3, MovesOnly DEF HelperSteps
  <1> QED BY <1>2, <1>3 DEF Relock

------------
(* The shape of a helper's step that publishes L as its scope's ledger. *)
Publishes(p, s, L) ==
    /\ s = Scope(p) /\ L \in Ledgers /\ flock = p /\ flock' \in {None, p}
    /\ ledger' = [ledger EXCEPT ![s] = L] /\ ledger'[s] = L
    /\ ledger[s].files \subseteq L.files
    /\ ledger[s].receipt # None => L.receipt = ledger[s].receipt
    /\ UNCHANGED <<claims, staging, scheduler>>

LEMMA Publishing ==
  ASSUME LedgerInv, NEW p \in Invocations, NEW s \in Scopes, NEW L, Publishes(p, s, L),
         helper[p].step \notin {"unsent", "done"}, ScopeOK(s)',
         \/ /\ \E n \in HelperSteps : Step(p, n)
            /\ Knows(p)'
         \/ /\ \E r \in Replies : Answer(p, r)
            /\ Tells(p)'
  PROVE  LedgerInv'
  <1> QED BY GoesOn, Ends, Writes DEF Publishes

(* The state is published once the shared directory is staged. *)
LEMMA PublishesState ==
  ASSUME LedgerInv, NEW p \in Invocations, PublishState(p)
  PROVE  LedgerInv'
  <1> PICK s \in Scopes : s = Scope(p)
    BY Called DEF PublishState, At
  <1>1. /\ helper[p].step = "state" /\ flock = p /\ flock' = None
        /\ UNCHANGED <<claims, staging, scheduler, jobs, sbatches>>
        /\ ledger \in [Scopes -> Ledgers] /\ ledger[s] \in Ledgers
    BY DEF PublishState, At, LedgerInv, TypeOK, scheduler
  <1>2. /\ s = ScopeOf[Intent(p)] /\ claims[s] = Intent(p) /\ ScopeOK(s) /\ Intent(p) # None
        /\ ledger[s].files \cap {"state", "start", "receipt"} = {}
    BY <1>1, Called DEF Knows, Claiming, Scope, Intent
  <1> DEFINE M == [ledger[s] EXCEPT !.files = ledger[s].files \cup {"state"}, !.phase = "PREPARED"]
  <1>3. ledger' = [ledger EXCEPT ![s] = M]
    BY <1>1 DEF PublishState
  <1>5. Publishes(p, s, M) BY <1>1, <1>3 DEF Publishes, Ledgers, Files, Phases
  <1>6. ScopeOK(s)'
    BY <1>1, <1>2, <1>3 DEF ScopeOK, Has, Ledgers
  <1>7. PICK r \in {Failed, Reply("PREPARED", None)} : Answer(p, r)
    BY <1>1 DEF PublishState
  <1>8. r \in Replies /\ Tells(p)'
    BY <1>1, <1>7, Typed, Kinds, EndsQuietly
  <1> HIDE DEF M
  <1> QED BY <1>1, <1>5, <1>6, <1>7, <1>8, Publishing

(* The start marker is durable before the head and before sbatch. *)
LEMMA PublishesStart ==
  ASSUME LedgerInv, NEW p \in Invocations, PublishStart(p)
  PROVE  LedgerInv'
  <1> PICK s \in Scopes : s = Scope(p)
    BY Called DEF PublishStart, At
  <1>1. /\ helper[p].step = "start" /\ flock = p /\ Staged
        /\ UNCHANGED <<claims, staging, scheduler, jobs, sbatches>>
        /\ ledger \in [Scopes -> Ledgers] /\ ledger[s] \in Ledgers
    BY DEF PublishStart, At, LedgerInv, TypeOK, scheduler, Staged
  <1>2. /\ s = ScopeOf[Intent(p)] /\ claims[s] = Intent(p) /\ ScopeOK(s) /\ Intent(p) # None
        /\ Has(ledger[s], "claim") /\ Has(ledger[s], "state") /\ ~ Has(ledger[s], "start")
    BY <1>1, Called DEF Knows, Claiming, Scope, Intent
  <1>3. CASE Answer(p, Unknown) /\ flock' = None /\ UNCHANGED ledger
    BY <1>1, <1>3, FailsTruly, SaysOnly
  <1>4. CASE Write(p, "start") /\ Step(p, "started") /\ UNCHANGED flock
    <2>1. PICK L \in Ledgers : /\ L = [ledger[s] EXCEPT !.files = ledger[s].files \cup {"start"}]
                               /\ ledger' = [ledger EXCEPT ![s] = L] /\ ledger'[s] = L
      BY <1>4, Adds DEF Files
    <2>2. Publishes(p, s, L)
      BY <1>1, <1>4, <2>1 DEF Publishes, Ledgers
    <2>3. ScopeOK(s)'
      BY <1>1, <1>2, <2>1 DEF ScopeOK, Has, Ledgers
    <2>4. helper'[p].step = "started" /\ helper'[p].intent = Intent(p) /\ helper'[p].reply = NoReply
      BY <1>1, <1>4, GoesOn DEF HelperSteps
    <2>5. ~ Has(ledger[s], "receipt") /\ sbatches[s] = 0
      BY <1>2 DEF ScopeOK
    <2>6. Knows(p)'
      BY <1>1, <1>2, <1>4, <2>1, <2>4, <2>5 DEF Knows, Holding, Claiming, Cancels, Has, Ledgers
    <2> QED BY <1>1, <1>4, <2>2, <2>3, <2>6, Publishing DEF HelperSteps
  <1> QED BY <1>3, <1>4 DEF PublishStart

LEMMA ReplacesHead ==
  ASSUME LedgerInv, NEW p \in Invocations, ReplaceHead(p)
  PROVE  LedgerInv'
  <1> PICK s \in Scopes : s = Scope(p)
    BY Called DEF ReplaceHead, At
  <1>1. /\ helper[p].step = "started" /\ flock = p /\ flock' = flock /\ Step(p, "sbatch")
        /\ UNCHANGED <<claims, staging, scheduler, jobs, sbatches>>
        /\ ledger \in [Scopes -> Ledgers] /\ ledger[s] \in Ledgers
    BY DEF ReplaceHead, At, LedgerInv, TypeOK, scheduler
  <1>2. /\ s = ScopeOf[Intent(p)] /\ claims[s] = Intent(p) /\ ScopeOK(s) /\ Intent(p) # None
        /\ Has(ledger[s], "start") /\ ~ Has(ledger[s], "receipt") /\ sbatches[s] = 0
    BY <1>1, Called DEF Knows, Claiming, Scope, Intent
  <1> DEFINE M == [ledger[s] EXCEPT !.phase = "SUBMIT_STARTED"]
  <1>3. ledger' = [ledger EXCEPT ![s] = M] /\ M \in Ledgers
    BY <1>1 DEF ReplaceHead, Ledgers, Phases
  <1>4. Publishes(p, s, M)
    BY <1>1, <1>3 DEF Publishes, Ledgers
  <1>5. ScopeOK(s)'
    BY <1>1, <1>2, <1>3 DEF ScopeOK, Has, Ledgers
  <1>6. helper'[p].step = "sbatch" /\ helper'[p].intent = Intent(p) /\ helper'[p].reply = NoReply
    BY <1>1, GoesOn DEF HelperSteps
  <1>7. Knows(p)'
    BY <1>1, <1>2, <1>3, <1>6 DEF Knows, Holding, Claiming, Cancels, Has, Ledgers
  <1> HIDE DEF M
  <1> QED BY <1>1, <1>4, <1>5, <1>7, Publishing DEF HelperSteps

------------
(* sbatch is run once: the marker was there before, and no job was. *)
LEMMA Sbatches ==
  ASSUME LedgerInv, NEW p \in Invocations, Sbatch(p)
  PROVE  LedgerInv'
  <1> PICK s \in Scopes, i \in Intents : s = Scope(p) /\ i = Intent(p)
    BY Called DEF Sbatch, At
  <1>1. /\ helper[p].step = "sbatch" /\ flock = p /\ Step(p, "sbatched")
        /\ UNCHANGED <<claims, ledger, staging, flock, jobs, scancels, cancelling>>
        /\ sbatches' = [sbatches EXCEPT ![s] = sbatches[s] + 1] /\ inflight' = inflight \cup {i}
        /\ sbatches \in [Scopes -> Nat]
    BY DEF Sbatch, At, LedgerInv, TypeOK, storage
  <1>2. /\ s = ScopeOf[i] /\ claims[s] = i /\ ScopeOK(s) /\ i # None /\ Knows(p)
        /\ Has(ledger[s], "start") /\ ~ Has(ledger[s], "receipt") /\ sbatches[s] = 0
        /\ ledger[s].phase = "SUBMIT_STARTED"
    BY <1>1, Called DEF Knows, Claiming, Scope, Intent
  <1>3. sbatches'[s] = 1 /\ \A q \in Scopes \ {s} : sbatches'[q] = sbatches[q]
    BY <1>1, <1>2
  <1>4. \A j \in Jobs : Born(j) => ScopeOf[jobs[j].intent] # s /\ ScopeOf[jobs[j].intent] \in Scopes
    BY <1>2, LedgerAssumption DEF LedgerInv, JobOK, TypeOK, Born
  <1>5. /\ helper'[p].step = "sbatched" /\ helper'[p].intent = i /\ helper'[p].reply = NoReply
        /\ helper' \in [Invocations -> Helpers] /\ Others(p) /\ Tells(p)'
    BY <1>1, GoesOn DEF HelperSteps
  <1>6. TypeOK'
    BY <1>1, <1>5 DEF LedgerInv, TypeOK, Others
  <1>7. \A q \in Scopes : ScopeOK(q)'
    BY <1>1, <1>2, <1>3 DEF LedgerInv, ScopeOK, Has
  <1>8. \A j \in Jobs : JobOK(j)'
    BY <1>1, <1>3, <1>4 DEF LedgerInv, JobOK, Born
  <1>9. OneJob'
    BY <1>1 DEF LedgerInv, OneJob, Born
  <1>10. InflightOK'
    <2> SUFFICES ASSUME NEW k \in inflight'
                 PROVE  /\ claims[ScopeOf[k]] = k /\ sbatches'[ScopeOf[k]] = 1
                        /\ \A j \in Jobs : Born(j) => ScopeOf[jobs[j].intent] # ScopeOf[k]
      BY <1>1 DEF InflightOK, Born
    <2>1. CASE k = i
      BY <1>2, <1>3, <1>4, <2>1
    <2>2. CASE k # i
      <3>1. k \in inflight /\ ScopeOf[k] \in Scopes
        BY <1>1, <2>2, LedgerAssumption DEF LedgerInv, TypeOK
      <3> QED BY <1>2, <1>3, <3>1 DEF LedgerInv, InflightOK
    <2> QED BY <2>1, <2>2
  <1>11. Knows(p)'
    BY <1>1, <1>2, <1>5 DEF Knows, Holding, Claiming, Cancels, Has
  <1>12. ASSUME NEW d \in Invocations \ {p} PROVE Knows(d)' /\ Tells(d)'
    <2> QED BY <1>1, <1>5, Unchanged, OthersKnow DEF Free0, Others
  <1> QED BY <1>5, <1>6, <1>7, <1>8, <1>9, <1>10, <1>11, <1>12 DEF LedgerInv

(* sbatch names the job it created, or its result is uncertain. *)
LEMMA SbatchAnswers ==
  ASSUME LedgerInv, NEW p \in Invocations, SbatchReturns(p)
  PROVE  LedgerInv'
  <1> PICK s \in Scopes, i \in Intents : s = Scope(p) /\ i = Intent(p)
    BY Called DEF SbatchReturns, At
  <1>1. /\ helper[p].step = "sbatched" /\ flock = p /\ Staged
        /\ UNCHANGED <<claims, ledger, staging, scheduler, jobs>>
        /\ helper \in [Invocations -> Helpers] /\ helper[p] \in Helpers
    BY DEF SbatchReturns, At, LedgerInv, TypeOK, storage, Staged, scheduler
  <1>2. /\ s = ScopeOf[i] /\ claims[s] = i /\ i # None /\ helper[p].reply = NoReply
        /\ Has(ledger[s], "start") /\ ~ Has(ledger[s], "receipt") /\ i = helper[p].intent
        /\ ledger[s].phase = "SUBMIT_STARTED"
    BY <1>1, Called DEF Knows, Claiming, Scope, Intent
  <1>3. CASE Answer(p, Unknown) /\ flock' = None
    BY <1>1, <1>3, FailsTruly, SaysOnly
  <1>4. ASSUME NEW j \in Jobs, jobs[j].intent = i, UNCHANGED flock,
               helper' = [helper EXCEPT ![p].step = "receipt", ![p].job = j]
        PROVE  LedgerInv'
    <2> DEFINE h == [helper[p] EXCEPT !.step = "receipt", !.job = j]
    <2>2. /\ helper' \in [Invocations -> Helpers] /\ Others(p) /\ helper'[p].step = "receipt"
          /\ helper'[p].job = j /\ helper'[p].intent = i /\ helper'[p].reply = NoReply
      BY <1>1, <1>2, <1>4 DEF Others, Helpers, HelperSteps
    <2>3. Knows(p)'
      BY <1>1, <1>2, <1>4, <2>2 DEF Knows, Holding, Claiming, Cancels, Has
    <2>4. Tells(p)'
      BY <2>2, Kinds DEF Tells
    <2> HIDE DEF Knows, h
    <2> QED BY <1>1, <1>4, <2>2, <2>3, <2>4, QuietStep DEF Staged
  <1> QED BY <1>3, <1>4 DEF SbatchReturns

(* The receipt is durable before the head says SUBMITTED. *)
LEMMA PublishesReceipt ==
  ASSUME LedgerInv, NEW p \in Invocations, PublishReceipt(p)
  PROVE  LedgerInv'
  <1> PICK s \in Scopes : s = Scope(p)
    BY Called DEF PublishReceipt, At
  <1> DEFINE j == helper[p].job
  <1>1. /\ helper[p].step = "receipt" /\ flock = p /\ flock' = flock /\ Step(p, "submitted")
        /\ UNCHANGED <<claims, staging, scheduler, jobs, sbatches>>
        /\ ledger \in [Scopes -> Ledgers] /\ ledger[s] \in Ledgers
    BY DEF PublishReceipt, At, LedgerInv, TypeOK, scheduler
  <1>2. /\ s = ScopeOf[Intent(p)] /\ claims[s] = Intent(p) /\ ScopeOK(s) /\ Intent(p) # None
        /\ Has(ledger[s], "start") /\ ~ Has(ledger[s], "receipt")
        /\ ledger[s].phase = "SUBMIT_STARTED" /\ j \in Jobs /\ jobs[j].intent = Intent(p)
        /\ j # None /\ ledger[s].receipt = None
    BY <1>1, Called, LedgerAssumption DEF Knows, Claiming, Scope, Intent, ScopeOK
  <1> DEFINE M == [ledger[s] EXCEPT !.files = ledger[s].files \cup {"receipt"}, !.receipt = j]
  <1>3. ledger' = [ledger EXCEPT ![s] = M] /\ M \in Ledgers
    BY <1>1, <1>2 DEF PublishReceipt, Ledgers, Files
  <1>4. Publishes(p, s, M)
    BY <1>1, <1>2, <1>3 DEF Publishes, Ledgers
  <1>5. ScopeOK(s)'
    BY <1>1, <1>2, <1>3 DEF ScopeOK, Has, Ledgers
  <1>6. /\ helper'[p].step = "submitted" /\ helper'[p].intent = Intent(p) /\ helper'[p].reply = NoReply
        /\ helper'[p].job = j
    BY <1>1, GoesOn DEF HelperSteps, SameCall
  <1>7. Knows(p)'
    BY <1>1, <1>2, <1>3, <1>6 DEF Knows, Holding, Claiming, Cancels, Has, Ledgers
  <1> HIDE DEF M
  <1> QED BY <1>1, <1>4, <1>5, <1>7, Publishing DEF HelperSteps

LEMMA FinishesSubmit ==
  ASSUME LedgerInv, NEW p \in Invocations, FinishSubmit(p)
  PROVE  LedgerInv'
  <1> PICK s \in Scopes : s = Scope(p)
    BY Called DEF FinishSubmit, At
  <1> PICK j : j = helper[p].job
    OBVIOUS
  <1>1. /\ helper[p].step = "submitted" /\ flock = p /\ flock' = None
        /\ UNCHANGED <<claims, staging, scheduler, jobs, sbatches>>
        /\ ledger \in [Scopes -> Ledgers] /\ ledger[s] \in Ledgers
    BY DEF FinishSubmit, At, LedgerInv, TypeOK, scheduler
  <1>2. /\ s = ScopeOf[Intent(p)] /\ claims[s] = Intent(p) /\ ScopeOK(s)
        /\ j \in Jobs /\ jobs[j].intent = Intent(p) /\ j # None /\ ledger[s].receipt = j
    BY <1>1, Called, LedgerAssumption DEF Knows, Claiming, Scope, Intent
  <1> DEFINE M == [ledger[s] EXCEPT !.phase = "SUBMITTED", !.head = j]
  <1>3. ledger' = [ledger EXCEPT ![s] = M] /\ M \in Ledgers
    BY <1>1, <1>2 DEF FinishSubmit, Ledgers, Phases
  <1>4. Publishes(p, s, M)
    BY <1>1, <1>2, <1>3 DEF Publishes, Ledgers
  <1>5. ScopeOK(s)'
    BY <1>1, <1>2, <1>3 DEF ScopeOK, Has, Ledgers
  <1>6. PICK r \in Replies : Answer(p, r) /\ r = Reply("SUBMITTED", j)
    BY <1>2, Typed DEF FinishSubmit
  <1>7. ledger'[s].receipt = j
    BY <1>1, <1>2, <1>3 DEF Ledgers
  <1>8. Tells(p)'
    <2>1. r.kind = "SUBMITTED" /\ r.job = j
      BY <1>6, Kinds
    <2>2. jobs'[j].intent = Intent(p)
      BY <1>1, <1>2
    <2> HIDE DEF M
    <2> QED BY <1>1, <1>2, <1>6, <1>7, <2>1, <2>2, EndsTruly
  <1> HIDE DEF M
  <1> QED BY <1>1, <1>4, <1>5, <1>6, <1>8, Publishing

------------
(* The scheduler's tools report states the job went through, or nothing. *)
LEMMA Reported ==
  ASSUME LedgerInv, NEW j \in Jobs, NEW r \in Evidence(j)
  PROVE  /\ r \in Replies
         /\ r.kind \in {"JOB_OBSERVED", "UNKNOWN"}
         /\ r.kind = "JOB_OBSERVED" => r.job = j /\ r.state \in jobs[j].past /\ r.state \in JobStates
         /\ r.state \in JobStates => r.kind = "JOB_OBSERVED"
  <1>1. jobs[j].past \subseteq JobStates /\ "NONE" \notin JobStates
    BY DEF LedgerInv, TypeOK, JobStates, Terminal
  <1>2. CASE r = Unknown
    BY <1>1, <1>2, Kinds, Typed
  <1>3. CASE r \in {JobObserved(j, s) : s \in jobs[j].past}
    <2>1. PICK s \in jobs[j].past : r = JobObserved(j, s)
      BY <1>3
    <2>3. r.kind = "JOB_OBSERVED" /\ r.job = j /\ r.state = s
      BY <2>1, Kinds
    <2> QED BY <1>1, <2>1, Typed, <2>3
  <1> QED BY <1>2, <1>3 DEF Evidence

(* A request about a job is taken only for the job of the receipt. *)
LEMMA Named ==
  ASSUME LedgerInv, NEW p \in Invocations, helper[p].step # "unsent"
  PROVE  /\ WrongJob(p) \in Replies /\ TrueOf(p, WrongJob(p))
         /\ WrongJob(p) = NoReply =>
              /\ claims[Scope(p)] = Intent(p) /\ Has(Ledger(p), "receipt")
              /\ helper[p].job = Ledger(p).receipt /\ helper[p].job \in Jobs
              /\ jobs[helper[p].job].intent = Intent(p)
  <1> DEFINE i == Intent(p)
  <1>1. /\ i \in Intents /\ Scope(p) = ScopeOf[i] /\ Ledger(p) = ledger[ScopeOf[i]]
        /\ ScopeOK(Scope(p)) /\ Ledger(p).receipt \in Jobs \cup {None}
    BY Called DEF Ledgers, Scope, Intent
  <1>2. Observed(i) \in Replies /\ TrueOf(p, Observed(i)) /\ Observed(i) # NoReply
    BY <1>1, ObservedIsTrue, ObservedTruly, Kinds
  <1>4. NoReply \in Replies /\ TrueOf(p, NoReply)
    BY Kinds, Typed DEF TrueOf
  <1>5. /\ Rejected \in Replies /\ TrueOf(p, Rejected) /\ Unknown \in Replies /\ TrueOf(p, Unknown)
    BY FailsTruly
  <1>6. WrongJob(p) \in {Rejected, Unknown, NoReply, Observed(i)}
    BY DEF WrongJob
  <1>7. ASSUME WrongJob(p) = NoReply
        PROVE  View(i) = "FOUND" /\ Has(Ledger(p), "receipt") /\ helper[p].job = Ledger(p).receipt
    BY <1>2, Kinds, <1>7 DEF WrongJob
  <1> QED BY <1>1, <1>2, <1>4, <1>5, <1>6, <1>7, Viewed DEF ScopeOK, Has

LEMMA ObservesJob ==
  ASSUME LedgerInv, NEW p \in Invocations, HandleObserve(p)
  PROVE  LedgerInv'
  <1>1. /\ helper[p].step = "sent" /\ UNCHANGED <<claims, ledger, staging, flock, scheduler>> /\ Staged
    BY DEF HandleObserve, Free, storage, Staged, LedgerInv, TypeOK
  <1>2. CASE WrongJob(p) # NoReply
    BY <1>1, <1>2, Named, SaysOnly DEF HandleObserve
  <1>3. CASE WrongJob(p) = NoReply
    <2>1. PICK r \in Evidence(helper[p].job) : Answer(p, r)
      BY <1>3 DEF HandleObserve
    <2>3. r \in Replies /\ TrueOf(p, r) BY <1>1, <1>3, Named, Reported DEF TrueOf
    <2> QED BY <1>1, <2>1, <2>3, SaysOnly
  <1> QED BY <1>2, <1>3

(* A cancellation that a report has verified: the state it reports is the
   last one of the job. *)
LEMMA Verifies ==
  ASSUME LedgerInv, NEW p \in Invocations, NEW s \in Scopes, s = Scope(p),
         helper[p].step \notin {"unsent", "done"}, flock \in {None, p}, flock' \in {None, flock},
         NEW j \in Jobs, ledger[s].receipt = j, jobs[j].intent = Intent(p),
         NEW r \in Evidence(j), r.state \in Terminal, Answer(p, r),
         ledger' = [ledger EXCEPT ![s].cancel = "VERIFIED", ![s].result = r.state],
         UNCHANGED <<claims, staging, scheduler>>
  PROVE  LedgerInv'
  <1>1. /\ UNCHANGED <<jobs, sbatches>> /\ ledger \in [Scopes -> Ledgers] /\ ledger[s] \in Ledgers
        /\ claims \in [Scopes -> Intents \cup {None}]
        /\ staging \in [Scopes -> {"ABSENT", "PARTIAL", "SEALED", "LOST"}]
    BY DEF LedgerInv, TypeOK, scheduler
  <1>2. ScopeOK(s) /\ Intent(p) # None /\ Intent(p) \in Intents /\ JobOK(j) /\ j # None
    BY Called, LedgerAssumption DEF LedgerInv
  <1>3. r \in Replies /\ r.kind = "JOB_OBSERVED" /\ r.job = j /\ r.state \in jobs[j].past
    BY Reported DEF JobStates
  <1>4. jobs[j].state = r.state
    BY <1>2, <1>3 DEF JobOK, Born
  <1> DEFINE M == [ledger[s] EXCEPT !.cancel = "VERIFIED", !.result = r.state]
  <1>5. ledger' = [ledger EXCEPT ![s] = M] /\ M \in Ledgers
    BY <1>1 DEF Ledgers
  <1>6. ledger'[s] = M /\ \A q \in Scopes \ {s} : ledger'[q] = ledger[q] /\ claims'[q] = claims[q]
    BY <1>1, <1>5
  <1>7. ScopeOK(s)'
    BY <1>1, <1>2, <1>4, <1>6 DEF ScopeOK, Has, Ledgers
  <1>8. Persist
    BY <1>1, <1>6 DEF Persist, Ledgers
  <1>10. Tells(p)' BY <1>1, <1>3, <1>6, EndsTruly DEF Ledgers
  <1>11. ledger' \in [Scopes -> Ledgers]
    BY <1>1, <1>5
  <1> HIDE DEF M, Persist
  <1> QED BY <1>1, <1>3, <1>6, <1>7, <1>8, <1>10, <1>11, Ends, HelperStep

(* A cancel call is refused, answered from what is recorded or observed,
   verified, or begins with a job that no scancel was run for. *)
LEMMA HandlesCancel ==
  ASSUME LedgerInv, NEW p \in Invocations, HandleCancel(p)
  PROVE  LedgerInv'
  <1> PICK s \in Scopes : s = Scope(p)
    BY Called DEF HandleCancel, Free
  <1> PICK j : j = helper[p].job
    OBVIOUS
  <1>1. /\ helper[p].step = "sent" /\ flock = None /\ UNCHANGED <<claims, staging, scheduler>>
        /\ Staged /\ s = ScopeOf[Intent(p)] /\ Ledger(p) = ledger[s] /\ Intent(p) = helper[p].intent
    BY DEF HandleCancel, Free, Staged, LedgerInv, TypeOK, Ledger, Scope, Intent
  <1>2. ASSUME NEW r \in Replies, TrueOf(p, r), Answer(p, r), UNCHANGED <<ledger, flock>>
        PROVE  LedgerInv'
    BY <1>1, <1>2, SaysOnly
  <1>3. CASE WrongJob(p) # NoReply
    <2> QED BY <1>1, <1>2, <1>3, Named DEF HandleCancel
  <1>4. ASSUME WrongJob(p) = NoReply PROVE LedgerInv'
    <2>1. /\ claims[s] = Intent(p) /\ Has(ledger[s], "receipt") /\ j = ledger[s].receipt /\ j \in Jobs
          /\ jobs[j].intent = Intent(p) /\ ScopeOK(s) /\ JobOK(j) /\ Intent(p) # None
      BY <1>1, <1>4, Named, Called DEF LedgerInv
    <2>2. Born(j) /\ ScopeOf[jobs[j].intent] = s
      BY <1>1, <2>1 DEF Born
    <2>3. CASE Answer(p, Failed) /\ UNCHANGED <<ledger, flock>>
      BY <1>2, <2>3, FailsTruly
    <2>4. CASE ledger[s].cancel = "VERIFIED" /\ Answer(p, JobObserved(j, ledger[s].result))
               /\ UNCHANGED <<ledger, flock>>
      <3>1. ledger[s].result \in JobStates /\ ledger[s].result \in jobs[j].past
        BY <2>1, <2>2, <2>4 DEF ScopeOK, JobOK, JobStates
      <3>2. PICK r : r = JobObserved(j, ledger[s].result)
        OBVIOUS
      <3>3. r.kind = "JOB_OBSERVED" /\ r.job = j /\ r.state = ledger[s].result
        BY <3>2, Kinds
      <3>5. TrueOf(p, r)
        BY <1>1, <2>1, <3>1, <3>3 DEF TrueOf
      <3> QED BY <1>2, <2>4, <3>2, <2>1, <3>1, Typed, <3>5
    <2>5. CASE /\ ledger[s].cancel # "VERIFIED"
               /\ Has(ledger[s], "cancel.start") = Has(ledger[s], "cancel.state")
               /\ ~ (Answer(p, Failed) /\ UNCHANGED <<ledger, flock>>)
      <3>1. PICK before \in Evidence(j) :
               \/ /\ before = Unknown
                  /\ Answer(p, IF Has(ledger[s], "cancel.start") THEN CancelPending(j) ELSE Unknown)
                  /\ UNCHANGED <<ledger, flock>>
               \/ /\ before.state \in Terminal
                  /\ Answer(p, before) /\ UNCHANGED <<ledger, flock>>
               \/ /\ before.state \in Terminal
                  /\ ledger' = [ledger EXCEPT ![s].cancel = "VERIFIED", ![s].result = before.state]
                  /\ Answer(p, before) /\ UNCHANGED flock
               \/ Answer(p, CancelPending(j)) /\ UNCHANGED <<ledger, flock>>
               \/ /\ ~ Has(ledger[s], "cancel.start")
                  /\ flock' = p /\ Step(p, "cancel.start") /\ UNCHANGED ledger
        BY <1>1, <1>4, <2>5 DEF HandleCancel
      <3>4. CASE Answer(p, CancelPending(j)) /\ UNCHANGED <<ledger, flock>>
        BY <1>2, <1>1, <2>1, Typed, Kinds, <3>4 DEF TrueOf
      <3>5. CASE Answer(p, Unknown) /\ UNCHANGED <<ledger, flock>>
        BY <1>2, <3>5, FailsTruly
      <3>6. CASE Answer(p, before) /\ UNCHANGED <<ledger, flock>> BY <1>2, <1>1, <2>1, Reported, <3>6 DEF TrueOf
      <3>7. CASE /\ before.state \in Terminal
                 /\ ledger' = [ledger EXCEPT ![s].cancel = "VERIFIED", ![s].result = before.state]
                 /\ Answer(p, before) /\ UNCHANGED flock
        BY <1>1, <2>1, <3>7, Verifies
      <3>8. CASE /\ ~ Has(ledger[s], "cancel.start")
                 /\ flock' = p /\ Step(p, "cancel.start") /\ UNCHANGED ledger
        <4>1. /\ helper'[p].step = "cancel.start" /\ helper'[p].intent = Intent(p)
              /\ helper'[p].reply = NoReply /\ helper'[p].job = j
          BY <1>1, <3>8, GoesOn DEF HelperSteps, SameCall
        <4>2. scancels[j] = 0 /\ scancels' = scancels
          BY <1>1, <2>1, <2>2, <3>8 DEF JobOK, Has, scheduler
        <4>3. Knows(p)'
          BY <1>1, <2>1, <2>5, <3>8, <4>1, <4>2 DEF Knows, Holding, Claiming, Cancels
        <4> HIDE DEF Knows
        <4> QED BY <1>1, <3>8, <4>3, MovesOnly DEF HelperSteps
      <3> QED BY <3>1, <3>4, <3>5, <3>6, <3>7, <3>8
    <2> QED BY <1>1, <1>4, <2>3, <2>4, <2>5 DEF HandleCancel
  <1> QED BY <1>3, <1>4

(* The two files of the outbox are durable before scancel. *)
LEMMA PublishesCancel ==
  ASSUME LedgerInv, NEW p \in Invocations, PublishCancelStart(p) \/ PublishCancelState(p)
  PROVE  LedgerInv'
  <1> PICK s \in Scopes : s = Scope(p)
    BY Called DEF PublishCancelStart, PublishCancelState, At
  <1> PICK j : j = helper[p].job
    OBVIOUS
  <1>1. /\ helper[p].step \in {"cancel.start", "cancel.state"} /\ flock = p /\ flock' = flock
        /\ UNCHANGED <<claims, staging, scheduler, jobs, sbatches, scancels>>
        /\ ledger \in [Scopes -> Ledgers] /\ ledger[s] \in Ledgers
    BY DEF PublishCancelStart, PublishCancelState, At, LedgerInv, TypeOK, scheduler
  <1>2. /\ s = ScopeOf[Intent(p)] /\ claims[s] = Intent(p) /\ ScopeOK(s) /\ Intent(p) # None
        /\ j \in Jobs /\ ledger[s].receipt = j /\ scancels[j] = 0
        /\ ledger[s].cancel # "VERIFIED"
        /\ helper[p].step = "cancel.state" => Has(ledger[s], "cancel.start")
    BY <1>1, Called DEF Knows, Claiming, Cancels, Scope, Intent
  <1>3. ASSUME NEW M \in Ledgers, NEW n \in {"cancel.state", "scancel"}, NEW f \in Files, Step(p, n),
               ledger' = [ledger EXCEPT ![s] = M], f \in {"cancel.start", "cancel.state"},
               M.files = ledger[s].files \cup {f}, M.receipt = ledger[s].receipt,
               M.phase = ledger[s].phase, M.head = ledger[s].head, M.cancel # "VERIFIED",
               "cancel.start" \in M.files, n = "scancel" => "cancel.state" \in M.files
        PROVE  LedgerInv'
    <2>2. ledger'[s] = M
      BY <1>1, <1>3
    <2>3. ScopeOK(s)'
      BY <1>1, <1>2, <1>3, <2>2 DEF ScopeOK, Has
    <2>4. /\ helper'[p].step = n /\ helper'[p].intent = Intent(p) /\ helper'[p].reply = NoReply
          /\ helper'[p].job = j
      BY <1>1, <1>3, GoesOn DEF HelperSteps, SameCall
    <2>5. Knows(p)'
      BY <1>1, <1>2, <1>3, <2>2, <2>4 DEF Knows, Holding, Claiming, Cancels, Has
    <2> QED BY <1>1, <1>3, <2>3, <2>5, Publishing DEF HelperSteps, Publishes
  <1>4. CASE PublishCancelStart(p)
    <2>1. Write(p, "cancel.start") /\ Step(p, "cancel.state")
      BY <1>4 DEF PublishCancelStart
    <2>2. PICK M \in Ledgers : /\ M = [ledger[s] EXCEPT !.files = ledger[s].files \cup {"cancel.start"}]
                               /\ ledger' = [ledger EXCEPT ![s] = M] /\ ledger'[s] = M
      BY <2>1, Adds DEF Files
    <2> QED BY <1>1, <1>2, <1>3, <2>1, <2>2 DEF Ledgers, Files
  <1>5. CASE PublishCancelState(p)
    <2> DEFINE M == [ledger[s] EXCEPT !.files = ledger[s].files \cup {"cancel.state"},
                                      !.cancel = "REQUESTED"]
    <2>1. ledger' = [ledger EXCEPT ![s] = M] /\ M \in Ledgers /\ Step(p, "scancel")
      BY <1>1, <1>5 DEF PublishCancelState, Ledgers, Files
    <2>2. /\ M.files = ledger[s].files \cup {"cancel.state"} /\ M.receipt = ledger[s].receipt
          /\ M.phase = ledger[s].phase /\ M.head = ledger[s].head /\ M.cancel # "VERIFIED"
          /\ "cancel.start" \in M.files /\ "cancel.state" \in M.files
      BY <1>1, <1>2, <1>5 DEF Ledgers, PublishCancelState, At, Has
    <2> HIDE DEF M
    <2> QED BY <1>3, <2>1, <2>2 DEF Files
  <1> QED BY <1>4, <1>5

(* scancel is run once, for the job of the receipt. *)
LEMMA Scancels ==
  ASSUME LedgerInv, NEW p \in Invocations, Scancel(p)
  PROVE  LedgerInv'
  <1> PICK s \in Scopes : s = Scope(p)
    BY Called DEF Scancel, At
  <1> PICK j : j = helper[p].job
    OBVIOUS
  <1>1. /\ helper[p].step = "scancel" /\ flock = p /\ Step(p, "scancelled")
        /\ UNCHANGED <<claims, ledger, staging, flock, sbatches, inflight, jobs>>
        /\ scancels \in [Jobs -> Nat]
    BY DEF Scancel, At, LedgerInv, TypeOK, storage
  <1>2. /\ s = ScopeOf[Intent(p)] /\ claims[s] = Intent(p) /\ ScopeOK(s) /\ Intent(p) # None
        /\ j \in Jobs /\ ledger[s].receipt = j /\ scancels[j] = 0
        /\ {"cancel.start", "cancel.state"} \subseteq ledger[s].files
    BY <1>1, Called DEF Knows, Claiming, Cancels, Scope, Intent
  <1>3. jobs[j].intent = Intent(p)
    BY <1>2, LedgerAssumption DEF ScopeOK
  <1>4. /\ \A k \in Jobs \ {j} : scancels'[k] = scancels[k]
        /\ scancels'[j] \in {0, 1} /\ scancels' \in [Jobs -> Nat]
        /\ cancelling' \subseteq cancelling \cup {j}
    BY <1>1, <1>2 DEF Scancel
  <1>5. /\ helper'[p].step = "scancelled" /\ helper'[p].intent = Intent(p) /\ helper'[p].reply = NoReply
        /\ helper'[p].job = j
        /\ helper' \in [Invocations -> Helpers] /\ Others(p) /\ Tells(p)' /\ Intent(p) \in Intents
    BY <1>1, GoesOn DEF HelperSteps, SameCall
  <1>6. TypeOK'
    BY <1>1, <1>2, <1>4, <1>5 DEF LedgerInv, TypeOK, Others
  <1>7. \A q \in Scopes : ScopeOK(q)'
    BY <1>1 DEF LedgerInv, ScopeOK, Has
  <1>8. ASSUME NEW k \in Jobs PROVE JobOK(k)'
    <2>0. jobs' = jobs /\ claims' = claims /\ sbatches' = sbatches /\ ledger' = ledger /\ JobOK(k)
      BY <1>1 DEF LedgerInv
    <2>1. CASE k = j
      <3>1. Born(k) /\ ScopeOf[jobs[k].intent] = s
        BY <1>2, <1>3, <2>1 DEF Born
      <3>2. scancels'[k] \in {0, 1} /\ ledger[s].receipt = k
            /\ {"cancel.start", "cancel.state"} \subseteq ledger[s].files
        BY <1>2, <1>4, <2>1
      <3> QED BY <2>0, <3>1, <3>2 DEF JobOK, Born
    <2>2. CASE k # j
      <3>1. scancels'[k] = scancels[k] /\ (k \in cancelling' => k \in cancelling)
        BY <1>4, <2>2
      <3> QED BY <2>0, <3>1 DEF JobOK, Born
    <2> QED BY <2>1, <2>2
  <1>9. OneJob' /\ InflightOK'
    BY <1>1 DEF LedgerInv, OneJob, InflightOK, Born
  <1>10. Knows(p)'
    BY <1>1, <1>2, <1>5 DEF Knows, Holding, Claiming, Cancels, Has
  <1>11. ASSUME NEW d \in Invocations \ {p} PROVE Knows(d)' /\ Tells(d)'
    <2>1. Free0(d) /\ helper'[d] = helper[d] /\ Persist
      BY <1>1, <1>5, Unchanged DEF Free0, Others
    <2> QED BY <2>1, OthersKnow
  <1> QED BY <1>5, <1>6, <1>7, <1>8, <1>9, <1>10, <1>11 DEF LedgerInv

LEMMA FinishesCancel ==
  ASSUME LedgerInv, NEW p \in Invocations, FinishCancel(p)
  PROVE  LedgerInv'
  <1> PICK s \in Scopes : s = Scope(p)
    BY Called DEF FinishCancel, At
  <1> PICK j : j = helper[p].job
    OBVIOUS
  <1>1. /\ helper[p].step = "scancelled" /\ flock = p /\ flock' = None
        /\ UNCHANGED <<claims, staging, scheduler>> /\ Staged
    BY DEF FinishCancel, At, LedgerInv, TypeOK, Staged
  <1>2. /\ s = ScopeOf[Intent(p)] /\ claims[s] = Intent(p) /\ ScopeOK(s) /\ Ledger(p) = ledger[s]
        /\ j \in Jobs /\ ledger[s].receipt = j /\ j # None
    BY <1>1, Called, LedgerAssumption DEF Knows, Claiming, Cancels, Scope, Intent, Ledger
  <1>3. jobs[j].intent = Intent(p)
    BY <1>2 DEF ScopeOK
  <1>4. PICK after \in Evidence(j) :
          IF after.state \in Terminal
            THEN /\ ledger' = [ledger EXCEPT ![s].cancel = "VERIFIED", ![s].result = after.state]
                 /\ Answer(p, after)
            ELSE Answer(p, CancelPending(j)) /\ UNCHANGED ledger
    BY DEF FinishCancel
  <1>5. CASE after.state \in Terminal
    BY <1>1, <1>2, <1>3, <1>4, <1>5, Verifies
  <1>6. CASE after.state \notin Terminal
    <2>1. CancelPending(j) \in Replies /\ TrueOf(p, CancelPending(j))
      BY <1>2, <1>3, Typed, Kinds DEF TrueOf
    <2> QED BY <1>1, <1>4, <1>6, <2>1, SaysOnly
  <1> QED BY <1>5, <1>6

------------
(* The scheduler creates the job of an sbatch, or never does. *)
LEMMA Creates ==
  ASSUME LedgerInv, NEW i \in Intents, NEW j \in Jobs, CreateJob(i, j)
  PROVE  LedgerInv'
  <1> DEFINE b == [intent |-> i, state |-> "QUEUED", past |-> {"QUEUED"}]
  <1>1. /\ i \in inflight /\ jobs[j] = Unborn /\ ~ Born(j) /\ i # None /\ ScopeOf[i] \in Scopes
        /\ jobs' = [jobs EXCEPT ![j] = b] /\ inflight' = inflight \ {i}
        /\ UNCHANGED <<storage, flock, helper, sbatches, scancels, cancelling, claims, ledger>>
    BY Typed, LedgerAssumption DEF CreateJob, Born, storage
  <1>2. jobs \in [Jobs -> [intent : Intents \cup {None}, state : JobStates, past : SUBSET JobStates]]
        /\ inflight \subseteq Intents /\ cancelling \subseteq Jobs
    BY DEF LedgerInv, TypeOK
  <1>3. /\ jobs'[j] = b /\ \A k \in Jobs \ {j} : jobs'[k] = jobs[k]
        /\ jobs' \in [Jobs -> [intent : Intents \cup {None}, state : JobStates, past : SUBSET JobStates]]
    BY <1>1, <1>2 DEF JobStates
  <1>4. Persist
    BY <1>1, <1>3 DEF Persist, Born
  <1>5. claims[ScopeOf[i]] = i /\ sbatches[ScopeOf[i]] = 1
        /\ \A k \in Jobs : Born(k) => ScopeOf[jobs[k].intent] # ScopeOf[i]
    BY <1>1 DEF LedgerInv, InflightOK
  <1>6. ASSUME NEW k \in Jobs PROVE JobOK(k)'
    <2>1. CASE k = j
      <3>2. scancels[j] = 0 /\ j \notin cancelling BY <1>1 DEF JobOK, LedgerInv
      <3> QED BY <1>1, <1>3, <1>5, <2>1, <3>2 DEF JobOK, Born, Terminal
    <2>2. CASE k # j
      BY <1>1, <1>3, <2>2 DEF LedgerInv, JobOK, Born
    <2> QED BY <2>1, <2>2
  <1>7. OneJob'
    BY <1>1, <1>3, <1>5 DEF LedgerInv, OneJob, Born
  <1>8. InflightOK'
    <2> SUFFICES ASSUME NEW k \in inflight, k # i
                 PROVE  /\ claims[ScopeOf[k]] = k /\ sbatches[ScopeOf[k]] = 1
                        /\ \A l \in Jobs : Born(l)' => ScopeOf[jobs'[l].intent] # ScopeOf[k]
      BY <1>1 DEF InflightOK, Born
    <2> QED BY <1>3, <1>5 DEF Born, LedgerInv, InflightOK
  <1> HIDE DEF Persist, b
  <1> QED BY <1>1, <1>2, <1>3, <1>4, <1>6, <1>7, <1>8, SchedulerStep

(* A job goes on through its states to a last one. *)
LEMMA Becomes ==
  ASSUME LedgerInv, NEW j \in Jobs, NEW st \in JobStates, Become(j, st), Born(j),
         jobs[j].state \notin Terminal, cancelling' \subseteq cancelling,
         UNCHANGED <<storage, flock, helper, sbatches, inflight, scancels>>
  PROVE  LedgerInv'
  <1> DEFINE b == [jobs[j] EXCEPT !.state = st, !.past = jobs[j].past \cup {st}]
  <1>1. /\ jobs \in [Jobs -> [intent : Intents \cup {None}, state : JobStates, past : SUBSET JobStates]]
        /\ inflight' \subseteq Intents /\ cancelling' \subseteq Jobs
        /\ UNCHANGED <<claims, ledger>>
    BY DEF LedgerInv, TypeOK, storage
  <1>3. /\ jobs'[j].intent = jobs[j].intent /\ jobs'[j].state = st
        /\ jobs'[j].past = jobs[j].past \cup {st}
        /\ \A k \in Jobs \ {j} : jobs'[k] = jobs[k]
        /\ jobs' \in [Jobs -> [intent : Intents \cup {None}, state : JobStates, past : SUBSET JobStates]]
    BY <1>1 DEF Become
  <1>5. ASSUME NEW k \in Jobs PROVE JobOK(k)'
    <2>1. JobOK(k)
      BY DEF LedgerInv
    <2>2. CASE k = j
      BY <1>1, <1>3, <2>1, <2>2 DEF JobOK, Born
    <2>3. CASE k # j
      BY <1>1, <1>3, <2>1, <2>3 DEF JobOK, Born
    <2> QED BY <2>2, <2>3
  <1>6. OneJob' /\ InflightOK'
    BY <1>1, <1>3 DEF LedgerInv, OneJob, InflightOK, Born
  <1> HIDE DEF Persist, b
  <1> QED BY <1>1, <1>3, <1>5, <1>6, SchedulerStep DEF Persist

LEMMA EnvironmentSteps ==
  ASSUME LedgerInv, Environment
  PROVE  LedgerInv'
  <1>1. ASSUME NEW i \in Intents, RefuseJob(i) PROVE LedgerInv'
    <2>1. /\ UNCHANGED <<storage, flock, helper, sbatches, scancels, jobs, cancelling, claims, ledger>>
          /\ inflight' \subseteq inflight
      BY <1>1 DEF RefuseJob, storage
    <2>2. Persist /\ OneJob' /\ InflightOK' /\ \A j \in Jobs : JobOK(j)'
      BY <2>1 DEF Persist, LedgerInv, OneJob, InflightOK, JobOK, Born
    <2> HIDE DEF Persist
    <2> QED BY <2>1, <2>2, SchedulerStep DEF LedgerInv, TypeOK
  <1>2. ASSUME NEW j \in Jobs, Advance(j) PROVE LedgerInv'
    <2>2. Born(j) /\ jobs[j].state \notin Terminal /\ cancelling' = cancelling
          /\ UNCHANGED <<storage, flock, helper, sbatches, inflight, scancels>>
      BY <1>2 DEF Advance, JobOK, Terminal, LedgerInv
    <2>3. PICK st \in JobStates : Become(j, st)
      BY <1>2 DEF Advance, JobStates, Terminal
    <2> QED BY <2>2, <2>3, Becomes
  <1>3. ASSUME NEW j \in Jobs, CancelArrives(j) PROVE LedgerInv'
    <2>1. JobOK(j) /\ Born(j)
      BY <1>3 DEF LedgerInv, JobOK, CancelArrives
    <2>2. /\ UNCHANGED <<storage, flock, helper, sbatches, inflight, scancels, claims, ledger>>
          /\ cancelling' \subseteq cancelling
      BY <1>3 DEF CancelArrives, storage
    <2>3. CASE jobs[j].state \notin Terminal
      BY <1>3, <2>1, <2>2, <2>3, Becomes DEF CancelArrives, JobStates, Terminal
    <2>4. CASE jobs[j].state \in Terminal
      <3>1. UNCHANGED jobs
        BY <1>3, <2>4 DEF CancelArrives
      <3>2. Persist /\ OneJob' /\ InflightOK' /\ \A k \in Jobs : JobOK(k)'
        BY <2>2, <3>1 DEF Persist, LedgerInv, OneJob, InflightOK, JobOK, Born
      <3> HIDE DEF Persist
      <3> QED BY <2>2, <3>1, <3>2, SchedulerStep DEF LedgerInv, TypeOK
    <2> QED BY <2>3, <2>4
  <1>4. ASSUME NEW s \in Scopes, LoseStaging(s) PROVE LedgerInv'
    <2>1. /\ UNCHANGED <<claims, ledger, flock, helper, sbatches, inflight, jobs, scancels, cancelling>>
          /\ Staged
      BY <1>4 DEF LoseStaging, scheduler, LedgerInv, TypeOK, Staged
    <2>3. /\ \A q \in Scopes : ScopeOK(q)'
          /\ \A j \in Jobs : JobOK(j)'
          /\ OneJob' /\ InflightOK'
      BY <2>1 DEF LedgerInv, ScopeOK, JobOK, OneJob, InflightOK, Born, Has
    <2>4. \A d \in Invocations : Knows(d)' /\ Tells(d)'
      BY <2>1, Unchanged, OthersKnow DEF Free0
    <2> QED BY <2>1, <2>3, <2>4 DEF LedgerInv, TypeOK, Staged
  <1> QED BY <1>1, <1>2, <1>3, <1>4, Creates DEF Environment

------------
(* LedgerInv holds at first and after every step. *)
LEMMA LedgerBegins ==
  ASSUME Init
  PROVE  LedgerInv
  <1>1. TypeOK
    BY Typed, LedgerAssumption DEF Init, TypeOK, Unsent, Unborn, JobStates
  <1>2. (\A s \in Scopes : ScopeOK(s)) /\ \A j \in Jobs : JobOK(j)
    BY DEF Init, ScopeOK, JobOK, EmptyLedger, Has, Born, Unborn
  <1>3. OneJob /\ InflightOK
    BY DEF Init, OneJob, InflightOK, Born, Unborn
  <1>4. \A p \in Invocations : Knows(p) /\ Tells(p)
    BY Kinds DEF Init, Knows, Tells, Unsent, Holding, Claiming, Cancels
  <1> QED BY <1>1, <1>2, <1>3, <1>4 DEF LedgerInv

LEMMA RunSteps ==
  ASSUME LedgerInv, NEW p \in Invocations, Run(p)
  PROVE  LedgerInv'
  BY HandleSteps, Registers, Immutables, Stages, Relocks, PublishesState, PublishesStart,
     ReplacesHead, Sbatches, SbatchAnswers, PublishesReceipt, FinishesSubmit, ObservesJob,
     HandlesCancel, PublishesCancel, Scancels, FinishesCancel
  DEF Run, Submission, Control

LEMMA Stutters ==
  ASSUME LedgerInv, UNCHANGED vars
  PROVE  LedgerInv'
  <1>1. UNCHANGED <<claims, ledger, staging, flock, helper, sbatches, inflight, jobs, scancels, cancelling>>
    BY DEF vars, storage, scheduler
  <1>3. /\ \A q \in Scopes : ScopeOK(q)'
        /\ \A j \in Jobs : JobOK(j)'
        /\ OneJob' /\ InflightOK'
    BY <1>1 DEF LedgerInv, ScopeOK, JobOK, OneJob, InflightOK, Born, Has
  <1>4. \A d \in Invocations : Knows(d)' /\ Tells(d)'
    BY <1>1, Unchanged, OthersKnow DEF Free0
  <1> QED BY <1>1, <1>3, <1>4 DEF LedgerInv, TypeOK

LEMMA LedgerSteps ==
  ASSUME LedgerInv, [Next]_vars
  PROVE  LedgerInv'
  <1>1. CASE HelperNext
    BY <1>1, RunSteps, TimesOut, Dies, EnvironmentSteps DEF HelperNext
  <1>2. CASE \E p \in Invocations, op \in Operations, i \in Intents, j \in Jobs \cup {None} :
               Send(p, op, i, j)
    BY <1>2, Sends
  <1> QED BY <1>1, <1>2, Stutters DEF Next

LEMMA LedgerInvariant == Spec => []LedgerInv
  BY LedgerBegins, LedgerSteps, PTL DEF Spec

------------
(* A set of which any two elements are equal has at most one. *)
LEMMA AtMostOne ==
  ASSUME NEW S, \A x, y \in S : x = y
  PROVE  Cardinality(S) \in {0, 1} /\ (Cardinality(S) = 1 => S # {})
  <1>1. CASE S = {}
    BY <1>1, FS_EmptySet
  <1>2. CASE S # {}
    <2>1. PICK x : S = {x}
      BY <1>2
    <2> QED BY <2>1, FS_Singleton
  <1> QED BY <1>1, <1>2

(* The jobs of a scope are those its claimant asked for, and at most one. *)
LEMMA JobsOfScope ==
  ASSUME LedgerInv, NEW s \in Scopes
  PROVE  /\ \A j \in JobsOf(s) : Born(j) /\ jobs[j].intent = claims[s] /\ sbatches[s] = 1
         /\ \A j, k \in JobsOf(s) : j = k
         /\ \A j \in Jobs : Born(j) /\ ScopeOf[jobs[j].intent] = s => j \in JobsOf(s)
  <1>2. \A j \in Jobs : j \in JobsOf(s) <=> Born(j) /\ ScopeOf[jobs[j].intent] = s
    BY Typed DEF JobsOf, LedgerInv, JobOK, Born
  <1>4. \A j \in Jobs : Born(j) => /\ claims[ScopeOf[jobs[j].intent]] = jobs[j].intent
                                   /\ sbatches[ScopeOf[jobs[j].intent]] = 1
    BY DEF LedgerInv, JobOK
  <1>5. OneJob
    BY DEF LedgerInv
  <1> QED BY <1>2, <1>4, <1>5 DEF OneJob, JobsOf

LEMMA LedgerTells ==
  ASSUME LedgerInv
  PROVE  LedgerIsSound
  <1>2. SubmitOnce
    <2> SUFFICES ASSUME NEW s \in Scopes
                 PROVE  /\ sbatches[s] \in {0, 1}
                        /\ Cardinality(JobsOf(s)) + Cardinality({i \in inflight : ScopeOf[i] = s})
                             <= sbatches[s]
                        /\ sbatches[s] = 1 => Has(ledger[s], "start") /\ claims[s] # None
                        /\ \A j \in JobsOf(s) : jobs[j].intent = claims[s]
      BY DEF SubmitOnce
    <2> DEFINE I == {i \in inflight : ScopeOf[i] = s}
    <2>1. ScopeOK(s)
      BY DEF LedgerInv
    <2>2. \A i \in I : /\ claims[s] = i /\ sbatches[s] = 1
                       /\ JobsOf(s) = {}
      BY JobsOfScope DEF LedgerInv, InflightOK, JobsOf
    <2>3. Cardinality(I) \in {0, 1} /\ (Cardinality(I) = 1 => I # {})
      <3> HIDE DEF I
      <3> QED BY <2>2, AtMostOne
    <2>4. Cardinality(JobsOf(s)) \in {0, 1} /\ (Cardinality(JobsOf(s)) = 1 => JobsOf(s) # {})
      BY JobsOfScope, AtMostOne
    <2>6. I # {} => sbatches[s] = 1 /\ JobsOf(s) = {}
      BY <2>2
    <2>7. Cardinality(I) = 1 => Cardinality(JobsOf(s)) = 0
      BY <2>3, <2>4, <2>6
    <2> HIDE DEF I
    <2>8. Cardinality(JobsOf(s)) + Cardinality(I) <= sbatches[s]
      <3>1. sbatches[s] \in {0, 1}
        BY <2>1 DEF ScopeOK
      <3> QED BY <2>3, <2>4, <2>2, JobsOfScope, <2>6, <2>7, <3>1
    <2> QED BY <2>1, <2>8, JobsOfScope DEF ScopeOK, I, Has
  <1>3. JobsAreReal
    <2>1. ASSUME NEW s \in Scopes PROVE {ledger[s].receipt, ledger[s].head} \ {None} \subseteq JobsOf(s)
      <3>1. /\ ScopeOK(s) /\ ledger[s] \in Ledgers /\ claims[s] \in Intents \cup {None}
            /\ None \notin Intents
        BY LedgerAssumption DEF LedgerInv, TypeOK
      <3>3. ledger[s].head # None => ledger[s].head = ledger[s].receipt
        BY <3>1 DEF ScopeOK
      <3> QED BY <3>1, <3>3, JobsOfScope DEF ScopeOK, Born, Ledgers, Has
    <2>2. ASSUME NEW p \in Invocations,
                 helper[p].reply.kind \in {"SUBMITTED", "JOB_OBSERVED", "CANCEL_PENDING"}
          PROVE  /\ jobs[helper[p].reply.job].intent = Intent(p)
                 /\ helper[p].reply.job = Ledger(p).receipt
                 /\ helper[p].reply.kind = "JOB_OBSERVED" =>
                      helper[p].reply.state \in jobs[helper[p].reply.job].past
      BY <2>2 DEF LedgerInv, Tells, Intent, Ledger, Scope
    <2> QED BY <2>1, <2>2 DEF JobsAreReal
  <1>4. CancelOnce
    <2>1. ASSUME NEW j \in Jobs
          PROVE  /\ scancels[j] \in {0, 1}
                 /\ scancels[j] = 1 =>
                      \E s \in Scopes : /\ ledger[s].receipt = j
                                        /\ {"cancel.start", "cancel.state"} \subseteq ledger[s].files
      <3> QED BY LedgerAssumption DEF JobOK, LedgerInv, TypeOK, Born
    <2> QED BY <2>1 DEF CancelOnce, LedgerInv, ScopeOK
  <1> QED BY <1>2, <1>3, <1>4 DEF LedgerIsSound, LedgerInv

(* Whatever number of helpers serve whatever calls, in any order, delayed,
   repeated or killed between any two writes: a scope is submitted at most
   once, by the intent that claimed it and behind its start marker; its
   job is cancelled at most once, behind its outbox; a receipt, a head and
   an answer name the scope's own job and a state it went through, and a
   VERIFIED cancellation the state the job is really in. *)
THEOREM SubmissionIsExact == Spec => []LedgerIsSound
  BY LedgerInvariant, LedgerTells, PTL

------------
(* The helper at work alone answers, and says PREPARED only of a scope
   whose submission was not started. *)
AtWork(p) == Run(p) \/ LockTimeout(p) \/ Die(p)

LEMMA Works ==
  ASSUME LedgerInv, NEW p \in Invocations, AtWork(p)
  PROVE  helper[p].step \notin {"unsent", "done", "dead"}
  BY Called DEF AtWork, Run, Submission, Control, LockTimeout, Die, Free, At, HandleInspect, HandlePrepare,
     HandleSubmit, Register, OpenClaim, WriteImmutable, Following, CreateShared, SealShared, Relock,
     PublishState, PublishStart, ReplaceHead, Sbatch, SbatchReturns, PublishReceipt, FinishSubmit,
     HandleObserve, HandleCancel, PublishCancelStart, PublishCancelState, Scancel, FinishCancel

\* The step a helper takes, or the answer it gives.
Goes(p) ==
    \/ \E s \in HelperSteps \ {"done"} : Step(p, s)
    \/ \E r \in Replies : Answer(p, r) /\ (r.kind = "PREPARED" => ~ Has(Ledger(p), "start"))
    \/ \E j \in Jobs : helper' = [helper EXCEPT ![p].step = "receipt", ![p].job = j]

LEMMA GoesServing ==
  ASSUME LedgerInv, NEW p \in Invocations, HandleInspect(p) \/ HandlePrepare(p) \/ HandleSubmit(p)
  PROVE  Goes(p)
  <1>1. Intent(p) \in Intents /\ Ledger(p) = ledger[ScopeOf[Intent(p)]]
    BY Called DEF HandleInspect, HandlePrepare, HandleSubmit, Free, Ledger, Scope, Intent
  <1>2. /\ Observed(Intent(p)) \in Replies
        /\ Observed(Intent(p)).kind = "PREPARED" => ~ Has(Ledger(p), "start")
    BY <1>1, ObservedTruly
  <1>4. CASE HandleInspect(p)
    BY <1>2, <1>4 DEF HandleInspect, Goes
  <1>5. CASE HandlePrepare(p)
    BY <1>5 DEF HandlePrepare, Goes, HelperSteps
  <1>6. CASE HandleSubmit(p)
    <2>1. Step(p, "start") \/ \E r \in {Rejected, Observed(Intent(p))} : Answer(p, r)
      BY <1>6 DEF HandleSubmit
    <2> QED BY <1>2, Kinds, Typed, <2>1 DEF Goes, HelperSteps
  <1> QED BY <1>4, <1>5, <1>6

LEMMA GoesPreparing ==
  ASSUME LedgerInv, NEW p \in Invocations,
         \/ Register(p) \/ OpenClaim(p) \/ CreateShared(p) \/ SealShared(p) \/ Relock(p)
         \/ PublishState(p) \/ LockTimeout(p) \/ Die(p)
         \/ \E file \in DOMAIN Following : WriteImmutable(p, file)
  PROVE  Goes(p)
  <1>1. \A r \in {Unknown, Rejected, Failed, TimedOut} : r \in Replies /\ r.kind # "PREPARED"
    BY Kinds, Typed
  <1>2. CASE PublishState(p)
    <2>1. PICK r \in {Failed, Reply("PREPARED", None)} : Answer(p, r)
      BY <1>2 DEF PublishState
    <2>2. helper[p].step = "state"
      BY <1>2 DEF PublishState, At
    <2>3. Knows(p)
      BY <2>2, Called
    <2>4. ~ Has(Ledger(p), "start")
      <3>1. "start" \notin ledger[ScopeOf[helper[p].intent]].files
        BY <2>2, <2>3 DEF Knows
      <3> QED BY <3>1 DEF Has, Ledger, Scope
    <2>5. r \in Replies
      BY <2>1, Typed
    <2> QED BY <2>1, <2>4, <2>5 DEF Goes
  <1>3. ASSUME NEW file \in DOMAIN Following, WriteImmutable(p, file) PROVE Goes(p)
    <2>1. Following[file] \in HelperSteps \ {"done"}
      BY DEF Following, HelperSteps
    <2> QED BY <1>3, <2>1 DEF WriteImmutable, Goes
  <1>4. CASE \/ Register(p) \/ OpenClaim(p) \/ CreateShared(p) \/ SealShared(p) \/ Relock(p)
             \/ LockTimeout(p) \/ Die(p)
    <2>1. \/ \E s \in {"claim", "intent", "seal", "relock", "state", "dead"} : Step(p, s)
          \/ \E r \in {Unknown, Rejected, Failed, TimedOut} : Answer(p, r)
      BY <1>4 DEF Register, OpenClaim, CreateShared, SealShared, Relock, LockTimeout, Die
    <2> QED BY <1>1, <2>1 DEF Goes, HelperSteps
  <1> QED BY <1>2, <1>3, <1>4

LEMMA GoesSubmitting ==
  ASSUME LedgerInv, NEW p \in Invocations,
         \/ PublishStart(p) \/ ReplaceHead(p) \/ Sbatch(p) \/ SbatchReturns(p)
         \/ PublishReceipt(p) \/ FinishSubmit(p)
  PROVE  Goes(p)
  <1>1. Unknown \in Replies /\ Unknown.kind # "PREPARED"
    BY Kinds, Typed
  <1>2. CASE FinishSubmit(p)
    <2>1. PICK r : Answer(p, r) /\ r = Reply("SUBMITTED", helper[p].job)
      BY <1>2 DEF FinishSubmit
    <2>2. helper[p].job \in Jobs
      BY <1>2, Called DEF FinishSubmit, At, Knows
    <2> QED BY <2>1, <2>2, Typed, Kinds DEF Goes
  <1>3. CASE PublishStart(p) \/ ReplaceHead(p) \/ Sbatch(p) \/ PublishReceipt(p)
    <2>1. (\E s \in {"started", "sbatch", "sbatched", "submitted"} : Step(p, s)) \/ Answer(p, Unknown)
      BY <1>3 DEF PublishStart, ReplaceHead, Sbatch, PublishReceipt
    <2> QED BY <1>1, <2>1 DEF Goes, HelperSteps
  <1>4. CASE SbatchReturns(p)
    BY <1>1, <1>4 DEF SbatchReturns, Goes
  <1> QED BY <1>2, <1>3, <1>4

LEMMA GoesControlling ==
  ASSUME LedgerInv, NEW p \in Invocations, Control(p)
  PROVE  Goes(p)
  <1>1. PICK j : j = helper[p].job
    OBVIOUS
  <1>2. helper[p].step # "unsent" /\ Ledger(p) = ledger[Scope(p)]
    BY DEF Control, HandleObserve, HandleCancel, PublishCancelStart, PublishCancelState, Scancel,
           FinishCancel, Free, At, Ledger
  <1>3. /\ Intent(p) \in Intents /\ Ledger(p) = ledger[ScopeOf[Intent(p)]] /\ ScopeOK(Scope(p))
        /\ helper[p].step \in Cancels => j \in Jobs
    BY <1>1, <1>2, Called DEF Ledger, Scope, Intent, Knows
  <1>4. \A r \in {Unknown, Rejected, Failed} : r \in Replies /\ r.kind # "PREPARED"
    BY Kinds, Typed
  <1>5. WrongJob(p) \in Replies /\ (WrongJob(p).kind = "PREPARED" => ~ Has(Ledger(p), "start"))
    <2>2. NoReply \in Replies /\ NoReply.kind # "PREPARED"
      BY Kinds, Typed
    <2> QED BY <1>3, <1>4, <2>2, ObservedTruly DEF WrongJob
  <1>6. ASSUME j \in Jobs, NEW r \in Evidence(j), Answer(p, r) PROVE Goes(p)
    <2> QED BY <1>6, Reported DEF Goes
  <1>7. ASSUME j \in Jobs, NEW st \in JobStates,
               Answer(p, CancelPending(j)) \/ Answer(p, JobObserved(j, st)) PROVE Goes(p)
    <2>1. PICK r \in {CancelPending(j), JobObserved(j, st)} : Answer(p, r)
      BY <1>7
    <2> QED BY <2>1, <1>7, Typed, Kinds DEF Goes
  <1>8. CASE HandleObserve(p)
    <2>1. CASE WrongJob(p) # NoReply
      BY <1>5, <1>8, <2>1 DEF HandleObserve, Goes
    <2>2. CASE WrongJob(p) = NoReply
      <3> QED BY <1>1, <1>6, <1>8, <2>2, <1>2, Named DEF HandleObserve
    <2> QED BY <2>1, <2>2
  <1>9. CASE HandleCancel(p)
    <2>1. CASE WrongJob(p) # NoReply
      BY <1>5, <1>9, <2>1 DEF HandleCancel, Goes
    <2>2. ASSUME WrongJob(p) = NoReply PROVE Goes(p)
      <3>1. j \in Jobs
        BY <1>1, <1>2, <2>2, Named
      <3>2. CASE Ledger(p).cancel = "VERIFIED"
        <4>1. Ledger(p).result \in JobStates /\ Ledger(p).cancel = "VERIFIED"
          BY <1>2, <1>3, <3>2 DEF ScopeOK, JobStates
        <4>2. Answer(p, Failed) \/ Answer(p, JobObserved(j, Ledger(p).result))
          BY <1>1, <1>9, <2>2, <3>2 DEF HandleCancel
        <4> QED BY <1>4, <1>7, <3>1, <4>1, <4>2 DEF Goes
      <3>3. CASE Ledger(p).cancel # "VERIFIED"
        <4>1. \/ Answer(p, Failed)
              \/ \E before \in Evidence(j) :
                   \/ Answer(p, CancelPending(j)) \/ Answer(p, Unknown)
                   \/ Answer(p, before) \/ Step(p, "cancel.start")
          BY <1>1, <1>9, <2>2, <3>3 DEF HandleCancel
        <4>3. Step(p, "cancel.start") => Goes(p)
          BY DEF Goes, HelperSteps
        <4>4. Answer(p, Failed) \/ Answer(p, Unknown) => Goes(p)
          BY <1>4 DEF Goes
        <4> QED BY <1>6, <1>7, <3>1, <4>1, <4>3, <4>4 DEF JobStates
      <3> QED BY <3>2, <3>3
    <2> QED BY <2>1, <2>2
  <1>10. CASE PublishCancelStart(p) \/ PublishCancelState(p) \/ Scancel(p)
    <2> QED BY <1>10 DEF Goes, HelperSteps, PublishCancelStart, PublishCancelState, Scancel
  <1>11. CASE FinishCancel(p)
    <2>1. j \in Jobs /\ "QUEUED" \in JobStates
      BY <1>3, <1>11 DEF FinishCancel, At, Cancels, JobStates
    <2> QED BY <1>6, <1>7, <2>1, <1>1, <1>11 DEF FinishCancel
  <1> QED BY <1>8, <1>9, <1>10, <1>11 DEF Control

LEMMA GoesAlways ==
  ASSUME LedgerInv, NEW p \in Invocations, AtWork(p)
  PROVE  Goes(p)
  BY GoesServing, GoesPreparing, GoesSubmitting, GoesControlling DEF AtWork, Run, Submission, Control

LEMMA OnlyItAnswers ==
  ASSUME LedgerInv, NEW p \in Invocations, AtWork(p)
  PROVE  /\ Others(p)
         /\ helper'[p].reply.kind = "PREPARED" => ~ Has(Ledger(p), "start")
  <1>1. helper[p].step \notin {"unsent", "done", "dead"} /\ helper[p].reply = NoReply /\ Goes(p)
    BY Works, Called, GoesAlways
  <1>2. ASSUME NEW s \in HelperSteps \ {"done"}, Step(p, s)
        PROVE  Others(p) /\ helper'[p].reply = NoReply
    BY <1>1, <1>2, GoesOn
  <1>3. ASSUME NEW r \in Replies, Answer(p, r) PROVE Others(p) /\ helper'[p].reply = r
    BY <1>1, <1>3, Ends
  <1>4. ASSUME NEW j \in Jobs, helper' = [helper EXCEPT ![p].step = "receipt", ![p].job = j]
        PROVE  Others(p) /\ helper'[p].reply = NoReply
    BY <1>1, <1>4 DEF Others, LedgerInv, TypeOK, Helpers
  <1> QED BY <1>1, <1>2, <1>3, <1>4, Kinds DEF Goes

(* A call that is handled while the receipt is there answers with its job. *)
LEMMA ReceiptAnswers ==
  ASSUME LedgerInv, NEW p \in Invocations, AtWork(p), Free(p), helper'[p].step = "done",
         Has(Ledger(p), "receipt"), claims[Scope(p)] = Intent(p),
         helper[p].op \in {"Prepare", "Submit", "Inspect"}
  PROVE  Answers(p, Reply("SUBMITTED", Ledger(p).receipt))
  <1>1. /\ helper[p].step = "sent" /\ flock = None /\ helper[p].reply = NoReply
        /\ Intent(p) \in Intents /\ Scope(p) = ScopeOf[Intent(p)]
        /\ Ledger(p) = ledger[ScopeOf[Intent(p)]]
    BY Called DEF Free, Ledger, Scope, Intent
  <1>2. /\ View(Intent(p)) = "FOUND" /\ Observed(Intent(p)) = Reply("SUBMITTED", Ledger(p).receipt)
        /\ Observed(Intent(p)) \in Replies
    BY <1>1, Viewed, ObservedTruly
  <1>3. ASSUME Answer(p, Observed(Intent(p)))
        PROVE  Answers(p, Reply("SUBMITTED", Ledger(p).receipt))
    BY <1>1, <1>2, <1>3, Ends DEF Answers
  <1>4. ASSUME NEW s \in {"register", "dead"}, Step(p, s) PROVE FALSE
    BY <1>1, <1>4, GoesOn DEF HelperSteps
  <1>5. HandleInspect(p) \/ HandlePrepare(p) \/ HandleSubmit(p) \/ Die(p)
    BY <1>1, LedgerAssumption DEF AtWork, Run, Submission, Control, LockTimeout, Free, At,
       Register, OpenClaim, WriteImmutable, Following, CreateShared, SealShared, Relock,
       PublishState, PublishStart, ReplaceHead, Sbatch, SbatchReturns, PublishReceipt, FinishSubmit,
       HandleObserve, HandleCancel, PublishCancelStart, PublishCancelState, Scancel, FinishCancel
  <1> QED BY <1>2, <1>3, <1>4, <1>5 DEF HandleInspect, HandlePrepare, HandleSubmit, Die

AnswersStep ==
    \A p \in Invocations :
      /\ helper'[p].reply.kind = "PREPARED" /\ helper[p].reply = NoReply =>
           sbatches[Scope(p)] = 0 /\ JobsOf(Scope(p)) = {}
      /\ Free(p) /\ helper'[p].step = "done" /\ Has(Ledger(p), "receipt")
         /\ claims[Scope(p)] = Intent(p)
         /\ helper[p].op \in {"Prepare", "Submit", "Inspect"} =>
           Answers(p, Reply("SUBMITTED", Ledger(p).receipt))

LEMMA AnswersFollow ==
  ASSUME LedgerInv, [Next]_vars
  PROVE  AnswersStep
  <1> SUFFICES ASSUME NEW p \in Invocations
               PROVE  /\ helper'[p].reply.kind = "PREPARED" /\ helper[p].reply = NoReply =>
                           sbatches[Scope(p)] = 0 /\ JobsOf(Scope(p)) = {}
                      /\ Free(p) /\ helper'[p].step = "done" /\ Has(Ledger(p), "receipt")
                         /\ claims[Scope(p)] = Intent(p)
                         /\ helper[p].op \in {"Prepare", "Submit", "Inspect"} =>
                           Answers(p, Reply("SUBMITTED", Ledger(p).receipt))
    BY DEF AnswersStep
  <1>1. CASE helper'[p] = helper[p]
    BY <1>1, Kinds DEF Free
  <1>2. CASE AtWork(p)
    <2>1. helper'[p].reply.kind = "PREPARED" => sbatches[Scope(p)] = 0 /\ JobsOf(Scope(p)) = {}
      <3> SUFFICES ASSUME helper'[p].reply.kind = "PREPARED"
                   PROVE  sbatches[Scope(p)] = 0 /\ JobsOf(Scope(p)) = {}
        OBVIOUS
      <3>1. Scope(p) \in Scopes /\ ~ Has(ledger[Scope(p)], "start") /\ ScopeOK(Scope(p))
        BY <1>2, OnlyItAnswers, Works, Called DEF Ledger
      <3> QED BY <3>1, JobsOfScope DEF ScopeOK
    <2> QED BY <1>2, <2>1, ReceiptAnswers
  <1>3. ASSUME NEW op \in Operations, NEW i \in Intents, NEW j \in Jobs \cup {None}, Send(p, op, i, j)
        PROVE  helper[p].step = "unsent" /\ helper'[p].reply = NoReply
    BY <1>3 DEF Send, Unsent, LedgerInv, TypeOK
  <1>4. ASSUME NEW d \in Invocations \ {p}, AtWork(d) PROVE helper'[p] = helper[p]
    BY <1>4, OnlyItAnswers DEF Others
  <1>5. ASSUME NEW d \in Invocations \ {p}, NEW op \in Operations, NEW i \in Intents,
               NEW j \in Jobs \cup {None}, Send(d, op, i, j)
        PROVE  helper'[p] = helper[p]
    BY <1>5 DEF Send, LedgerInv, TypeOK
  <1>6. CASE Environment \/ UNCHANGED vars
    BY <1>1, <1>6 DEF Environment, CreateJob, RefuseJob, Advance, CancelArrives, LoseStaging, vars
  <1>7. \/ Environment \/ UNCHANGED vars \/ \E d \in Invocations : AtWork(d)
        \/ \E d \in Invocations, op \in Operations, i \in Intents, j \in Jobs \cup {None} :
             Send(d, op, i, j)
    BY DEF Next, HelperNext, AtWork
  <1> QED BY <1>1, <1>2, <1>3, <1>4, <1>5, <1>6, <1>7, Kinds DEF Free

------------
(* What is on file stays on file. *)
Grows(s) ==
    /\ claims[s] # None => claims'[s] = claims[s]
    /\ ledger[s].files \subseteq ledger'[s].files
    /\ ledger[s].receipt # None => ledger'[s].receipt = ledger[s].receipt
    /\ ledger[s].cancel = "VERIFIED" => ledger'[s].cancel = "VERIFIED"
    /\ ledger[s].phase = "SUBMITTED" => ledger'[s].phase = "SUBMITTED"

LEMMA GrowsQuietly ==
  ASSUME UNCHANGED <<claims, ledger>>
  PROVE  \A s \in Scopes : Grows(s)
  BY DEF Grows

LEMMA GrowsByFile ==
  ASSUME LedgerInv, NEW p \in Invocations, NEW f \in Files, helper[p].step # "unsent",
         Write(p, f), UNCHANGED claims
  PROVE  \A s \in Scopes : Grows(s)
  <1>1. PICK q \in Scopes : q = Scope(p)
    BY Called
  <1>2. PICK L \in Ledgers : /\ L = [ledger[q] EXCEPT !.files = ledger[q].files \cup {f}]
                             /\ ledger' = [ledger EXCEPT ![q] = L] /\ ledger'[q] = L
    BY <1>1, Adds
  <1> QED BY <1>2 DEF Grows, Ledgers, LedgerInv, TypeOK

LEMMA GrowsSubmitting ==
  ASSUME LedgerInv, NEW p \in Invocations, Submission(p)
  PROVE  \A s \in Scopes : Grows(s)
  <1>1. CASE \/ HandleInspect(p) \/ HandlePrepare(p) \/ HandleSubmit(p) \/ CreateShared(p)
             \/ SealShared(p) \/ Relock(p) \/ Sbatch(p) \/ SbatchReturns(p)
    BY <1>1, GrowsQuietly DEF HandleInspect, HandlePrepare, HandleSubmit, CreateShared, SealShared,
       Relock, Sbatch, SbatchReturns, storage
  <1>2. CASE Register(p)
    <2>1. /\ ledger' = ledger /\ claims[Scope(p)] = None /\ claims \in [Scopes -> Intents \cup {None}]
          /\ claims' = claims \/ claims' = [claims EXCEPT ![Scope(p)] = Intent(p)]
      BY <1>2, Called DEF Register, At, Knows, LedgerInv, TypeOK, Scope
    <2> QED BY <2>1 DEF Grows
  <1>3. CASE OpenClaim(p) \/ PublishStart(p)
    <2>1. helper[p].step # "unsent" /\ claims' = claims
      BY <1>3 DEF OpenClaim, PublishStart, At
    <2> QED BY <2>1, <1>3, GrowsQuietly, GrowsByFile DEF Files, OpenClaim, PublishStart
  <1>4. ASSUME NEW file \in DOMAIN Following, WriteImmutable(p, file)
        PROVE  \A s \in Scopes : Grows(s)
    <2> QED BY <1>4, GrowsByFile DEF Following, Files, WriteImmutable, At
  <1>5. CASE PublishState(p) \/ ReplaceHead(p) \/ PublishReceipt(p) \/ FinishSubmit(p)
    <2> PICK s \in Scopes : s = Scope(p)
      BY <1>5, Called DEF PublishState, ReplaceHead, PublishReceipt, FinishSubmit, At
    <2>1. /\ claims' = claims /\ ledger \in [Scopes -> Ledgers] /\ ScopeOK(s)
          /\ helper[p].step \in {"state", "started", "receipt", "submitted"}
      BY <1>5 DEF LedgerInv, TypeOK, PublishState, ReplaceHead, PublishReceipt, FinishSubmit, At
    <2>2. helper[p].step \in {"state", "started", "receipt"} =>
            ledger[s].phase # "SUBMITTED" /\ ledger[s].receipt = None
      <3> QED BY <2>1, Called DEF ScopeOK, Knows, Has, Scope
    <2>3. CASE PublishState(p)
      BY <2>1, <2>2, <2>3 DEF PublishState, At, Grows, Ledgers
    <2>4. CASE ReplaceHead(p)
      BY <2>1, <2>2, <2>4 DEF ReplaceHead, At, Grows, Ledgers
    <2>5. CASE PublishReceipt(p)
      BY <2>1, <2>2, <2>5 DEF PublishReceipt, At, Grows, Ledgers
    <2>6. CASE FinishSubmit(p)
      BY <2>1, <2>6 DEF FinishSubmit, Grows, Ledgers
    <2> QED BY <1>5, <2>3, <2>4, <2>5, <2>6
  <1> QED BY <1>1, <1>2, <1>3, <1>4, <1>5 DEF Submission

LEMMA GrowsControlling ==
  ASSUME LedgerInv, NEW p \in Invocations, Control(p)
  PROVE  \A s \in Scopes : Grows(s)
  <1>1. CASE HandleObserve(p) \/ Scancel(p)
    BY <1>1, GrowsQuietly DEF HandleObserve, Scancel, storage
  <1>2. CASE PublishCancelStart(p)
    BY <1>2, GrowsByFile DEF PublishCancelStart, At, Files
  <1>3. CASE PublishCancelState(p)
    <2> PICK s \in Scopes : s = Scope(p)
      BY <1>3, Called DEF PublishCancelState, At
    <2>1. claims' = claims /\ ledger \in [Scopes -> Ledgers] /\ ledger[s].cancel # "VERIFIED"
      BY <1>3, Called DEF LedgerInv, TypeOK, PublishCancelState, At, Knows, Scope
    <2> QED BY <1>3, <2>1 DEF PublishCancelState, Grows, Ledgers
  <1>4. CASE HandleCancel(p) \/ FinishCancel(p)
    <2> PICK s \in Scopes : s = Scope(p)
      BY <1>4, Called DEF HandleCancel, FinishCancel, Free, At
    <2>1. /\ claims' = claims /\ ledger \in [Scopes -> Ledgers]
          /\ \/ ledger' = ledger
             \/ \E r : ledger' = [ledger EXCEPT ![s].cancel = "VERIFIED", ![s].result = r]
      BY <1>4 DEF HandleCancel, FinishCancel, LedgerInv, TypeOK
    <2>2. CASE ledger' = ledger
      BY <2>1, <2>2, GrowsQuietly
    <2>3. ASSUME NEW r, ledger' = [ledger EXCEPT ![s].cancel = "VERIFIED", ![s].result = r]
          PROVE  \A q \in Scopes : Grows(q)
      <3> DEFINE M == [ledger[s] EXCEPT !.cancel = "VERIFIED", !.result = r]
      <3>2. ledger'[s] = M /\ \A q \in Scopes \ {s} : ledger'[q] = ledger[q] BY <2>1, <2>3
      <3>4. /\ M.cancel = "VERIFIED" /\ M.files = ledger[s].files /\ M.receipt = ledger[s].receipt
            /\ M.phase = ledger[s].phase BY <2>1 DEF Ledgers
      <3> HIDE DEF M
      <3> QED BY <2>1, <3>2, <3>4 DEF Grows
    <2> QED BY <2>1, <2>2, <2>3
  <1> QED BY <1>1, <1>2, <1>3, <1>4 DEF Control

LEMMA GrowsAlways ==
  ASSUME LedgerInv, [Next]_vars
  PROVE  \A s \in Scopes : Grows(s)
  <1>1. ASSUME NEW p \in Invocations, LockTimeout(p) \/ Die(p)
        PROVE  \A s \in Scopes : Grows(s)
    BY <1>1, GrowsQuietly DEF LockTimeout, Die, storage
  <1>2. CASE Environment \/ UNCHANGED vars
    BY <1>2, GrowsQuietly DEF Environment, CreateJob, RefuseJob, Advance, CancelArrives, LoseStaging,
       storage, vars
  <1>3. ASSUME NEW p \in Invocations, NEW op \in Operations, NEW i \in Intents,
               NEW j \in Jobs \cup {None}, Send(p, op, i, j)
        PROVE  \A s \in Scopes : Grows(s)
    BY <1>3, GrowsQuietly DEF Send, storage
  <1> QED BY <1>1, <1>2, <1>3, GrowsSubmitting, GrowsControlling DEF Next, HelperNext, Run

(* PREPARED is only answered while no job can exist, an intent's repeated
   call answers with the job of the durable receipt, whichever helper
   published it and died, and claims, files, receipts, SUBMITTED heads and
   VERIFIED cancellations are never taken back. *)
THEOREM AnswersStay == Spec => AnswersAreKept
<1> DEFINE Growth == \A s \in Scopes :
         /\ claims[s] # None => claims'[s] = claims[s]
         /\ ledger[s].files \subseteq ledger'[s].files
         /\ ledger[s].receipt # None => ledger'[s].receipt = ledger[s].receipt
         /\ ledger[s].cancel = "VERIFIED" => ledger'[s].cancel = "VERIFIED"
         /\ ledger[s].phase = "SUBMITTED" => ledger'[s].phase = "SUBMITTED"
<1>1. LedgerInv /\ [Next]_vars => [Growth]_vars
  BY GrowsAlways DEF Grows
<1>2. LedgerInv /\ [Next]_vars => [AnswersStep]_vars
  BY AnswersFollow
<1> QED BY <1>1, <1>2, LedgerInvariant, PTL
    DEF Spec, AnswersAreKept, AnswersFollowTheLedger, LedgerOnlyGrows, AnswersStep

------------
(* The refinement: the helpers and their files implement the gateway that
   the submission service is modelled and proved against.  Every step of a
   helper is a step of the gateway, or leaves it as it is. *)


(* The steps of each operation; those before a helper has changed its gate
   are "sent" to the gateway. *)
Preparing == {"register", "claim", "intent", "manifest", "script", "stage", "seal", "relock", "state"}
Submitting == {"start", "started", "sbatch", "sbatched", "receipt", "submitted"}

Purpose(p) ==
    /\ helper[p].step \in Preparing => helper[p].op = "Prepare"
    /\ helper[p].step \in Submitting => helper[p].op = "Submit"
    /\ helper[p].step \in Cancels => helper[p].op = "CancelJob"
    /\ helper[p].step = "unsent" => helper[p] = Unsent

RefineInv == LedgerInv /\ \A p \in Invocations : Purpose(p)

------------
(* The gateway's state, as the files and helpers show it. *)
LEMMA SameGates ==
  ASSUME UNCHANGED <<claims, ledger>>
  PROVE  [s \in Scopes |-> GateOf(s)]' = [s \in Scopes |-> GateOf(s)]
  BY DEF GateOf, Has

LEMMA GatesBut ==
  ASSUME NEW s \in Scopes, NEW g,
         \A q \in Scopes \ {s} : claims'[q] = claims[q] /\ ledger'[q] = ledger[q],
         GateOf(s)' = g
  PROVE  [q \in Scopes |-> GateOf(q)]' = [[q \in Scopes |-> GateOf(q)] EXCEPT ![s] = g]
  <1> QED BY DEF GateOf, Has

LEMMA CallsBut ==
  ASSUME NEW p \in Invocations, NEW c, Others(p), CallOf(p)' = c
  PROVE  [d \in Invocations |-> CallOf(d)]' = [[d \in Invocations |-> CallOf(d)] EXCEPT ![p] = c]
  <1>1. \A d \in Invocations \ {p} : CallOf(d)' = CallOf(d)
    BY DEF Others, CallOf
  <1> QED BY <1>1

LEMMA SameCalls ==
  ASSUME NEW p \in Invocations, Others(p), CallOf(p)' = CallOf(p)
  PROVE  [d \in Invocations |-> CallOf(d)]' = [d \in Invocations |-> CallOf(d)]
  <1> QED BY DEF Others, CallOf

(* A step that shows the gateway nothing. *)
LEMMA Hidden ==
  ASSUME NEW p \in Invocations, Others(p), CallOf(p)' = CallOf(p),
         [s \in Scopes |-> GateOf(s)]' = [s \in Scopes |-> GateOf(s)],
         inflight' = inflight, jobs' = jobs
  PROVE  UNCHANGED Gateway!gatewayVars
  BY SameCalls DEF Gateway!gatewayVars

(* A call that is told an answer, and one that goes on. *)
Told(c, r) == [step |-> "done", op |-> c.op, intent |-> c.intent, job |-> c.job, reply |-> r]
Moved(c, s) == [step |-> s, op |-> c.op, intent |-> c.intent, job |-> c.job, reply |-> c.reply]

LEMMA CallTyped ==
  ASSUME LedgerInv
  PROVE  [d \in Invocations |-> CallOf(d)] \in [Invocations -> Gateway!Requests]
  <1> SUFFICES ASSUME NEW d \in Invocations PROVE CallOf(d) \in Gateway!Requests
    OBVIOUS
  <1>1. helper[d] \in Helpers
    BY DEF LedgerInv, TypeOK
  <1>2. GateStep(helper[d].step) \in Gateway!CallSteps
    BY DEF GateStep, Gateway!CallSteps
  <1>3. GateReply(helper[d].reply) \in Gateway!Replies
    BY <1>1 DEF GateReply, Gateway!Replies, Helpers, Replies
  <1>4. helper[d].op \in Gateway!JobOperations \cup Gateway!LedgerOperations
    BY <1>1 DEF Helpers, AllOperations, Gateway!JobOperations, Gateway!LedgerOperations
  <1> QED BY <1>1, <1>2, <1>3, <1>4 DEF CallOf, Gateway!Requests, Gateway!Replies, Helpers

LEMMA ToldOf ==
  ASSUME LedgerInv, NEW p \in Invocations, NEW r, Others(p), CallOf(p)' = Told(CallOf(p), r)
  PROVE  [d \in Invocations |-> CallOf(d)]' =
           [[d \in Invocations |-> CallOf(d)] EXCEPT ![p].step = "done", ![p].reply = r]
  <1>1. PICK C \in [Invocations -> Gateway!Requests] : C = [d \in Invocations |-> CallOf(d)]
    BY CallTyped
  <1>3. [C EXCEPT ![p] = Told(C[p], r)] = [C EXCEPT ![p].step = "done", ![p].reply = r]
    BY DEF Told, Gateway!Requests
  <1> QED BY <1>1, CallsBut, <1>3

LEMMA MovedOf ==
  ASSUME LedgerInv, NEW p \in Invocations, NEW s, Others(p), CallOf(p)' = Moved(CallOf(p), s)
  PROVE  [d \in Invocations |-> CallOf(d)]' =
           [[d \in Invocations |-> CallOf(d)] EXCEPT ![p].step = s]
  <1>1. PICK C \in [Invocations -> Gateway!Requests] : C = [d \in Invocations |-> CallOf(d)]
    BY CallTyped
  <1>3. [C EXCEPT ![p] = Moved(C[p], s)] = [C EXCEPT ![p].step = s]
    BY DEF Moved, Gateway!Requests
  <1> QED BY <1>1, CallsBut, <1>3

(* An answer of evidence, and one that refuses. *)
LEMMA Evident ==
  ASSUME LedgerInv, NEW p \in Invocations, Others(p), CallOf(p).step = "sent",
         NEW r \in Gateway!Evidence(p), CallOf(p)' = Told(CallOf(p), r),
         [s \in Scopes |-> GateOf(s)]' = [s \in Scopes |-> GateOf(s)],
         inflight' = inflight, jobs' = jobs
  PROVE  Gateway!Answer(p)
  BY ToldOf DEF Gateway!Answer, Gateway!Reply

LEMMA Abandoned ==
  ASSUME LedgerInv, NEW p \in Invocations, Others(p), CallOf(p).step \notin {"unsent", "sent", "done"},
         CallOf(p)' = Told(CallOf(p), Gateway!Refused),
         [s \in Scopes |-> GateOf(s)]' = [s \in Scopes |-> GateOf(s)],
         inflight' = inflight, jobs' = jobs
  PROVE  Gateway!Abandon(p)
  BY ToldOf DEF Gateway!Abandon, Gateway!Reply

------------
Implements == [Gateway!GatewayNext]_(Gateway!gatewayVars)

LEMMA ServesImplements ==
  ASSUME NEW p \in Invocations, Gateway!Serve(p)
  PROVE  Implements
  BY DEF Implements, Gateway!GatewayNext, Gateway!GatewayStep

(* What the gateway sees of a helper at work. *)
LEMMA Mapped ==
  ASSUME LedgerInv, NEW p \in Invocations, helper[p].step # "unsent"
  PROVE  /\ CallOf(p) = [step |-> GateStep(helper[p].step), op |-> helper[p].op,
                         intent |-> Intent(p), job |-> CallOf(p).job, reply |-> CallOf(p).reply]
         /\ helper[p].op \in {"ObserveJob", "CancelJob"} => CallOf(p).job = helper[p].job
         /\ Gateway!Gate(p) = GateOf(Scope(p))
         /\ \A phase : Gateway!Holds(p, phase) <=>
                         claims[Scope(p)] = Intent(p) /\ GateOf(Scope(p)).phase = phase
         /\ GateOf(Scope(p)).claim = claims[Scope(p)] /\ GateOf(Scope(p)).job = Ledger(p).receipt
  <1>1. CallOf(p).intent = Intent(p) /\ Scope(p) = ScopeOf[Intent(p)] /\ Scope(p) \in Scopes
    BY Called DEF CallOf, Intent, Scope
  <1>2. GateOf(Scope(p)).claim = claims[Scope(p)] /\ GateOf(Scope(p)).job = Ledger(p).receipt
    BY DEF GateOf, Ledger
  <1>3. Gateway!Gate(p) = GateOf(Scope(p))
    BY <1>1 DEF Gateway!Gate
  <1> QED BY <1>1, <1>2, <1>3 DEF CallOf, Intent, Gateway!Holds

(* The phase of a gate is read from the files of its scope. *)
LEMMA Phased ==
  ASSUME LedgerInv, NEW s \in Scopes
  PROVE  /\ Has(ledger[s], "receipt") => GateOf(s).phase = "SUBMITTED"
         /\ ~ Has(ledger[s], "receipt") /\ Has(ledger[s], "start") => GateOf(s).phase = "STARTED"
         /\ ~ Has(ledger[s], "receipt") /\ ~ Has(ledger[s], "start") /\ Has(ledger[s], "state") =>
              GateOf(s).phase = "PREPARED"
         /\ ~ Has(ledger[s], "state") /\ claims[s] # None => GateOf(s).phase = "CLAIMED"
  BY DEF LedgerInv, ScopeOK, GateOf, Has

(* A helper that goes on within a step of the gateway. *)
LEMMA Walks ==
  ASSUME LedgerInv, NEW p \in Invocations, NEW s \in HelperSteps \ {"dead"}, Step(p, s),
         helper[p].step \notin {"unsent", "done", "dead"}, GateStep(s) = GateStep(helper[p].step),
         [q \in Scopes |-> GateOf(q)]' = [q \in Scopes |-> GateOf(q)],
         inflight' = inflight, jobs' = jobs
  PROVE  Implements
  <1>1. /\ Others(p) /\ SameCall(p) /\ helper'[p].step = s
        /\ helper'[p].reply = NoReply /\ helper[p].reply = NoReply
    BY GoesOn, Called
  <1> QED BY <1>1, Hidden DEF Implements, CallOf, SameCall

(* What the gateway sees of an answer. *)
LEMMA Seen ==
  ASSUME LedgerInv, NEW p \in Invocations, NEW r \in Replies, Answer(p, r),
         helper[p].step # "unsent"
  PROVE  Others(p) /\ CallOf(p)' = Told(CallOf(p), GateReply(r))
  <1>2. GateStep("done") = "done"
    BY DEF GateStep
  <1> QED BY Ends, <1>2 DEF CallOf, SameCall, Told

Refuses(r) == r # NoReply /\ r.kind \notin {"PREPARED", "SUBMITTED", "JOB_OBSERVED"}

LEMMA RefusalSeen ==
  ASSUME NEW r, Refuses(r)
  PROVE  GateReply(r) = Gateway!Refused
  BY DEF GateReply, Refuses, Gateway!Refused

\* What the gateway may be heard to answer to a call it has not acted on.
Warranted(p, r) ==
    \/ Refuses(r)
    \/ /\ r.kind = "SUBMITTED" /\ helper[p].op \in {"Prepare", "Submit", "Inspect"}
       /\ claims[Scope(p)] = Intent(p) /\ Has(Ledger(p), "receipt")
       /\ r.job = Ledger(p).receipt
    \/ /\ r.kind = "PREPARED" /\ helper[p].op \in {"Prepare", "Inspect"} /\ r.job = None
       /\ claims[Scope(p)] = Intent(p) /\ ~ Has(Ledger(p), "receipt")
       /\ ~ Has(Ledger(p), "start") /\ Has(Ledger(p), "state")
    \/ /\ r.kind = "JOB_OBSERVED" /\ helper[p].op \in {"ObserveJob", "CancelJob"}
       /\ claims[Scope(p)] = Intent(p) /\ Has(Ledger(p), "receipt")
       /\ r.job = helper[p].job /\ r.job = Ledger(p).receipt

LEMMA Warrants ==
  ASSUME LedgerInv, NEW p \in Invocations, NEW r \in Replies, Answer(p, r),
         helper[p].step # "unsent", GateStep(helper[p].step) = "sent", Warranted(p, r),
         [q \in Scopes |-> GateOf(q)]' = [q \in Scopes |-> GateOf(q)],
         inflight' = inflight, jobs' = jobs
  PROVE  Implements
  <1>1. /\ Scope(p) \in Scopes /\ Ledger(p) = ledger[Scope(p)] /\ ScopeOK(Scope(p))
        /\ Ledger(p).receipt \in Jobs \cup {None}
    BY Called DEF Ledgers, Ledger
  <1>2. CallOf(p).op = helper[p].op /\ CallOf(p).step = "sent"
    BY DEF CallOf
  <1>3. GateReply(r) \in Gateway!Evidence(p)
    <2>1. CASE Refuses(r)
      BY <2>1, RefusalSeen DEF Gateway!Evidence
    <2>2. CASE ~ Refuses(r) /\ r.kind = "SUBMITTED"
      <3>1. /\ Gateway!Holds(p, "SUBMITTED") /\ r.job \in Jobs /\ Gateway!Gate(p).job = r.job
            /\ CallOf(p).op \in {"Prepare", "Submit", "Inspect"}
        BY <1>1, <1>2, <2>2, Mapped, Phased DEF Warranted, ScopeOK
      <3>3. GateReply(r) = Gateway!Submitted(r.job) BY <2>2, Kinds DEF GateReply, Gateway!Submitted
      <3> QED BY <3>1, <3>3 DEF Gateway!Evidence, Gateway!LedgerOperations
    <2>3. CASE ~ Refuses(r) /\ r.kind = "PREPARED"
      <3>1. Gateway!Holds(p, "PREPARED") /\ CallOf(p).op \in {"Prepare", "Inspect"} /\ r.job = None
        BY <1>1, <1>2, <2>3, Mapped, Phased DEF Warranted
      <3>3. GateReply(r) = Gateway!Prepared BY <2>3, <3>1, Kinds DEF GateReply, Gateway!Prepared
      <3> QED BY <3>1, <3>3 DEF Gateway!Evidence
    <2>4. CASE ~ Refuses(r) /\ r.kind = "JOB_OBSERVED"
      <3>1. /\ Gateway!Holds(p, "SUBMITTED") /\ r.job \in Jobs /\ Gateway!Gate(p).job = r.job
            /\ CallOf(p).job = r.job /\ CallOf(p).op \in {"ObserveJob", "CancelJob"}
        BY <1>1, <1>2, <2>4, Mapped, Phased DEF Warranted, ScopeOK
      <3>3. GateReply(r) = Gateway!Observed(r.job) BY <2>4, Kinds DEF GateReply, Gateway!Observed
      <3> QED BY <3>1, <3>3 DEF Gateway!Evidence, Gateway!JobOperations
    <2> QED BY <2>1, <2>2, <2>3, <2>4 DEF Warranted
  <1> QED BY <1>2, <1>3, Seen, Evident, ServesImplements DEF Gateway!Serve

LEMMA GivesUp ==
  ASSUME LedgerInv, NEW p \in Invocations, NEW r \in Replies, Answer(p, r), Refuses(r),
         GateStep(helper[p].step) \notin {"unsent", "sent", "done"},
         [q \in Scopes |-> GateOf(q)]' = [q \in Scopes |-> GateOf(q)],
         inflight' = inflight, jobs' = jobs
  PROVE  Implements
  <1>1. helper[p].step # "unsent" /\ CallOf(p).step = GateStep(helper[p].step)
    BY DEF GateStep, CallOf
  <1>3. Others(p) /\ CallOf(p)' = Told(CallOf(p), Gateway!Refused) BY <1>1, RefusalSeen, Seen
  <1> QED BY <1>1, <1>3, Abandoned, ServesImplements DEF Gateway!Serve

------------
(* The answers of the helpers are warranted. *)
SameWorld ==
    /\ [q \in Scopes |-> GateOf(q)]' = [q \in Scopes |-> GateOf(q)]
    /\ inflight' = inflight /\ jobs' = jobs

LEMMA Refusals ==
  ASSUME NEW r \in {Unknown, Rejected, Failed, TimedOut}
  PROVE  r \in Replies /\ Refuses(r)
  BY Typed, Kinds DEF Refuses

LEMMA PendingRefuses ==
  ASSUME NEW j \in Jobs
  PROVE  CancelPending(j) \in Replies /\ Refuses(CancelPending(j))
  BY Typed, Kinds DEF Refuses

LEMMA ObservedWarranted ==
  ASSUME LedgerInv, NEW p \in Invocations, helper[p].step # "unsent"
  PROVE  LET o == Observed(Intent(p))
         IN /\ o \in Replies
            /\ helper[p].op \in {"Prepare", "Inspect"} => Warranted(p, o)
            /\ helper[p].op = "Submit" =>
                 Warranted(p, o) \/ (o.kind = "PREPARED" /\ View(Intent(p)) = "FOUND"
                                     /\ ~ Has(Ledger(p), "receipt") /\ StartOnce(Ledger(p)))
            /\ View(Intent(p)) # "FOUND" => Refuses(o)
  <1> PICK i \in Intents : i = Intent(p)
    BY Called
  <1>1. /\ Scope(p) = ScopeOf[i] /\ Ledger(p) = ledger[ScopeOf[i]]
    BY DEF Scope, Ledger, Intent
  <1>2. \/ Observed(i) \in {Unknown, Rejected}
        \/ /\ View(i) = "FOUND" /\ Has(Ledger(p), "receipt")
           /\ Observed(i) = Reply("SUBMITTED", Ledger(p).receipt)
        \/ /\ View(i) = "FOUND" /\ ~ Has(Ledger(p), "receipt") /\ StartOnce(Ledger(p))
           /\ Observed(i) = Reply("PREPARED", None)
    BY <1>1 DEF Observed, LedgerOutcome, StartOnce
  <1>4. CASE Observed(i) \in {Unknown, Rejected}
    BY <1>4, Refusals DEF Warranted
  <1>5. CASE /\ View(i) = "FOUND" /\ Has(Ledger(p), "receipt")
             /\ Observed(i) = Reply("SUBMITTED", Ledger(p).receipt)
    <2>2. Observed(i).kind = "SUBMITTED" /\ Observed(i).job = Ledger(p).receipt
      BY <1>5, Kinds
    <2> QED BY <1>5, <1>1, Viewed, ObservedTruly, <2>2 DEF Warranted
  <1>6. CASE /\ View(i) = "FOUND" /\ ~ Has(Ledger(p), "receipt") /\ StartOnce(Ledger(p))
             /\ Observed(i) = Reply("PREPARED", None)
    <2>2. Observed(i).kind = "PREPARED" /\ Observed(i).job = None
      BY <1>6, Kinds
    <2> QED BY <1>6, <1>1, Viewed, ObservedTruly, <2>2 DEF Warranted, StartOnce
  <1> QED BY <1>2, <1>4, <1>5, <1>6 DEF Observed

(* The calls that are answered from the ledger. *)
LEMMA ServingImplements ==
  ASSUME RefineInv, NEW p \in Invocations, HandleInspect(p) \/ HandlePrepare(p) \/ HandleSubmit(p)
  PROVE  Implements
  <1>1. /\ LedgerInv /\ helper[p].step = "sent" /\ GateStep("sent") = "sent" /\ SameWorld
        /\ GateStep("register") = "sent" /\ GateStep("start") = "sent"
    BY SameGates DEF RefineInv, HandleInspect, HandlePrepare, HandleSubmit, Free, GateStep, SameWorld,
       storage, scheduler
  <1>2. ASSUME NEW r \in Replies, Answer(p, r), Warranted(p, r) PROVE Implements
    BY <1>1, <1>2, Warrants DEF SameWorld
  <1>3. ASSUME NEW s \in {"register", "start"}, Step(p, s) PROVE Implements
    BY <1>1, <1>3, Walks DEF SameWorld, HelperSteps
  <1>4. CASE HandleInspect(p)
    BY <1>1, <1>2, <1>4, ObservedWarranted DEF HandleInspect
  <1>5. CASE HandlePrepare(p)
    BY <1>3, <1>5 DEF HandlePrepare
  <1>6. CASE HandleSubmit(p)
    <2>1. CASE View(Intent(p)) = "FOUND" /\ ~ Has(Ledger(p), "receipt") /\ StartOnce(Ledger(p))
      BY <1>3, <1>6, <2>1 DEF HandleSubmit
    <2>2. CASE ~ (View(Intent(p)) = "FOUND" /\ ~ Has(Ledger(p), "receipt") /\ StartOnce(Ledger(p)))
      <3>2. Rejected \in Replies /\ Warranted(p, Rejected)
        BY Refusals DEF Warranted
      <3>3. Observed(Intent(p)) \in Replies /\ Warranted(p, Observed(Intent(p)))
        BY <1>1, <1>6, <2>2, ObservedWarranted DEF HandleSubmit
      <3> QED BY <1>2, <1>6, <2>2, <3>2, <3>3 DEF HandleSubmit
    <2> QED BY <2>1, <2>2
  <1> QED BY <1>4, <1>5, <1>6

(* Writing a file the gate does not show. *)
LEMMA HiddenFile ==
  ASSUME LedgerInv, NEW p \in Invocations, helper[p].step # "unsent",
         NEW f \in Files \ {"receipt", "start", "state"}, Write(p, f), claims' = claims
  PROVE  [q \in Scopes |-> GateOf(q)]' = [q \in Scopes |-> GateOf(q)]
  <1> PICK s \in Scopes : s = Scope(p)
    BY Called
  <1>1. PICK L \in Ledgers : /\ L = [ledger[s] EXCEPT !.files = ledger[s].files \cup {f}]
                             /\ ledger' = [ledger EXCEPT ![s] = L] /\ ledger'[s] = L
    BY Adds
  <1>3. /\ ledger'[s].receipt = ledger[s].receipt
        /\ \A g \in {"receipt", "start", "state"} : Has(ledger'[s], g) <=> Has(ledger[s], g)
        /\ \A q \in Scopes \ {s} : ledger'[q] = ledger[q] BY <1>1 DEF Has, Ledgers, LedgerInv, TypeOK
  <1> QED BY <1>3 DEF GateOf

------------
(* A helper that goes on to another step of the gateway. *)
LEMMA MovedSeen ==
  ASSUME LedgerInv, NEW p \in Invocations, NEW s \in HelperSteps \ {"dead"}, Step(p, s),
         helper[p].step \notin {"unsent", "done", "dead"}
  PROVE  Others(p) /\ CallOf(p)' = Moved(CallOf(p), GateStep(s))
  <1> QED BY GoesOn, Called DEF CallOf, SameCall, Moved

(* A gate that only goes to another phase, and perhaps records a job. *)
LEMMA GateTyped ==
  ASSUME LedgerInv
  PROVE  [q \in Scopes |-> GateOf(q)] \in [Scopes -> Gateway!Gates]
  <1> SUFFICES ASSUME NEW q \in Scopes PROVE GateOf(q) \in Gateway!Gates
    OBVIOUS
  <1>2. GateOf(q).phase \in {"FREE", "CLAIMED", "PREPARED", "STARTED", "SUBMITTED"}
    BY DEF GateOf
  <1> QED BY <1>2 DEF GateOf, Gateway!Gates, LedgerInv, TypeOK, Ledgers

LEMMA GateMoved ==
  ASSUME LedgerInv, NEW s \in Scopes, NEW phase,
         \A q \in Scopes \ {s} : claims'[q] = claims[q] /\ ledger'[q] = ledger[q],
         GateOf(s)' = [claim |-> GateOf(s).claim, phase |-> phase, job |-> GateOf(s).job]
  PROVE  [q \in Scopes |-> GateOf(q)]' = [[q \in Scopes |-> GateOf(q)] EXCEPT ![s].phase = phase]
  <1>1. PICK G \in [Scopes -> Gateway!Gates] : G = [q \in Scopes |-> GateOf(q)]
    BY GateTyped
  <1>3. [G EXCEPT ![s] = [claim |-> G[s].claim, phase |-> phase, job |-> G[s].job]]
          = [G EXCEPT ![s].phase = phase]
    BY DEF Gateway!Gates
  <1> QED BY <1>1, GatesBut, <1>3

LEMMA GateRecorded ==
  ASSUME LedgerInv, NEW s \in Scopes, NEW j \in Jobs, NEW t, t = s,
         \A q \in Scopes \ {s} : claims'[q] = claims[q] /\ ledger'[q] = ledger[q],
         GateOf(s)' = [claim |-> GateOf(s).claim, phase |-> "SUBMITTED", job |-> j]
  PROVE  [q \in Scopes |-> GateOf(q)]' =
           [[q \in Scopes |-> GateOf(q)] EXCEPT ![t].phase = "SUBMITTED", ![t].job = j]
  <1>1. PICK G \in [Scopes -> Gateway!Gates] : G = [q \in Scopes |-> GateOf(q)]
    BY GateTyped
  <1>2. [q \in Scopes |-> GateOf(q)]' =
          [G EXCEPT ![s] = [claim |-> G[s].claim, phase |-> "SUBMITTED", job |-> j]]
    BY <1>1, GatesBut
  <1>3. [G EXCEPT ![s] = [claim |-> G[s].claim, phase |-> "SUBMITTED", job |-> j]]
          = [G EXCEPT ![t].phase = "SUBMITTED", ![t].job = j]
    <2> DEFINE g == G[s]
    <2>1. g \in Gateway!Gates
      OBVIOUS
    <2>2. [G EXCEPT ![t].phase = "SUBMITTED", ![t].job = j]
            = [G EXCEPT ![s] = [g EXCEPT !.phase = "SUBMITTED", !.job = j]]
      BY Zenon
    <2> HIDE DEF g
    <2> DEFINE y == [claim |-> g.claim, phase |-> "SUBMITTED", job |-> g.job]
    <2>3. [g EXCEPT !.phase = "SUBMITTED"] = y
      BY <2>1 DEF Gateway!Gates
    <2>4. [y EXCEPT !.job = j] = [claim |-> g.claim, phase |-> "SUBMITTED", job |-> j]
      OBVIOUS
    <2> HIDE DEF y
    <2>5. [g EXCEPT !.phase = "SUBMITTED", !.job = j] = [y EXCEPT !.job = j]
      BY <2>3, Zenon
    <2> QED BY <2>2, <2>4, <2>5, Zenon DEF g
  <1> QED BY <1>1, <1>2, <1>3

(* The claim of a scope, or of nothing. *)
LEMMA RegisterImplements ==
  ASSUME RefineInv, NEW p \in Invocations, Register(p)
  PROVE  Implements
  <1> PICK s \in Scopes, i \in Intents : s = Scope(p) /\ i = Intent(p)
    BY Called DEF RefineInv, Register, At
  <1>1. /\ LedgerInv /\ helper[p].step = "register" /\ helper[p].op = "Prepare" /\ flock = p
        /\ GateStep("register") = "sent" /\ GateStep("claim") = "preparing"
        /\ ledger' = ledger /\ inflight' = inflight /\ jobs' = jobs
        /\ claims \in [Scopes -> Intents \cup {None}] /\ ledger \in [Scopes -> Ledgers]
    BY DEF RefineInv, Purpose, Preparing, Register, At, GateStep, scheduler, LedgerInv, TypeOK
  <1>2. CASE Answer(p, Rejected) /\ claims' = claims
    BY <1>1, <1>2, SameGates, Refusals, Warrants DEF Warranted
  <1>3. CASE claims' = [claims EXCEPT ![Scope(p)] = Intent(p)] /\ Step(p, "claim")
    <2>1. /\ claims'[s] = i /\ \A q \in Scopes \ {s} : claims'[q] = claims[q] /\ ledger'[q] = ledger[q]
      BY <1>1, <1>3
    <2>2. claims[s] = None /\ ScopeOK(s) /\ i # None
      BY <1>1, Called DEF Knows, Scope, Intent
    <2>4. [q \in Scopes |-> GateOf(q)]' =
            [[q \in Scopes |-> GateOf(q)] EXCEPT ![s] = [claim |-> i, phase |-> "CLAIMED", job |-> None]]
      BY <2>1, <1>1, <2>2, GatesBut DEF GateOf, ScopeOK, Has
    <2>5. /\ CallOf(p).step = "sent" /\ CallOf(p).op = "Prepare" /\ CallOf(p).intent = i /\ s = ScopeOf[i]
      BY <1>1 DEF CallOf, Intent, Scope
    <2>6. [d \in Invocations |-> CallOf(d)]' = [[d \in Invocations |-> CallOf(d)] EXCEPT ![p].step = "preparing"]
      BY <1>1, <1>3, MovedSeen, MovedOf DEF HelperSteps
    <2>7. Gateway!Gate(p).claim = None
      BY <1>1, <2>2, Mapped
    <2>8. Gateway!Claim(p)
      BY <1>1, <2>4, <2>5, <2>6, <2>7 DEF Gateway!Claim, Gateway!Go
    <2> QED BY <2>8, ServesImplements DEF Gateway!Serve
  <1> QED BY <1>2, <1>3 DEF Register

LEMMA PreparingImplements ==
  ASSUME RefineInv, NEW p \in Invocations,
         \/ OpenClaim(p) \/ CreateShared(p) \/ SealShared(p) \/ Relock(p)
         \/ \E file \in DOMAIN Following : WriteImmutable(p, file)
  PROVE  Implements
  <1>1. /\ LedgerInv /\ inflight' = inflight /\ jobs' = jobs /\ claims' = claims
        /\ helper[p].step \in {"claim", "intent", "manifest", "script", "stage", "seal", "relock"}
        /\ GateStep(helper[p].step) = "preparing"
    BY DEF RefineInv, OpenClaim, CreateShared, SealShared, Relock, WriteImmutable, Following, At,
       GateStep, scheduler, storage
  <1>2. ASSUME NEW r \in {Unknown, Failed}, Answer(p, r), ledger' = ledger PROVE Implements
    BY <1>1, <1>2, SameGates, Refusals, GivesUp
  <1>3. ASSUME NEW s \in {"intent", "manifest", "script", "stage", "seal", "relock", "state"}, Step(p, s),
               [q \in Scopes |-> GateOf(q)]' = [q \in Scopes |-> GateOf(q)]
        PROVE  Implements
    <2> QED BY <1>1, <1>3, Walks DEF HelperSteps, GateStep
  <1>4. CASE OpenClaim(p)
    <2>1. CASE Write(p, "claim") /\ Step(p, "intent")
      BY <1>1, <1>3, <2>1, HiddenFile DEF Files
    <2>2. CASE Answer(p, Unknown) /\ ledger' = ledger
      BY <1>2, <2>2
    <2> QED BY <1>4, <2>1, <2>2 DEF OpenClaim
  <1>5. CASE CreateShared(p) \/ SealShared(p) \/ Relock(p)
    <2>1. ledger' = ledger /\ [q \in Scopes |-> GateOf(q)]' = [q \in Scopes |-> GateOf(q)]
      BY <1>1, <1>5, SameGates DEF CreateShared, SealShared, Relock, storage
    <2> QED BY <1>2, <1>3, <2>1, <1>5 DEF CreateShared, SealShared, Relock
  <1>6. ASSUME NEW file \in DOMAIN Following, WriteImmutable(p, file) PROVE Implements
    <2> HIDE DEF Following
    <2> QED BY <1>1, <1>3, <1>6, HiddenFile DEF Following, WriteImmutable, Files
  <1> QED BY <1>4, <1>5, <1>6

LEMMA PublishStateImplements ==
  ASSUME RefineInv, NEW p \in Invocations, PublishState(p)
  PROVE  Implements
  <1> PICK s \in Scopes, i \in Intents : s = Scope(p) /\ i = Intent(p)
    BY Called DEF RefineInv, PublishState, At
  <1>1. /\ LedgerInv /\ helper[p].step = "state" /\ flock = p
        /\ claims' = claims /\ inflight' = inflight /\ jobs' = jobs /\ ledger \in [Scopes -> Ledgers]
        /\ ledger' = [ledger EXCEPT ![s].files = @ \cup {"state"}, ![s].phase = "PREPARED"]
    BY DEF RefineInv, PublishState, At, scheduler, LedgerInv, TypeOK
  <1>2. /\ claims[s] = i /\ ScopeOK(s) /\ i # None /\ s = ScopeOf[i]
        /\ ledger[s].files \cap {"state", "start", "receipt"} = {}
    BY <1>1, Called DEF Knows, Claiming, Scope, Intent
  <1>3. /\ \A q \in Scopes \ {s} : ledger'[q] = ledger[q]
        /\ ledger'[s].files = ledger[s].files \cup {"state"} /\ ledger'[s].receipt = ledger[s].receipt
    BY <1>1 DEF Ledgers
  <1>4. GateOf(s) = [claim |-> i, phase |-> "CLAIMED", job |-> None]
    BY <1>2 DEF GateOf, ScopeOK, Has
  <1>5. GateOf(s)' = [claim |-> i, phase |-> "PREPARED", job |-> None]
    BY <1>1, <1>2, <1>3 DEF GateOf, ScopeOK, Has
  <1>6. [q \in Scopes |-> GateOf(q)]' = [[q \in Scopes |-> GateOf(q)] EXCEPT ![s].phase = "PREPARED"]
    <2>1. GateOf(s)' = [claim |-> GateOf(s).claim, phase |-> "PREPARED", job |-> GateOf(s).job]
      BY <1>4, <1>5
    <2> QED BY <1>1, <1>3, <2>1, GateMoved
  <1>7. Gateway!Holds(p, "CLAIMED")
    <2>1. GateOf(Scope(p)).phase = "CLAIMED" /\ claims[Scope(p)] = Intent(p)
      BY <1>2, <1>4
    <2> QED BY <1>1, <2>1, Mapped
  <1>8. CallOf(p).step = "preparing" /\ CallOf(p).intent = i
    <2>1. GateStep("state") = "preparing"
      BY DEF GateStep
    <2> QED BY <1>1, <2>1 DEF CallOf, Intent
  <1>9. \E r \in {Gateway!Prepared, Gateway!Refused} :
           [d \in Invocations |-> CallOf(d)]' =
             [[d \in Invocations |-> CallOf(d)] EXCEPT ![p].step = "done", ![p].reply = r]
    <2>1. PICK r \in {Failed, Reply("PREPARED", None)} : Answer(p, r)
      BY <1>1 DEF PublishState
    <2>2. r \in Replies /\ (Refuses(r) \/ (r.kind = "PREPARED" /\ r.job = None))
      BY <2>1, Refusals, Typed, Kinds
    <2>3. GateReply(r) \in {Gateway!Prepared, Gateway!Refused}
      <3>1. CASE Refuses(r)
        BY <3>1, RefusalSeen
      <3>2. CASE r.kind = "PREPARED" /\ r.job = None
        BY <3>2, Kinds DEF GateReply, Gateway!Prepared
      <3> QED BY <2>2, <3>1, <3>2
    <2>4. Others(p) /\ CallOf(p)' = Told(CallOf(p), GateReply(r))
      BY <1>1, <2>1, <2>2, Seen
    <2> PICK g : g = GateReply(r)
      OBVIOUS
    <2>5. [d \in Invocations |-> CallOf(d)]' =
             [[d \in Invocations |-> CallOf(d)] EXCEPT ![p].step = "done", ![p].reply = g]
      BY <1>1, <2>4, ToldOf
    <2> QED BY <2>3, <2>5, Zenon
  <1>10. Gateway!FinishPrepare(p)
    BY <1>1, <1>2, <1>6, <1>7, <1>8, <1>9 DEF Gateway!FinishPrepare, Gateway!Move, Gateway!Reply
  <1> QED BY <1>10, ServesImplements DEF Gateway!Serve

------------
(* The start marker is the start of the gateway. *)
LEMMA PublishStartImplements ==
  ASSUME RefineInv, NEW p \in Invocations, PublishStart(p)
  PROVE  Implements
  <1> PICK s \in Scopes, i \in Intents : s = Scope(p) /\ i = Intent(p)
    BY Called DEF RefineInv, PublishStart, At
  <1>1. /\ LedgerInv /\ helper[p].step = "start" /\ helper[p].op = "Submit" /\ flock = p
        /\ claims' = claims /\ inflight' = inflight /\ jobs' = jobs /\ ledger \in [Scopes -> Ledgers]
        /\ GateStep("start") = "sent" /\ GateStep("started") = "starting"
    BY DEF RefineInv, Purpose, Submitting, PublishStart, At, GateStep, scheduler, LedgerInv, TypeOK
  <1>2. CASE Answer(p, Unknown) /\ ledger' = ledger
    BY <1>1, <1>2, SameGates, Refusals, Warrants DEF Warranted
  <1>3. CASE Write(p, "start") /\ Step(p, "started")
    <2>1. PICK L \in Ledgers : /\ L = [ledger[s] EXCEPT !.files = ledger[s].files \cup {"start"}]
                               /\ ledger' = [ledger EXCEPT ![s] = L] /\ ledger'[s] = L
      BY <1>1, <1>3, Adds DEF Files
    <2>2. /\ claims[s] = i /\ ScopeOK(s) /\ i # None /\ s = ScopeOf[i]
          /\ Has(ledger[s], "state") /\ ~ Has(ledger[s], "start") /\ ~ Has(ledger[s], "receipt")
      BY <1>1, Called DEF Knows, Claiming, Scope, Intent, ScopeOK
    <2>3. GateOf(s) = [claim |-> i, phase |-> "PREPARED", job |-> ledger[s].receipt]
      BY <2>2 DEF GateOf
    <2>4. /\ \A q \in Scopes \ {s} : ledger'[q] = ledger[q]
          /\ ledger'[s].files = ledger[s].files \cup {"start"} /\ ledger'[s].receipt = ledger[s].receipt
      BY <1>1, <2>1 DEF Ledgers
    <2>5. GateOf(s)' = [claim |-> i, phase |-> "STARTED", job |-> ledger[s].receipt]
      BY <1>1, <2>2, <2>4 DEF GateOf, Has
    <2>6. [q \in Scopes |-> GateOf(q)]' = [[q \in Scopes |-> GateOf(q)] EXCEPT ![s].phase = "STARTED"]
      BY <1>1, <2>3, <2>4, <2>5, GateMoved
    <2>7. Gateway!Holds(p, "PREPARED")
      <3>1. GateOf(Scope(p)).phase = "PREPARED" /\ claims[Scope(p)] = Intent(p)
        BY <2>2, <2>3
      <3> QED BY <1>1, <3>1, Mapped
    <2>8. CallOf(p).step = "sent" /\ CallOf(p).intent = i /\ CallOf(p).op = "Submit"
      BY <1>1 DEF CallOf, Intent
    <2>9. [d \in Invocations |-> CallOf(d)]' = [[d \in Invocations |-> CallOf(d)] EXCEPT ![p].step = "starting"]
      <3>1. "started" \in HelperSteps \ {"dead"}
        BY DEF HelperSteps
      <3>2. Others(p) /\ CallOf(p)' = Moved(CallOf(p), GateStep("started"))
        BY <1>1, <1>3, <3>1, MovedSeen
      <3>3. LedgerInv /\ CallOf(p)' = Moved(CallOf(p), "starting")
        BY <1>1, <3>2
      <3> QED BY <3>2, <3>3, MovedOf, Zenon
    <2>10. Gateway!Start(p)
      <3>1. ScopeOf[[d \in Invocations |-> CallOf(d)][p].intent] = s
        BY <2>2, <2>8
      <3>2. Gateway!Move(p, "STARTED")
        BY <2>6, <3>1, Zenon DEF Gateway!Move
      <3>3. Gateway!Go(p, "starting")
        BY <2>9, Zenon DEF Gateway!Go
      <3> QED BY <1>1, <2>7, <2>8, <3>2, <3>3 DEF Gateway!Start
    <2> QED BY <2>10, ServesImplements DEF Gateway!Serve
  <1> QED BY <1>2, <1>3 DEF PublishStart

(* sbatch is run, and what becomes of its result. *)
LEMMA SbatchImplements ==
  ASSUME RefineInv, NEW p \in Invocations, ReplaceHead(p) \/ Sbatch(p) \/ SbatchReturns(p)
  PROVE  Implements
  <1> PICK s \in Scopes : s = Scope(p)
    BY Called DEF RefineInv, ReplaceHead, Sbatch, SbatchReturns, At
  <1>1. /\ LedgerInv /\ helper[p].step \in {"started", "sbatch", "sbatched"} /\ helper[p].op = "Submit"
        /\ claims' = claims /\ jobs' = jobs /\ ledger \in [Scopes -> Ledgers]
        /\ helper[p] \in Helpers /\ helper \in [Invocations -> Helpers]
        /\ GateStep("started") = "starting" /\ GateStep("sbatch") = "starting"
        /\ GateStep("sbatched") = "sbatched" /\ GateStep("receipt") = "sbatched"
    BY DEF RefineInv, Purpose, Submitting, ReplaceHead, Sbatch, SbatchReturns, At, GateStep, scheduler,
       storage, LedgerInv, TypeOK
  <1>2. CASE ReplaceHead(p)
    <2>2. \A q \in Scopes : GateOf(q)' = GateOf(q) BY <1>1, <1>2 DEF GateOf, Has, ReplaceHead, Ledgers
    <2>3. Step(p, "sbatch") /\ helper[p].step = "started" /\ inflight' = inflight
      BY <1>2 DEF ReplaceHead, At, scheduler
    <2> QED BY <1>1, <2>2, <2>3, Walks DEF HelperSteps
  <1>3. CASE Sbatch(p)
    <2>1. /\ ledger' = ledger /\ inflight' = inflight \cup {CallOf(p).intent} /\ Step(p, "sbatched")
          /\ CallOf(p).step = "starting"
      BY <1>1, <1>3 DEF Sbatch, storage, CallOf, Intent, At
    <2>2. [d \in Invocations |-> CallOf(d)]' = [[d \in Invocations |-> CallOf(d)] EXCEPT ![p].step = "sbatched"]
      BY <1>1, <2>1, MovedSeen, MovedOf DEF HelperSteps
    <2>3. Gateway!Sbatch(p)
      BY <1>1, <2>1, <2>2, SameGates DEF Gateway!Sbatch, Gateway!Go
    <2> QED BY <2>3, ServesImplements DEF Gateway!Serve
  <1>4. CASE SbatchReturns(p)
    <2>1. ledger' = ledger /\ inflight' = inflight /\ helper[p].step = "sbatched"
      BY <1>4 DEF SbatchReturns, storage, scheduler, At
    <2>2. CASE Answer(p, Unknown)
      BY <1>1, <2>1, <2>2, SameGates, Refusals, GivesUp
    <2>3. ASSUME NEW j \in Jobs, helper' = [helper EXCEPT ![p].step = "receipt", ![p].job = j]
          PROVE  Implements
      <3>1. /\ Others(p) /\ helper'[p].step = "receipt" /\ helper'[p].op = helper[p].op
            /\ helper'[p].intent = helper[p].intent /\ helper'[p].reply = helper[p].reply
        BY <1>1, <2>3 DEF Others, Helpers
      <3> QED BY <1>1, <2>1, <3>1, SameGates, Hidden DEF Implements, CallOf
    <2> QED BY <1>4, <2>2, <2>3 DEF SbatchReturns
  <1> QED BY <1>2, <1>3, <1>4

LEMMA ReceiptImplements ==
  ASSUME RefineInv, NEW p \in Invocations, PublishReceipt(p)
  PROVE  Implements
  <1>1. LedgerInv /\ helper[p].step = "receipt" /\ helper[p].job \in Jobs
    BY Called DEF RefineInv, PublishReceipt, At, Knows
  <1>2. PICK s \in Scopes, i \in Intents, j \in Jobs : s = Scope(p) /\ i = Intent(p) /\ j = helper[p].job
    BY <1>1, Called
  <1>3. /\ Step(p, "submitted")
        /\ claims' = claims /\ inflight' = inflight /\ jobs' = jobs /\ ledger \in [Scopes -> Ledgers]
        /\ ledger' = [ledger EXCEPT ![s].files = @ \cup {"receipt"}, ![s].receipt = j]
        /\ GateStep("receipt") = "sbatched" /\ GateStep("submitted") = "recorded"
    BY <1>1, <1>2 DEF PublishReceipt, GateStep, scheduler, LedgerInv, TypeOK
  <1>4. /\ jobs[j].intent = i /\ s = ScopeOf[i]
        /\ "start" \in ledger[s].files /\ "state" \in ledger[s].files
    BY <1>1, <1>2, Called DEF Knows, Scope, Intent, ScopeOK, Has
  <1>5. /\ \A q \in Scopes \ {s} : claims'[q] = claims[q] /\ ledger'[q] = ledger[q]
        /\ claims'[s] = claims[s] /\ {"receipt", "start", "state"} \subseteq ledger'[s].files
        /\ ledger'[s].receipt = j
    BY <1>3, <1>4 DEF Ledgers
  <1>6. GateOf(s)' = [claim |-> GateOf(s).claim, phase |-> "SUBMITTED", job |-> j]
    <2>2. GateOf(s)' = [claim |-> claims[s], phase |-> "SUBMITTED", job |-> j]
      BY <1>5 DEF GateOf, Has
    <2> QED BY <2>2 DEF GateOf
  <1>7. CallOf(p).step = "sbatched" /\ CallOf(p).intent = i
    BY <1>1, <1>3, <1>2 DEF CallOf, Intent
  <1>8. PICK t : t = ScopeOf[[d \in Invocations |-> CallOf(d)][p].intent]
    OBVIOUS
  <1>9. t = s
    BY <1>4, <1>7, <1>8
  <1>10. [q \in Scopes |-> GateOf(q)]' =
          [[q \in Scopes |-> GateOf(q)] EXCEPT ![t].phase = "SUBMITTED", ![t].job = j]
    <2>1. \A q \in Scopes \ {s} : claims'[q] = claims[q] /\ ledger'[q] = ledger[q]
      BY <1>5
    <2>2. LedgerInv
      BY <1>1
    <2> QED BY <1>6, <1>9, <2>1, <2>2, GateRecorded, Zenon
  <1>11. [d \in Invocations |-> CallOf(d)]' = [[d \in Invocations |-> CallOf(d)] EXCEPT ![p].step = "recorded"]
    BY <1>1, <1>3, MovedSeen, MovedOf DEF HelperSteps
  <1>12. Gateway!Record(p)
    <2>1. /\ inflight' = inflight /\ jobs' = jobs
          /\ [d \in Invocations |-> CallOf(d)][p].step = "sbatched"
          /\ [k \in Jobs |-> jobs[k].intent][j] = [d \in Invocations |-> CallOf(d)][p].intent
      BY <1>3, <1>4, <1>7
    <2> QED BY <1>10, <1>11, <1>8, <2>1, Zenon DEF Gateway!Record, Gateway!Go
  <1> QED BY <1>12, ServesImplements DEF Gateway!Serve

LEMMA FinishSubmitImplements ==
  ASSUME RefineInv, NEW p \in Invocations, FinishSubmit(p)
  PROVE  Implements
  <1> PICK s \in Scopes : s = Scope(p)
    BY Called DEF RefineInv, FinishSubmit, At
  <1> PICK j : j = helper[p].job
    OBVIOUS
  <1>1. /\ LedgerInv /\ helper[p].step = "submitted"
        /\ claims' = claims /\ inflight' = inflight /\ jobs' = jobs /\ ledger \in [Scopes -> Ledgers]
        /\ GateStep("submitted") = "recorded"
    BY DEF RefineInv, FinishSubmit, At, GateStep, scheduler, LedgerInv, TypeOK
  <1>2. j \in Jobs /\ ledger[s].receipt = j /\ Ledger(p) = ledger[s]
    BY <1>1, Called DEF Knows, Cancels, Scope, Ledger
  <1>4. \A q \in Scopes : GateOf(q)' = GateOf(q) BY <1>1 DEF GateOf, Has, FinishSubmit, Ledgers
  <1>5. PICK r \in Replies : Answer(p, r) /\ r = Reply("SUBMITTED", j)
    BY <1>2, Typed DEF FinishSubmit
  <1>7. GateReply(r) = Gateway!Submitted(j) BY <1>5, Kinds DEF GateReply, Gateway!Submitted
  <1>8. Gateway!Gate(p).job = j
    BY <1>1, <1>2, Mapped
  <1>9. [d \in Invocations |-> CallOf(d)]' =
          [[d \in Invocations |-> CallOf(d)] EXCEPT ![p].step = "done", ![p].reply = Gateway!Submitted(j)]
    <2>1. Others(p) /\ CallOf(p)' = Told(CallOf(p), Gateway!Submitted(j))
      BY <1>1, <1>5, <1>7, Seen
    <2> QED BY <1>1, <2>1, ToldOf
  <1>11. Gateway!FinishSubmit(p) BY <1>1, <1>4, <1>8, <1>9 DEF Gateway!FinishSubmit, Gateway!Reply, CallOf
  <1> QED BY <1>11, ServesImplements DEF Gateway!Serve

------------
(* A call about a job answers with what was observed of the receipt's job. *)
Concerns(p) ==
    /\ claims[Scope(p)] = Intent(p) /\ Has(Ledger(p), "receipt")
    /\ helper[p].job = Ledger(p).receipt /\ helper[p].job \in Jobs
    /\ helper[p].op \in {"ObserveJob", "CancelJob"}

LEMMA WrongRefuses ==
  ASSUME LedgerInv, NEW p \in Invocations, helper[p].step # "unsent", WrongJob(p) # NoReply
  PROVE  WrongJob(p) \in Replies /\ Refuses(WrongJob(p))
  <1>2. View(Intent(p)) # "FOUND" => Refuses(Observed(Intent(p)))
    BY ObservedWarranted
  <1>3. WrongJob(p) \in {Rejected, Unknown}
          \/ (View(Intent(p)) # "FOUND" /\ WrongJob(p) = Observed(Intent(p)))
    BY DEF WrongJob
  <1> QED BY Refusals, <1>2, <1>3, Named

LEMMA EvidenceWarranted ==
  ASSUME LedgerInv, NEW p \in Invocations, helper[p].step # "unsent", Concerns(p),
         NEW r \in Evidence(helper[p].job)
  PROVE  r \in Replies /\ Warranted(p, r)
  <1>1. /\ r \in Replies /\ r.kind \in {"JOB_OBSERVED", "UNKNOWN"}
        /\ r.kind = "JOB_OBSERVED" => r.job = helper[p].job
    BY Reported DEF Concerns
  <1> QED BY <1>1, Kinds DEF Warranted, Refuses, Concerns

LEMMA ObserveImplements ==
  ASSUME RefineInv, NEW p \in Invocations, HandleObserve(p)
  PROVE  Implements
  <1>1. /\ LedgerInv /\ helper[p].step = "sent" /\ GateStep("sent") = "sent" /\ SameWorld
        /\ helper[p].op = "ObserveJob"
    BY SameGates DEF RefineInv, HandleObserve, Free, GateStep, SameWorld, storage, scheduler
  <1>2. ASSUME NEW r \in Replies, Answer(p, r), Warranted(p, r) PROVE Implements
    BY <1>1, <1>2, Warrants DEF SameWorld
  <1>3. CASE WrongJob(p) # NoReply
    <2>2. WrongJob(p) \in Replies /\ Warranted(p, WrongJob(p))
      BY <1>1, <1>3, WrongRefuses DEF Warranted
    <2> QED BY <1>2, <1>3, <2>2 DEF HandleObserve
  <1>4. CASE WrongJob(p) = NoReply
    <2>1. PICK r \in Evidence(helper[p].job) : Answer(p, r)
      BY <1>4 DEF HandleObserve
    <2> QED BY <1>1, <1>2, <2>1, <1>4, Named, EvidenceWarranted DEF Concerns
  <1> QED BY <1>3, <1>4

(* What the gate does not show of a ledger may change. *)
LEMMA SameShown ==
  ASSUME LedgerInv, claims' = claims,
         \A q \in Scopes :
            /\ ledger'[q].receipt = ledger[q].receipt
            /\ \A g \in {"receipt", "start", "state"} : Has(ledger'[q], g) <=> Has(ledger[q], g)
  PROVE  [q \in Scopes |-> GateOf(q)]' = [q \in Scopes |-> GateOf(q)]
  <1> QED BY DEF GateOf

LEMMA VerdictHidden ==
  ASSUME LedgerInv, claims' = claims, NEW s \in Scopes, NEW r,
         ledger' = [ledger EXCEPT ![s].cancel = "VERIFIED", ![s].result = r]
  PROVE  [q \in Scopes |-> GateOf(q)]' = [q \in Scopes |-> GateOf(q)]
  <1>2. \A q \in Scopes : ledger'[q].receipt = ledger[q].receipt /\ ledger'[q].files = ledger[q].files
    BY DEF Ledgers, LedgerInv, TypeOK
  <1> QED BY <1>2, SameShown DEF Has

LEMMA CancelImplements ==
  ASSUME RefineInv, NEW p \in Invocations, HandleCancel(p)
  PROVE  Implements
  <1>1. /\ LedgerInv /\ helper[p].step = "sent" /\ GateStep("sent") = "sent"
        /\ GateStep("cancel.start") = "sent"
        /\ helper[p].op = "CancelJob" /\ claims' = claims /\ inflight' = inflight /\ jobs' = jobs
    BY DEF RefineInv, HandleCancel, Free, GateStep, scheduler
  <1>2. ASSUME NEW r \in Replies, Answer(p, r), Warranted(p, r),
               [q \in Scopes |-> GateOf(q)]' = [q \in Scopes |-> GateOf(q)]
        PROVE  Implements
    BY <1>1, <1>2, Warrants
  <1>3. CASE WrongJob(p) # NoReply
    <2>2. WrongJob(p) \in Replies /\ Warranted(p, WrongJob(p))
      BY <1>1, <1>3, WrongRefuses DEF Warranted
    <2> QED BY <1>1, <1>2, <1>3, <2>2, SameGates DEF HandleCancel
  <1>4. CASE WrongJob(p) = NoReply
    <2>1. Concerns(p)
      BY <1>1, <1>4, Named DEF Concerns
    <2>2. PICK s \in Scopes, j \in Jobs : s = Scope(p) /\ j = helper[p].job
      BY <1>1, <2>1, Called DEF Concerns
    <2>3. ASSUME NEW r \in {Failed, Unknown, CancelPending(j)}, Answer(p, r), ledger' = ledger
          PROVE  Implements
      <3> QED BY <1>1, <1>2, <2>3, Refusals, PendingRefuses, SameGates DEF Warranted
    <2>4. ASSUME NEW r \in Evidence(j), Answer(p, r),
                 [q \in Scopes |-> GateOf(q)]' = [q \in Scopes |-> GateOf(q)]
          PROVE  Implements
      BY <1>1, <1>2, <2>1, <2>2, <2>4, EvidenceWarranted
    <2>5. CASE /\ Ledger(p).cancel = "VERIFIED"
               /\ Answer(p, JobObserved(j, Ledger(p).result)) /\ ledger' = ledger
      <3>1. PICK r : r = JobObserved(j, Ledger(p).result)
        OBVIOUS
      <3>2. Ledger(p).result \in JobStates
        BY <1>1, <2>5, Called DEF ScopeOK, JobStates, Ledger, Scope
      <3>3. r \in Replies /\ r.kind = "JOB_OBSERVED" /\ r.job = j
        BY <3>1, <3>2, Typed, Kinds
      <3>4. Warranted(p, r)
        BY <2>1, <2>2, <3>3 DEF Warranted, Concerns
      <3> QED BY <1>1, <1>2, <2>5, <3>1, <3>3, <3>4, SameGates
    <2>6. CASE Step(p, "cancel.start") /\ ledger' = ledger
      BY <1>1, <2>6, SameGates, Walks DEF HelperSteps
    <2>7. ASSUME NEW r \in Evidence(j), Answer(p, r),
                 ledger' = [ledger EXCEPT ![s].cancel = "VERIFIED", ![s].result = r.state]
          PROVE  Implements
      BY <1>1, <2>4, <2>7, VerdictHidden
    <2>8. \/ Answer(p, Failed) /\ ledger' = ledger
          \/ /\ Ledger(p).cancel = "VERIFIED"
             /\ Answer(p, JobObserved(j, Ledger(p).result)) /\ ledger' = ledger
          \/ \E before \in Evidence(j) :
               \/ Answer(p, CancelPending(j)) /\ ledger' = ledger
               \/ Answer(p, Unknown) /\ ledger' = ledger
               \/ Answer(p, before) /\ ledger' = ledger
               \/ /\ Answer(p, before)
                  /\ ledger' = [ledger EXCEPT ![s].cancel = "VERIFIED", ![s].result = before.state]
               \/ Step(p, "cancel.start") /\ ledger' = ledger
      BY <1>4, <2>2 DEF HandleCancel
    <2>9. ASSUME NEW r \in Evidence(j), Answer(p, r), ledger' = ledger PROVE Implements
      BY <1>1, <2>4, <2>9, SameGates
    <2> QED BY <2>3, <2>5, <2>6, <2>7, <2>8, <2>9
  <1> QED BY <1>3, <1>4

LEMMA CancelFilesImplements ==
  ASSUME RefineInv, NEW p \in Invocations,
         PublishCancelStart(p) \/ PublishCancelState(p) \/ Scancel(p)
  PROVE  Implements
  <1>1. /\ LedgerInv /\ helper[p].step \in {"cancel.start", "cancel.state", "scancel"}
        /\ claims' = claims /\ inflight' = inflight /\ jobs' = jobs
        /\ \A s \in Cancels : GateStep(s) = "sent"
    BY DEF RefineInv, PublishCancelStart, PublishCancelState, Scancel, At, scheduler, storage,
       GateStep, Cancels
  <1>2. ASSUME NEW s \in {"cancel.state", "scancel", "scancelled"}, Step(p, s),
               [q \in Scopes |-> GateOf(q)]' = [q \in Scopes |-> GateOf(q)]
        PROVE  Implements
    BY <1>1, <1>2, Walks DEF HelperSteps, Cancels
  <1>3. CASE PublishCancelStart(p)
    <2>2. "cancel.start" \in Files \ {"receipt", "start", "state"}
      BY DEF Files
    <2> QED BY <1>1, <1>2, <1>3, <2>2, HiddenFile DEF PublishCancelStart
  <1>4. CASE PublishCancelState(p)
    <2>1. PICK s \in Scopes : s = Scope(p)
      BY <1>1, Called
    <2>2. /\ ledger \in [Scopes -> Ledgers] /\ Step(p, "scancel")
          /\ ledger' = [ledger EXCEPT ![s].files = @ \cup {"cancel.state"}, ![s].cancel = "REQUESTED"]
      BY <1>1, <1>4, <2>1 DEF PublishCancelState, LedgerInv, TypeOK
    <2> QED BY <1>1, <1>2, <2>2, SameShown DEF Ledgers, Has
  <1>5. CASE Scancel(p)
    BY <1>1, <1>2, <1>5, SameGates DEF Scancel, storage
  <1> QED BY <1>3, <1>4, <1>5

LEMMA FinishCancelImplements ==
  ASSUME RefineInv, NEW p \in Invocations, FinishCancel(p)
  PROVE  Implements
  <1>1. /\ LedgerInv /\ helper[p].step = "scancelled" /\ GateStep("scancelled") = "sent"
        /\ helper[p].op = "CancelJob" /\ claims' = claims /\ inflight' = inflight /\ jobs' = jobs
    BY DEF RefineInv, Purpose, Cancels, FinishCancel, At, GateStep, scheduler
  <1>2. Concerns(p)
    <2>1. /\ claims[Scope(p)] = Intent(p) /\ helper[p].job \in Jobs /\ Ledger(p).receipt = helper[p].job
      BY <1>1, Called DEF Knows, Claiming, Cancels
    <2>3. Ledger(p) = ledger[Scope(p)] /\ None \notin Jobs
      BY <1>1, Called, LedgerAssumption
    <2> QED BY <1>1, <2>1, Called, <2>3 DEF Concerns, ScopeOK
  <1>3. PICK s \in Scopes, j \in Jobs : s = Scope(p) /\ j = helper[p].job
    BY <1>1, <1>2, Called DEF Concerns
  <1>4. PICK after \in Evidence(j) :
          \/ /\ Answer(p, after)
             /\ ledger' = [ledger EXCEPT ![s].cancel = "VERIFIED", ![s].result = after.state]
          \/ Answer(p, CancelPending(j)) /\ ledger' = ledger
    BY <1>3 DEF FinishCancel
  <1>5. CASE Answer(p, CancelPending(j)) /\ ledger' = ledger
    <2> QED BY <1>1, <1>5, PendingRefuses, SameGates, Warrants DEF Warranted
  <1>6. CASE /\ Answer(p, after)
             /\ ledger' = [ledger EXCEPT ![s].cancel = "VERIFIED", ![s].result = after.state]
    <2>2. [q \in Scopes |-> GateOf(q)]' = [q \in Scopes |-> GateOf(q)]
      BY <1>1, <1>6, VerdictHidden
    <2> QED BY <1>1, <1>6, <1>2, <1>3, EvidenceWarranted, <2>2, Warrants
  <1> QED BY <1>4, <1>5, <1>6

------------
(* A call that times out at the lock, or whose helper is gone, is refused. *)
LEMMA TimeoutImplements ==
  ASSUME RefineInv, NEW p \in Invocations, LockTimeout(p)
  PROVE  Implements
  <1>1. /\ LedgerInv /\ SameWorld /\ Answer(p, TimedOut) /\ helper[p].step \in {"sent", "relock"}
        /\ GateStep("sent") = "sent" /\ GateStep("relock") = "preparing"
    BY SameGates DEF RefineInv, LockTimeout, SameWorld, storage, scheduler, GateStep
  <1>2. TimedOut \in Replies /\ Refuses(TimedOut)
    BY Refusals
  <1>3. CASE helper[p].step = "sent"
    BY <1>1, <1>2, <1>3, Warrants DEF SameWorld, Warranted
  <1>4. CASE helper[p].step = "relock"
    BY <1>1, <1>2, <1>4, GivesUp DEF SameWorld
  <1> QED BY <1>1, <1>3, <1>4

LEMMA DieImplements ==
  ASSUME RefineInv, NEW p \in Invocations, Die(p)
  PROVE  Implements
  <1>1. /\ LedgerInv /\ SameWorld /\ Step(p, "dead") /\ helper[p].step \notin {"unsent", "done", "dead"}
        /\ GateStep("dead") = "done" /\ GateStep(helper[p].step) \notin {"unsent", "done"}
    BY SameGates DEF RefineInv, Die, SameWorld, storage, scheduler, GateStep
  <1>2. Others(p) /\ SameCall(p) /\ helper'[p].step = "dead"
    BY <1>1, GoesOn DEF HelperSteps
  <1>3. CallOf(p)' = Told(CallOf(p), Gateway!Refused)
    BY <1>1, <1>2 DEF CallOf, SameCall, Told, Gateway!Refused
  <1>5. CASE CallOf(p).step = "sent"
    <2>2. Gateway!Answer(p) BY <1>1, <1>2, <1>3, <1>5, Evident DEF SameWorld, Gateway!Evidence
    <2> QED BY <2>2, ServesImplements DEF Gateway!Serve
  <1>6. CASE CallOf(p).step # "sent"
    <2>1. Gateway!Abandon(p) BY <1>1, <1>2, <1>3, <1>6, Abandoned DEF SameWorld, CallOf
    <2> QED BY <2>1, ServesImplements DEF Gateway!Serve
  <1> QED BY <1>5, <1>6

LEMMA NothingSaid == GateReply(NoReply) = Gateway!NoAnswer
  BY Kinds DEF GateReply, Gateway!NoAnswer

LEMMA SendImplements ==
  ASSUME RefineInv, NEW p \in Invocations, NEW op \in Operations, NEW i \in Intents,
         NEW j \in Jobs \cup {None}, Send(p, op, i, j)
  PROVE  Implements
  <1>1. /\ LedgerInv /\ SameWorld /\ helper[p] = Unsent /\ helper \in [Invocations -> Helpers]
        /\ op \in {"ObserveJob", "CancelJob"} <=> j # None
        /\ helper' = [helper EXCEPT ![p] =
             [step |-> "sent", op |-> op, intent |-> i, job |-> j, reply |-> NoReply]]
        /\ GateStep("sent") = "sent" /\ GateStep("unsent") = "unsent"
    BY SameGates DEF RefineInv, Send, SameWorld, storage, scheduler, GateStep, LedgerInv, TypeOK
  <1>2. GateReply(NoReply) = Gateway!NoAnswer
    BY NothingSaid
  <1>3. CallOf(p) = Gateway!Unsent
    BY <1>1, <1>2 DEF CallOf, Unsent, Gateway!Unsent
  <1>4. /\ Others(p)
        /\ helper'[p] = [step |-> "sent", op |-> op, intent |-> i, job |-> j, reply |-> NoReply]
    BY <1>1 DEF Others
  <1>6. [d \in Invocations |-> CallOf(d)]' =
          [[d \in Invocations |-> CallOf(d)] EXCEPT ![p] =
             [step |-> "sent", op |-> op, intent |-> i, job |-> j, reply |-> Gateway!NoAnswer]]
    BY <1>4, <1>1, <1>2, CallsBut DEF CallOf
  <1>7. Gateway!Send(p, op, i, j)
    BY <1>1, <1>3, <1>6 DEF Gateway!Send, Gateway!JobOperations, SameWorld
  <1> QED BY <1>7 DEF Implements, Gateway!GatewayNext

(* The scheduler creates and refuses jobs as the gateway's does; what else
   becomes of a job the gateway does not show. *)
LEMMA SameHelpers ==
  ASSUME helper' = helper
  PROVE  [d \in Invocations |-> CallOf(d)]' = [d \in Invocations |-> CallOf(d)]
  BY DEF CallOf

LEMMA EnvironmentImplements ==
  ASSUME RefineInv, Environment
  PROVE  Implements
  <1>1. /\ UNCHANGED <<claims, ledger, helper>>
        /\ jobs \in [Jobs -> [intent : Intents \cup {None}, state : JobStates, past : SUBSET JobStates]]
    BY DEF Environment, CreateJob, RefuseJob, Advance, CancelArrives, LoseStaging, storage, scheduler,
       RefineInv, LedgerInv, TypeOK
  <1>2. /\ [q \in Scopes |-> GateOf(q)]' = [q \in Scopes |-> GateOf(q)]
        /\ [d \in Invocations |-> CallOf(d)]' = [d \in Invocations |-> CallOf(d)]
    BY <1>1, SameGates, SameHelpers
  <1>3. ASSUME NEW i \in Intents, NEW j \in Jobs, CreateJob(i, j) PROVE Implements
    <2>2. [k \in Jobs |-> jobs[k].intent]' = [[k \in Jobs |-> jobs[k].intent] EXCEPT ![j] = i]
      BY <1>1, <1>3 DEF CreateJob
    <2>3. Gateway!CreateJob(i, j) BY <1>2, <1>3, <2>2 DEF Gateway!CreateJob, CreateJob, Unborn
    <2> QED BY <2>3 DEF Implements, Gateway!GatewayNext, Gateway!GatewayStep
  <1>4. ASSUME NEW i \in Intents, RefuseJob(i) PROVE Implements
    <2> QED BY <1>2, <1>4 DEF Implements, Gateway!GatewayNext, Gateway!GatewayStep, Gateway!RefuseJob, RefuseJob
  <1>5. ASSUME inflight' = inflight, \A k \in Jobs : jobs'[k].intent = jobs[k].intent PROVE Implements
    <2> QED BY <1>2, <1>5 DEF Implements, Gateway!gatewayVars
  <1>6. ASSUME NEW j \in Jobs, Advance(j) \/ CancelArrives(j) PROVE Implements
    <2>1. /\ inflight' = inflight
          /\ jobs' = jobs \/ \E state \in JobStates : Become(j, state)
      BY <1>6 DEF Advance, CancelArrives, JobStates, Terminal
    <2>2. \A k \in Jobs : jobs'[k].intent = jobs[k].intent
      <3>1. ASSUME NEW state \in JobStates, Become(j, state)
            PROVE  \A k \in Jobs : jobs'[k].intent = jobs[k].intent
        <4> QED BY <1>1, <3>1 DEF Become
      <3> QED BY <2>1, <3>1
    <2> QED BY <1>5, <2>1, <2>2
  <1>7. ASSUME NEW s \in Scopes, LoseStaging(s) PROVE Implements
    BY <1>5, <1>7 DEF LoseStaging, scheduler
  <1> QED BY <1>3, <1>4, <1>6, <1>7 DEF Environment

------------
(* A helper stays at the steps of its operation. *)
Stays(p) ==
    \/ \E r : Answer(p, r)
    \/ Step(p, "dead")
    \/ \E s \in Preparing : Step(p, s) /\ helper[p].op = "Prepare"
    \/ \E s \in Submitting : Step(p, s) /\ helper[p].op = "Submit"
    \/ \E s \in Cancels : Step(p, s) /\ helper[p].op = "CancelJob"
    \/ /\ helper[p].op = "Submit"
       /\ \E j \in Jobs : helper' = [helper EXCEPT ![p].step = "receipt", ![p].job = j]

LEMMA StaysPreparing ==
  ASSUME NEW p \in Invocations, Purpose(p),
         \/ HandleInspect(p) \/ HandlePrepare(p) \/ HandleSubmit(p) \/ LockTimeout(p) \/ Die(p)
         \/ Register(p) \/ OpenClaim(p) \/ CreateShared(p) \/ SealShared(p) \/ Relock(p)
         \/ PublishState(p) \/ \E file \in DOMAIN Following : WriteImmutable(p, file)
  PROVE  Stays(p)
  <1>1. ASSUME NEW file \in DOMAIN Following, WriteImmutable(p, file) PROVE Stays(p)
    <2> QED BY <1>1 DEF Stays, Following, WriteImmutable, At, Purpose, Preparing
  <1>2. CASE HandleInspect(p) \/ HandlePrepare(p) \/ HandleSubmit(p) \/ LockTimeout(p) \/ Die(p)
    BY <1>2 DEF HandleInspect, HandlePrepare, HandleSubmit, LockTimeout, Die, Stays, Preparing, Submitting
  <1>3. CASE \/ Register(p) \/ OpenClaim(p) \/ CreateShared(p) \/ SealShared(p) \/ Relock(p)
             \/ PublishState(p)
    <2>1. helper[p].op = "Prepare"
      BY <1>3 DEF Register, OpenClaim, CreateShared, SealShared, Relock, PublishState, At, Purpose, Preparing
    <2>2. (\E r : Answer(p, r)) \/ \E s \in Preparing : Step(p, s)
      BY <1>3 DEF Register, OpenClaim, CreateShared, SealShared, Relock, PublishState, Preparing
    <2> QED BY <2>1, <2>2 DEF Stays
  <1> QED BY <1>1, <1>2, <1>3

LEMMA StaysSubmitting ==
  ASSUME NEW p \in Invocations, Purpose(p),
         \/ PublishStart(p) \/ ReplaceHead(p) \/ Sbatch(p) \/ SbatchReturns(p)
         \/ PublishReceipt(p) \/ FinishSubmit(p)
  PROVE  Stays(p)
  <1>1. helper[p].op = "Submit"
    BY DEF PublishStart, ReplaceHead, Sbatch, SbatchReturns, PublishReceipt, FinishSubmit, At, Purpose,
       Submitting
  <1>2. CASE SbatchReturns(p)
    BY <1>1, <1>2 DEF SbatchReturns, Stays
  <1>3. CASE PublishStart(p) \/ ReplaceHead(p) \/ Sbatch(p) \/ PublishReceipt(p) \/ FinishSubmit(p)
    <2>1. (\E r : Answer(p, r)) \/ \E s \in Submitting : Step(p, s)
      BY <1>3 DEF PublishStart, ReplaceHead, Sbatch, PublishReceipt, FinishSubmit, Submitting
    <2> QED BY <1>1, <2>1 DEF Stays
  <1> QED BY <1>2, <1>3

LEMMA StaysControlling ==
  ASSUME NEW p \in Invocations, Purpose(p), Control(p)
  PROVE  Stays(p)
  <1>1. CASE HandleObserve(p)
    BY <1>1 DEF HandleObserve, Stays
  <1>2. CASE HandleCancel(p)
    <2> QED BY <1>2 DEF Stays, Cancels, HandleCancel
  <1>3. CASE PublishCancelStart(p) \/ PublishCancelState(p) \/ Scancel(p)
    <2>1. helper[p].op = "CancelJob" /\ \E s \in Cancels : Step(p, s)
      BY <1>3 DEF PublishCancelStart, PublishCancelState, Scancel, At, Purpose, Cancels
    <2> QED BY <2>1 DEF Stays
  <1>4. CASE FinishCancel(p)
    BY <1>4 DEF FinishCancel, Stays
  <1> QED BY <1>1, <1>2, <1>3, <1>4 DEF Control

LEMMA StaysAtWork ==
  ASSUME RefineInv, NEW p \in Invocations, AtWork(p)
  PROVE  \A d \in Invocations : Purpose(d)'
  <1>1. /\ helper \in [Invocations -> Helpers] /\ \A d \in Invocations : Purpose(d)
    BY DEF RefineInv, LedgerInv, TypeOK
  <1>2. Stays(p)
    BY <1>1, StaysPreparing, StaysSubmitting, StaysControlling DEF AtWork, Run, Submission
  <1>3. Others(p) /\ helper'[p].op = helper[p].op
    BY <1>1, <1>2 DEF Stays, Answer, Step, Others, Helpers
  <1>4. \/ helper'[p].step \in {"done", "dead"}
        \/ helper'[p].step \in Preparing /\ helper[p].op = "Prepare"
        \/ helper'[p].step \in Submitting /\ helper[p].op = "Submit"
        \/ helper'[p].step \in Cancels /\ helper[p].op = "CancelJob"
    <2>1. ASSUME NEW s, Step(p, s) PROVE helper'[p].step = s
      BY <1>1, <2>1 DEF Step, Helpers
    <2>2. ASSUME NEW r, Answer(p, r) PROVE helper'[p].step = "done"
      BY <1>1, <2>2 DEF Answer, Helpers
    <2>3. ASSUME NEW j \in Jobs, helper' = [helper EXCEPT ![p].step = "receipt", ![p].job = j]
          PROVE  helper'[p].step = "receipt"
      BY <1>1, <2>3 DEF Helpers
    <2> QED BY <1>2, <2>1, <2>2, <2>3 DEF Stays, Submitting
  <1>6. \A d \in Invocations \ {p} : Purpose(d)'
    BY <1>1, <1>3 DEF Purpose, Others
  <1> QED BY <1>3, <1>4, <1>6 DEF Purpose, Preparing, Submitting, Cancels

------------
(* Every step of the ledger's system is one of the gateway's. *)
LEMMA WorkImplements ==
  ASSUME RefineInv, NEW p \in Invocations, AtWork(p)
  PROVE  Implements
  BY ServingImplements, RegisterImplements, PreparingImplements, PublishStateImplements,
     PublishStartImplements, SbatchImplements, ReceiptImplements, FinishSubmitImplements,
     ObserveImplements, CancelImplements, CancelFilesImplements, FinishCancelImplements,
     TimeoutImplements, DieImplements
  DEF AtWork, Run, Submission, Control

LEMMA StutterImplements ==
  ASSUME UNCHANGED vars
  PROVE  Implements
  <1>1. UNCHANGED <<claims, ledger, helper, inflight, jobs>>
    BY DEF vars, storage, scheduler
  <1> QED BY <1>1, SameGates, SameHelpers DEF Implements, Gateway!gatewayVars

LEMMA RefineBegins ==
  ASSUME Init
  PROVE  RefineInv /\ Gateway!GatewayInit
  <1>2. \A p \in Invocations : helper[p] = Unsent
    BY DEF Init
  <1>3. \A p \in Invocations : Purpose(p)
    BY <1>2 DEF Purpose, Unsent, Preparing, Submitting, Cancels
  <1>4. \A s \in Scopes : GateOf(s) = [claim |-> None, phase |-> "FREE", job |-> None]
    BY DEF Init, GateOf, Has, EmptyLedger
  <1>6. \A p \in Invocations : CallOf(p) = Gateway!Unsent
    BY <1>2, NothingSaid DEF CallOf, Unsent, Gateway!Unsent, GateStep
  <1>7. inflight = {} /\ \A j \in Jobs : jobs[j].intent = None
    BY DEF Init, Unborn
  <1> QED BY LedgerBegins, <1>3, <1>4, <1>6, <1>7 DEF RefineInv, Gateway!GatewayInit

LEMMA RefineSteps ==
  ASSUME RefineInv, [Next]_vars
  PROVE  RefineInv' /\ Implements
  <1>1. LedgerInv'
    BY LedgerSteps, Stutters DEF RefineInv
  <1>2. ASSUME NEW p \in Invocations, AtWork(p) PROVE RefineInv' /\ Implements
    BY <1>1, <1>2, StaysAtWork, WorkImplements DEF RefineInv
  <1>3. ASSUME helper' = helper PROVE \A p \in Invocations : Purpose(p)'
    BY <1>3 DEF RefineInv, Purpose
  <1>4. CASE Environment
    <2>1. helper' = helper
      BY <1>4 DEF Environment, CreateJob, RefuseJob, Advance, CancelArrives, LoseStaging
    <2> QED BY <1>1, <1>3, <1>4, <2>1, EnvironmentImplements DEF RefineInv
  <1>5. CASE UNCHANGED vars
    BY <1>1, <1>3, <1>5, StutterImplements DEF RefineInv, vars
  <1>6. ASSUME NEW p \in Invocations, NEW op \in Operations, NEW i \in Intents,
               NEW j \in Jobs \cup {None}, Send(p, op, i, j)
        PROVE  RefineInv' /\ Implements
    <2>2. helper'[p].step = "sent" /\ \A d \in Invocations \ {p} : helper'[d] = helper[d]
      BY <1>6 DEF Send, RefineInv, LedgerInv, TypeOK
    <2>3. \A d \in Invocations : Purpose(d)'
      BY <2>2 DEF RefineInv, Purpose, Preparing, Submitting, Cancels
    <2> QED BY <1>1, <1>6, <2>3, SendImplements DEF RefineInv
  <1> QED BY <1>2, <1>4, <1>5, <1>6 DEF Next, HelperNext, AtWork

(* The helpers, the files they publish one by one and the scheduler behind
   them, implement the gateway of five operations that the submission
   service and its proofs rely on: a helper that dies, or a response that
   is lost, between any two of the files shows as a call that is refused. *)
THEOREM LedgerImplementsGateway == Spec => ImplementsGateway
  <1>1. Init => RefineInv /\ ((\A s \in Scopes : claims[s] = None) => Gateway!GatewayInit)
    BY RefineBegins
  <1>2. RefineInv /\ [Next]_vars => RefineInv' /\ [Gateway!GatewayNext]_(Gateway!gatewayVars)
    BY RefineSteps DEF Implements
  <1> QED BY <1>1, <1>2, PTL DEF Spec, ImplementsGateway
=============================================================================

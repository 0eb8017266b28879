------------------------ MODULE CloudSubmissionProofs ------------------------
(* Proofs about the cloud outbox and the service over it, for every number
   of callers, Actions, requests and jobs.  The outbox first: an inductive
   invariant ties the entry, the operations at work, the POSTs under way
   and the provider's jobs together.  Then the service: one job per
   Attempt, which is started and stopped under a durable claim, claims
   that no other request disturbs, and records, statuses and a slot that
   only move forward. *)
EXTENDS CloudSubmission, TLAPS

(* The steps taken under .cloud-effects.lock, and those that look for or
   make the job of an entry that has no handle. *)
Holding == {"posting", "posted", "find", "stopping", "stopposted"}
Creating == {"posting", "posted", "find"}
Creates == {p \in posts : p.kind = "create"}
NoJob == \A j \in Jobs : provider[j] = None

HasLock(c) == op[c].step \in Holding => outboxLock = c

(* There is one creation: not asked for, on its way, or one job, which is
   the only one a handle can name. *)
OneCreation ==
    /\ sent.create = 0 => Creates = {} /\ NoJob
    /\ Creates # {} => NoJob
    /\ \A p, q \in Creates : p = q
    /\ \A j, k \in Jobs : provider[j] # None /\ provider[k] # None => j = k
    /\ entry.handle # None => provider[entry.handle] # None

(* What an operation under the lock knows of the entry it saved. *)
Knows(c) ==
    /\ op[c].step \in Creating => entry.started /\ entry.handle = None
    /\ op[c].step = "posting" => sent.create = 0
    /\ op[c].step \in {"stopping", "stopposted"} => entry.handle # None /\ entry.cancelling
    /\ op[c].step = "stopping" => sent.stop = 0
    /\ op[c].job # None => provider[op[c].job] # None

(* A state that was seen of a job is not ahead of the job, and stays its
   state if it is a last one. *)
SeenOf(j, s) ==
    /\ j # None /\ provider[j] # None
    /\ Phase[s] <= Phase[provider[j]]
    /\ IsTerminal(s) => provider[j] = s

(* A GET without the lock: what it brings is newer than the entry read. *)
ReadsNewer(c) ==
    /\ op[c].step \in {"observe", "commit"} =>
         /\ op[c].read.handle # None /\ provider[op[c].read.handle] # None
         /\ op[c].read.observation # None => SeenOf(op[c].read.handle, op[c].read.observation)
    /\ op[c].step = "commit" /\ op[c].seen # None =>
         /\ SeenOf(op[c].read.handle, op[c].seen)
         /\ op[c].read.observation # None => Phase[op[c].read.observation] <= Phase[op[c].seen]

Sound(c) == HasLock(c) /\ Knows(c) /\ ReadsNewer(c)

RecordIsSeen ==
    /\ entry.observation # None => SeenOf(entry.handle, entry.observation)
    /\ entry.terminated => entry.observation # None /\ IsTerminal(entry.observation)

OutboxInv ==
    /\ OutboxTypeOK
    /\ EffectsHappenOnce
    /\ OneCreation
    /\ RecordIsSeen
    /\ \A c \in Callers : Sound(c)

------------
(* The states have a phase, and the last phase is that of the last states. *)
LEMMA PhaseFacts ==
  /\ \A s \in ProviderStates : Phase[s] \in 0..3 /\ (IsTerminal(s) <=> Phase[s] = 3)
  /\ None \notin Callers /\ None \notin Jobs /\ None \notin ProviderStates
  /\ "QUEUED" \in ProviderStates /\ "CANCELLED" \in ProviderStates
<1> QED BY OutboxAssumption DEF Phase, IsTerminal, TerminalStates

(* The entry that nobody wrote and the operation nobody called are typed. *)
LEMMA NoTypes == NoEntry \in Entries /\ NoOp \in Ops /\ Loads(NoEntry)
  BY DEF NoEntry, NoOp, Entries, Ops, Loads, Calling, Working

(* An operation that moves on keeps what it has read. *)
Others(c) == \A d \in Callers \ {c} : op'[d] = op[d]

LEMMA Steps ==
  ASSUME OutboxTypeOK, NEW c \in Callers,
         NEW s \in Calling \cup Working \cup {"idle", "done", "failed"}, Step(c, s)
  PROVE  /\ op' \in [Callers -> Ops] /\ Others(c)
         /\ op'[c].step = s /\ op'[c].read = op[c].read /\ op'[c].seen = op[c].seen
         /\ op'[c].job = op[c].job
<1>1. op[c] \in Ops
  BY DEF OutboxTypeOK
<1>3. op' = [op EXCEPT ![c] = [op[c] EXCEPT !.step = s]]
  BY DEF Step
<1> QED BY <1>1, <1>3 DEF OutboxTypeOK, Ops, Others

(* An operation that is answered has no reply of the provider left. *)
LEMMA Answers ==
  ASSUME OutboxTypeOK, NEW c \in Callers, NEW e \in Entries, Answer(c, e)
  PROVE  /\ op' \in [Callers -> Ops] /\ Others(c)
         /\ op'[c].step = "done" /\ op'[c].job = None
<1>1. View(e) \in Ops /\ View(e).step = "done" /\ View(e).job = None
  BY NoTypes DEF View, Ops, Entries, NoOp
<1> QED BY <1>1 DEF OutboxTypeOK, Others, Answer

------------
(* The provider's jobs do not go away and do not go back. *)
Forward ==
    \A j \in Jobs : provider[j] # None =>
        /\ provider'[j] # None /\ Phase[provider[j]] <= Phase[provider'[j]]
        /\ IsTerminal(provider[j]) => provider'[j] = provider[j]

LEMMA Stays ==
  ASSUME OutboxTypeOK, provider' = provider
  PROVE  Forward
<1> SUFFICES ASSUME NEW j \in Jobs, provider[j] # None
             PROVE  Phase[provider[j]] <= Phase[provider[j]]
  BY DEF Forward
<1> QED BY PhaseFacts DEF OutboxTypeOK

(* So what was seen of a job stays seen. *)
LEMMA StaysSeen ==
  ASSUME OutboxTypeOK, OutboxTypeOK', Forward, NEW j \in Jobs, NEW s \in ProviderStates,
         SeenOf(j, s)
  PROVE  SeenOf(j, s)'
<1>1. provider[j] \in ProviderStates /\ provider'[j] \in ProviderStates
  BY DEF OutboxTypeOK, SeenOf, Forward
<1>3. provider'[j] # None /\ Phase[provider[j]] <= Phase[provider'[j]]
      /\ (IsTerminal(provider[j]) => provider'[j] = provider[j])
  BY DEF SeenOf, Forward
<1> QED BY <1>1, PhaseFacts, <1>3 DEF SeenOf

(* A record that is not written stays true. *)
LEMMA RecordStays ==
  ASSUME OutboxTypeOK, OutboxTypeOK', RecordIsSeen, Forward,
         entry'.handle = entry.handle, entry'.observation = entry.observation,
         entry'.terminated = entry.terminated
  PROVE  RecordIsSeen'
<1>2. entry.observation # None => SeenOf(entry.handle, entry.observation)'
  BY StaysSeen DEF RecordIsSeen, SeenOf, OutboxTypeOK, Entries
<1> QED BY <1>2 DEF RecordIsSeen, SeenOf

(* Who neither works nor is answered stays sound, if nothing is written or
   somebody else writes under the lock. *)
Unwritten == entry' = entry /\ sent' = sent /\ outboxLock' = outboxLock
Writes(c) == outboxLock \in {None, c}

LEMMA OthersStand ==
  ASSUME OutboxInv, OutboxTypeOK', Forward, NEW d \in Callers,
         op'[d].step = op[d].step, op'[d].read = op[d].read, op'[d].seen = op[d].seen,
         op'[d].job = op[d].job \/ (op'[d].job \in Jobs /\ provider'[op'[d].job] # None),
         Unwritten \/ (\E c \in Callers \ {d} : Writes(c))
  PROVE  Sound(d)'
<1>1. Sound(d) /\ op[d] \in Ops /\ op'[d] \in Ops
  BY DEF OutboxInv, OutboxTypeOK
<1>2. ASSUME NEW c \in Callers \ {d}, Writes(c)
      PROVE  op[d].step \notin Holding
  BY <1>1, <1>2, PhaseFacts DEF Sound, HasLock, Writes
<1>3. HasLock(d)'
  BY <1>1, <1>2 DEF Sound, HasLock, Unwritten, Holding
<1>5. op'[d].job # None => provider'[op'[d].job] # None BY <1>1 DEF Forward, Sound, Knows, Ops
<1>6. Knows(d)'
 <2>1. CASE Unwritten
   BY <1>1, <1>5, <2>1 DEF Sound, Knows, Unwritten
 <2>2. CASE op[d].step \notin Holding
   BY <1>5, <2>2 DEF Knows, Holding, Creating
 <2> QED BY <1>2, <2>1, <2>2
<1>7. ReadsNewer(d)'
 <2>1. /\ op[d].read.handle \in Jobs \cup {None}
       /\ op[d].read.observation \in ProviderStates \cup {None}
       /\ op[d].seen \in ProviderStates \cup {None}
   BY <1>1 DEF Ops, Entries
 <2>2. \A x \in ProviderStates :
         SeenOf(op[d].read.handle, x) => SeenOf(op[d].read.handle, x)'
   BY <2>1, StaysSeen DEF SeenOf, OutboxInv
 <2>3. op[d].step \in {"observe", "commit"} => provider'[op[d].read.handle] # None
   BY <1>1, <2>1 DEF Sound, ReadsNewer, Forward
 <2>4. op[d].step \in {"observe", "commit"} /\ op[d].read.observation # None =>
         SeenOf(op[d].read.handle, op[d].read.observation)'
   BY <1>1, <2>1, <2>2 DEF Sound, ReadsNewer
 <2>5. op[d].step = "commit" /\ op[d].seen # None => SeenOf(op[d].read.handle, op[d].seen)'
   BY <1>1, <2>1, <2>2 DEF Sound, ReadsNewer
 <2> QED BY <1>1, <2>3, <2>4, <2>5 DEF Sound, ReadsNewer, SeenOf
<1> QED BY <1>3, <1>6, <1>7 DEF Sound

(* POSTs that lose their callers are the same POSTs. *)
PostsRemain ==
    /\ posts' \subseteq Posts
    /\ Creates' # {} => Creates # {}
    /\ \A p, q \in Creates' : p = q

LEMMA SamePosts ==
  ASSUME OutboxTypeOK, OneCreation, posts' \subseteq posts
  PROVE  PostsRemain
  BY DEF PostsRemain, OutboxTypeOK, OneCreation, Creates

LEMMA DetachedPosts ==
  ASSUME OutboxTypeOK, OneCreation, NEW c \in Callers, posts' = Detached(c)
  PROVE  PostsRemain
<1> DEFINE Left(p) == [p EXCEPT !.caller = IF p.caller = c THEN None ELSE p.caller]
<1>1. posts' = {Left(p) : p \in posts}
  BY DEF Detached
<1>2. \A p \in posts : Left(p) \in Posts /\ Left(p).kind = p.kind
  BY DEF OutboxTypeOK, Posts
<1> HIDE DEF Left
<1> QED BY <1>1, <1>2 DEF PostsRemain, OneCreation, Creates

(* The creation is what it was, if no job and no handle is new. *)
LEMMA CreationStays ==
  ASSUME OneCreation, PostsRemain, provider' = provider, sent'.create = sent.create,
         entry'.handle = entry.handle
  PROVE  OneCreation'
  BY DEF OneCreation, PostsRemain, NoJob

(* An operation that neither holds the lock nor reads is sound. *)
LEMMA RestIsSound ==
  ASSUME OutboxInv, NEW c \in Callers, provider' = provider,
         op'[c].step \notin Holding \cup {"observe", "commit"},
         op'[c].job \in {None, op[c].job}
  PROVE  Sound(c)'
<1> QED BY DEF Sound, HasLock, Knows, ReadsNewer, Holding, Creating, OutboxInv

(* A step that asks nothing, learns nothing and writes under the lock. *)
LEMMA Quietly ==
  ASSUME OutboxInv, NEW c \in Callers,
         op' \in [Callers -> Ops], Others(c), Sound(c)',
         provider' = provider, sent' = sent, PostsRemain,
         outboxLock' \in Callers \cup {None},
         entry' \in Entries, Loads(entry'),
         entry'.handle = entry.handle, entry'.observation = entry.observation,
         entry'.terminated = entry.terminated,
         entry.started => entry'.started, entry.cancelling => entry'.cancelling,
         Unwritten \/ Writes(c)
  PROVE  OutboxInv'
<1>1. OutboxTypeOK'
  BY DEF OutboxInv, OutboxTypeOK, PostsRemain
<1>3. OneCreation'
  BY CreationStays DEF OutboxInv
<1>4. Forward
  BY Stays DEF OutboxInv
<1>5. RecordIsSeen'
  BY <1>1, <1>4, RecordStays DEF OutboxInv
<1>6. ASSUME NEW d \in Callers, d # c
      PROVE  Sound(d)'
 <2>2. Unwritten \/ \E x \in Callers \ {d} : Writes(x)
   BY <1>6
 <2> QED BY <1>1, <1>4, <1>6, <2>2, OthersStand DEF Others
<1> QED BY <1>1, <1>3, <1>5, <1>6 DEF OutboxInv, EffectsHappenOnce

(* What is saved is answered, and the lock is free or another's. *)
LEMMA Saves ==
  ASSUME OutboxTypeOK, NEW c \in Callers, NEW e \in Entries, Save(c, e)
  PROVE  /\ op' \in [Callers -> Ops] /\ Others(c)
         /\ op'[c].step = "done" /\ op'[c].job = None
         /\ entry' = e /\ outboxLock' \in Callers \cup {None}
  BY Answers DEF Save, Unlock, OutboxTypeOK

------------
(* The steps that ask nothing and learn nothing, one by one. *)
LEMMA QuietSteps ==
  ASSUME OutboxInv, NEW c \in Callers,
         \/ \E kind \in Calling : Call(c, kind)
         \/ Prepare(c) \/ Execute(c) \/ EffectFails(c) \/ Reconcile(c) \/ Observe(c)
         \/ Stop(c) \/ Abort(c) \/ Return(c)
  PROVE  OutboxInv'
<1> USE DEF OutboxInv
<1>1. /\ entry \in Entries /\ Loads(entry) /\ op[c] \in Ops /\ Sound(c)
      /\ outboxLock \in Callers \cup {None}
  BY DEF OutboxTypeOK
<1>2. posts' = posts => PostsRemain
  BY SamePosts
<1>3. posts' = Detached(c) => PostsRemain
  BY DetachedPosts
<1>4. ASSUME NEW kind \in Calling, Call(c, kind)
      PROVE  OutboxInv'
 <2>1. /\ op' \in [Callers -> Ops] /\ Others(c)
       /\ op'[c].step = kind /\ op'[c].job = op[c].job
   BY <1>4, Steps DEF Call
 <2>2. Sound(c)'
   BY <1>4, <2>1, RestIsSound DEF Call, Calling, Holding
 <2> QED BY <1>1, <1>2, <1>4, <2>1, <2>2, Quietly DEF Call, Unwritten
<1>5. ASSUME Prepare(c)
      PROVE  OutboxInv'
 <2> DEFINE e == [entry EXCEPT !.exists = TRUE]
 <2>1. /\ e \in Entries /\ Loads(e)
       /\ e.handle = entry.handle /\ e.observation = entry.observation
       /\ e.terminated = entry.terminated /\ e.started = entry.started
       /\ e.cancelling = entry.cancelling
   BY <1>1 DEF Entries, Loads
 <2>2. /\ outboxLock = None /\ entry' = e /\ (Answer(c, e) \/ Step(c, "failed"))
       /\ UNCHANGED <<outboxLock, provider, posts, sent>>
   BY <1>5 DEF Prepare
 <2> HIDE DEF e
 <2>3. /\ op' \in [Callers -> Ops] /\ Others(c)
       /\ op'[c].step \in {"done", "failed"} /\ op'[c].job \in {None, op[c].job}
   BY <2>1, <2>2, Steps, Answers
 <2>4. Sound(c)'
   BY <2>2, <2>3, RestIsSound DEF Holding
 <2> QED BY <1>1, <1>2, <2>1, <2>2, <2>3, <2>4, Quietly DEF Writes
<1>6. ASSUME Execute(c)
      PROVE  OutboxInv'
 <2>1. CASE entry.started
  <3>1. Answer(c, entry) /\ UNCHANGED <<entry, outboxLock, provider, posts, sent>>
    BY <1>6, <2>1 DEF Execute
  <3>2. /\ op' \in [Callers -> Ops] /\ Others(c)
        /\ op'[c].step = "done" /\ op'[c].job = None
    BY <1>1, <3>1, Answers
  <3>3. Sound(c)'
    BY <3>1, <3>2, RestIsSound DEF Holding
  <3> QED BY <1>1, <1>2, <3>1, <3>2, <3>3, Quietly DEF Unwritten
 <2>2. CASE ~ entry.started
  <3> DEFINE e == [entry EXCEPT !.started = TRUE]
  <3>1. /\ outboxLock = None /\ entry' = e /\ outboxLock' = c /\ Step(c, "posting")
        /\ UNCHANGED <<provider, posts, sent>>
    BY <1>6, <2>2 DEF Execute, Locked
  <3>2. /\ e \in Entries /\ Loads(e) /\ e.started /\ e.handle = None
        /\ e.handle = entry.handle /\ e.observation = entry.observation
        /\ e.terminated = entry.terminated /\ e.cancelling = entry.cancelling
    BY <1>1, <2>2, PhaseFacts DEF Entries, Loads
  <3> HIDE DEF e
  <3>3. /\ op' \in [Callers -> Ops] /\ Others(c)
        /\ op'[c].step = "posting" /\ op'[c].job = op[c].job
    BY <3>1, Steps DEF Working
  <3>4. sent.create = 0
    BY <2>2 DEF EffectsHappenOnce, OutboxTypeOK
  <3>5. Sound(c)'
    BY <1>1, <3>1, <3>2, <3>3, <3>4 DEF Sound, HasLock, Knows, ReadsNewer
  <3> QED BY <1>2, <3>1, <3>2, <3>3, <3>5, Quietly DEF Writes
 <2> QED BY <2>1, <2>2
<1>7. ASSUME EffectFails(c)
      PROVE  OutboxInv'
 <2> DEFINE e == Diagnosed(entry)
 <2>1. /\ e \in Entries /\ Loads(e)
       /\ e.handle = entry.handle /\ e.observation = entry.observation
       /\ e.terminated = entry.terminated /\ e.started = entry.started
       /\ e.cancelling = entry.cancelling
   BY <1>1 DEF Diagnosed, Entries, Loads
 <2>2. /\ op[c].step \in Holding /\ Save(c, e) /\ posts' = Detached(c)
       /\ UNCHANGED <<provider, sent>>
   BY <1>7 DEF EffectFails, Holding
 <2> HIDE DEF e
 <2>3. /\ op' \in [Callers -> Ops] /\ Others(c)
       /\ op'[c].step = "done" /\ op'[c].job = None
       /\ entry' = e /\ outboxLock' \in Callers \cup {None}
   BY <2>1, <2>2, Saves
 <2>4. Sound(c)'
   BY <2>2, <2>3, RestIsSound DEF Holding
 <2>5. Writes(c)
   BY <1>1, <2>2 DEF Sound, HasLock, Writes
 <2> QED BY <1>3, <2>1, <2>2, <2>3, <2>4, <2>5, Quietly
<1>8. ASSUME Reconcile(c)
      PROVE  OutboxInv'
 <2>1. outboxLock = None /\ UNCHANGED <<entry, provider, posts, sent>>
   BY <1>8 DEF Reconcile, Locked
 <2>2. CASE ~ entry.started
  <3>1. Answer(c, entry) /\ UNCHANGED outboxLock
    BY <1>8, <2>2 DEF Reconcile
  <3>2. /\ op' \in [Callers -> Ops] /\ Others(c)
        /\ op'[c].step = "done" /\ op'[c].job = None
    BY <1>1, <3>1, Answers
  <3>3. Sound(c)'
    BY <2>1, <3>2, RestIsSound DEF Holding
  <3> QED BY <1>1, <1>2, <2>1, <3>1, <3>2, <3>3, Quietly DEF Unwritten
 <2>3. CASE entry.started /\ entry.handle # None
  <3> DEFINE o == [op[c] EXCEPT !.step = "observe", !.read = entry]
  <3>1. op' = [op EXCEPT ![c] = o] /\ UNCHANGED outboxLock
    BY <1>8, <2>3 DEF Reconcile
  <3>2. o \in Ops /\ o.step = "observe" /\ o.read = entry /\ o.job = op[c].job
    BY <1>1 DEF Ops, Working
  <3> HIDE DEF o
  <3>3. op' \in [Callers -> Ops] /\ Others(c) /\ op'[c] = o
    BY <3>1, <3>2 DEF OutboxTypeOK, Others
  <3>4. Knows(c)'
    BY <1>1, <2>1, <3>2, <3>3 DEF Sound, Knows, Creating
  <3>5. ReadsNewer(c)'
    BY <2>1, <2>3, <3>2, <3>3 DEF ReadsNewer, RecordIsSeen, SeenOf, OneCreation
  <3>6. Sound(c)'
    BY <3>2, <3>3, <3>4, <3>5 DEF Sound, HasLock, Holding
  <3> QED BY <1>1, <1>2, <2>1, <3>1, <3>3, <3>6, Quietly DEF Unwritten
 <2>4. CASE entry.started /\ entry.handle = None
  <3>1. Step(c, "find") /\ outboxLock' = c
    BY <1>8, <2>4 DEF Reconcile
  <3>2. /\ op' \in [Callers -> Ops] /\ Others(c)
        /\ op'[c].step = "find" /\ op'[c].job = op[c].job
    BY <3>1, Steps DEF Working
  <3>3. Sound(c)'
    BY <1>1, <2>1, <2>4, <3>1, <3>2 DEF Sound, HasLock, Knows, ReadsNewer
  <3> QED BY <1>1, <1>2, <2>1, <3>1, <3>2, <3>3, Quietly DEF Writes
 <2> QED BY <2>2, <2>3, <2>4
<1>9. ASSUME Observe(c)
      PROVE  OutboxInv'
 <2>1. PICK seen \in {provider[op[c].read.handle], None} :
         op' = [op EXCEPT ![c].step = "commit", ![c].seen = seen]
   BY <1>9 DEF Observe
 <2>2. op[c].step = "observe" /\ Unwritten /\ UNCHANGED <<provider, posts>>
   BY <1>9 DEF Observe, Unwritten
 <2>3. /\ op[c].read.handle \in Jobs /\ provider[op[c].read.handle] \in ProviderStates
       /\ op[c].read.observation \in ProviderStates \cup {None}
   BY <1>1, <2>2 DEF Sound, ReadsNewer, Ops, Entries, OutboxTypeOK
 <2> DEFINE o == [op[c] EXCEPT !.step = "commit", !.seen = seen]
 <2>4. /\ o \in Ops /\ o.step = "commit" /\ o.seen = seen
       /\ o.read = op[c].read /\ o.job = op[c].job
   BY <1>1, <2>3 DEF Ops, Working
 <2>5. op' = [op EXCEPT ![c] = o]
   BY <2>1
 <2> HIDE DEF o
 <2>6. op' \in [Callers -> Ops] /\ Others(c) /\ op'[c] = o
   BY <2>4, <2>5 DEF OutboxTypeOK, Others
 <2>7. Knows(c)'
   BY <1>1, <2>2, <2>4, <2>6 DEF Sound, Knows, Creating
 <2>8. seen # None => SeenOf(op[c].read.handle, seen)
   BY <2>3, PhaseFacts DEF SeenOf
 <2>9. ReadsNewer(c)'
   BY <1>1, <2>2, <2>3, <2>4, <2>6, <2>8 DEF Sound, ReadsNewer, SeenOf
 <2>10. Sound(c)'
   BY <2>4, <2>6, <2>7, <2>9 DEF Sound, HasLock, Holding
 <2> QED BY <1>1, <1>2, <2>2, <2>6, <2>10, Quietly DEF Unwritten
<1>10. ASSUME Stop(c)
       PROVE  OutboxInv'
 <2>1. outboxLock = None /\ UNCHANGED <<provider, posts, sent>>
   BY <1>10 DEF Stop, Locked
 <2>2. CASE entry.handle = None \/ entry.cancelling
  <3>1. (Step(c, "failed") \/ Answer(c, entry)) /\ UNCHANGED <<entry, outboxLock>>
    BY <1>10, <2>2 DEF Stop
  <3>2. /\ op' \in [Callers -> Ops] /\ Others(c)
        /\ op'[c].step \in {"failed", "done"} /\ op'[c].job \in {None, op[c].job}
    BY <1>1, <3>1, Steps, Answers
  <3>3. Sound(c)'
    BY <2>1, <3>2, RestIsSound DEF Holding
  <3> QED BY <1>1, <1>2, <2>1, <3>1, <3>2, <3>3, Quietly DEF Unwritten
 <2>3. CASE entry.handle # None /\ ~ entry.cancelling
  <3> DEFINE e == [entry EXCEPT !.cancelling = TRUE]
  <3>1. entry' = e /\ outboxLock' = c /\ Step(c, "stopping")
    BY <1>10, <2>3 DEF Stop
  <3>2. /\ e \in Entries /\ Loads(e) /\ e.cancelling
        /\ e.handle = entry.handle /\ e.observation = entry.observation
        /\ e.terminated = entry.terminated /\ e.started = entry.started
    BY <1>1, <2>3 DEF Entries, Loads
  <3> HIDE DEF e
  <3>3. /\ op' \in [Callers -> Ops] /\ Others(c)
        /\ op'[c].step = "stopping" /\ op'[c].job = op[c].job
    BY <3>1, Steps DEF Working
  <3>4. sent.stop = 0
    BY <2>3 DEF EffectsHappenOnce, OutboxTypeOK
  <3>5. Sound(c)'
    BY <1>1, <2>1, <2>3, <3>1, <3>2, <3>3, <3>4
       DEF Sound, HasLock, Knows, ReadsNewer, Creating
  <3> QED BY <1>2, <2>1, <3>1, <3>2, <3>3, <3>5, Quietly DEF Writes
 <2> QED BY <2>2, <2>3
<1>11. ASSUME Abort(c)
       PROVE  OutboxInv'
 <2> DEFINE o == [NoOp EXCEPT !.step = "failed"]
 <2>1. o \in Ops /\ o.step = "failed" /\ o.job = None
   BY NoTypes DEF Ops, NoOp
 <2>2. /\ op' = [op EXCEPT ![c] = o] /\ Unlock(c) /\ posts' = Detached(c)
       /\ UNCHANGED <<entry, provider, sent>>
   BY <1>11 DEF Abort
 <2> HIDE DEF o
 <2>3. op' \in [Callers -> Ops] /\ Others(c) /\ op'[c] = o
   BY <2>1, <2>2 DEF OutboxTypeOK, Others
 <2>4. Sound(c)'
   BY <2>1, <2>2, <2>3, RestIsSound DEF Holding
 <2>5. outboxLock' \in Callers \cup {None} /\ (Unwritten \/ Writes(c))
   BY <1>1, <2>2 DEF Unlock, Unwritten, Writes
 <2> QED BY <1>1, <1>3, <2>2, <2>3, <2>4, <2>5, Quietly
<1>12. ASSUME Return(c)
       PROVE  OutboxInv'
 <2>1. op' = [op EXCEPT ![c] = NoOp] /\ UNCHANGED <<entry, outboxLock, provider, posts, sent>>
   BY <1>12 DEF Return
 <2>2. op' \in [Callers -> Ops] /\ Others(c) /\ op'[c] = NoOp
   BY <2>1, NoTypes DEF OutboxTypeOK, Others
 <2>3. Sound(c)'
   BY <2>1, <2>2, RestIsSound DEF NoOp, Holding
 <2> QED BY <1>1, <1>2, <2>1, <2>2, <2>3, Quietly DEF Unwritten
<1> QED BY <1>4, <1>5, <1>6, <1>7, <1>8, <1>9, <1>10, <1>11, <1>12

------------
(* The entry of a job that exists, with an observation of it, is saved. *)
LEMMA Learns ==
  ASSUME OutboxInv, NEW c \in Callers, Writes(c), UNCHANGED <<provider, posts, sent>>,
         NEW e \in Entries, NEW s \in ProviderStates, Save(c, Observed(e, s)),
         SeenOf(e.handle, s), entry.handle \in {None, e.handle},
         e.started, e.started = entry.started, e.cancelling = entry.cancelling
  PROVE  OutboxInv'
<1> USE DEF OutboxInv
<1> DEFINE n == Observed(e, s)
<1>1. e.handle \in Jobs /\ provider[e.handle] # None
  BY DEF SeenOf, Entries
<1>2. /\ n \in Entries /\ n.handle = e.handle /\ n.observation = s
      /\ n.terminated = (e.cancelling /\ IsTerminal(s))
      /\ n.started = entry.started /\ n.cancelling = entry.cancelling /\ Loads(n)
  BY <1>1, PhaseFacts DEF Observed, Entries, Loads, IsTerminal
<1> HIDE DEF n
<1>3. /\ op' \in [Callers -> Ops] /\ Others(c)
      /\ op'[c].step = "done" /\ op'[c].job = None
      /\ entry' = n /\ outboxLock' \in Callers \cup {None}
  BY <1>2, Saves DEF n
<1>4. OutboxTypeOK'
  BY <1>2, <1>3 DEF OutboxTypeOK
<1>5. EffectsHappenOnce'
  BY <1>2, <1>3 DEF EffectsHappenOnce
<1>6. OneCreation'
  BY <1>1, <1>2, <1>3 DEF OneCreation, Creates, NoJob
<1>7. RecordIsSeen'
  BY <1>2, <1>3, PhaseFacts DEF RecordIsSeen, SeenOf
<1>8. Sound(c)'
  BY <1>3, RestIsSound DEF Holding
<1>9. ASSUME NEW d \in Callers, d # c
      PROVE  Sound(d)'
 <2>2. Forward /\ \E x \in Callers \ {d} : Writes(x)
   BY <1>9, Stays
 <2> QED BY <1>4, <1>3, <1>9, <2>2, OthersStand DEF Others
<1> QED BY <1>4, <1>5, <1>6, <1>7, <1>8, <1>9

(* The steps that learn the state of the job. *)
LEMMA LearningSteps ==
  ASSUME OutboxInv, NEW c \in Callers, Commit(c) \/ Find(c) \/ PostStop(c) \/ StopAnswered(c)
  PROVE  OutboxInv' \/ (PostStop(c) /\ ~ IsTerminal(provider[entry.handle]))
<1> USE DEF OutboxInv
<1>1. /\ entry \in Entries /\ Loads(entry) /\ op[c] \in Ops /\ Sound(c)
      /\ outboxLock \in Callers \cup {None}
  BY DEF OutboxTypeOK
<1>2. posts' = posts => PostsRemain
  BY SamePosts
<1>3. ASSUME NEW e \in Entries, Save(c, e), Loads(e), Writes(c),
             UNCHANGED <<provider, posts, sent>>,
             e.handle = entry.handle, e.observation = entry.observation,
             e.terminated = entry.terminated, e.started = entry.started,
             e.cancelling = entry.cancelling
      PROVE  OutboxInv'
 <2>1. /\ op' \in [Callers -> Ops] /\ Others(c)
       /\ op'[c].step = "done" /\ op'[c].job = None
       /\ entry' = e /\ outboxLock' \in Callers \cup {None}
   BY <1>3, Saves
 <2> QED BY <1>2, <1>3, <2>1, RestIsSound, Quietly DEF Holding
<1>4. /\ Diagnosed(entry) \in Entries /\ Loads(Diagnosed(entry))
      /\ Diagnosed(entry).handle = entry.handle
      /\ Diagnosed(entry).observation = entry.observation
      /\ Diagnosed(entry).terminated = entry.terminated
      /\ Diagnosed(entry).started = entry.started
      /\ Diagnosed(entry).cancelling = entry.cancelling
  BY <1>1 DEF Diagnosed, Entries, Loads
<1>5. entry.handle # None =>
        /\ entry.started /\ provider[entry.handle] \in ProviderStates
        /\ SeenOf(entry.handle, provider[entry.handle])
 <2> SUFFICES ASSUME entry.handle # None
              PROVE  /\ entry.started /\ provider[entry.handle] \in ProviderStates
                     /\ SeenOf(entry.handle, provider[entry.handle])
   OBVIOUS
 <2> QED BY <1>1, PhaseFacts DEF Loads, SeenOf, Entries, OneCreation, OutboxTypeOK
<1>6. ASSUME Commit(c)
      PROVE  OutboxInv'
 <2>1. /\ op[c].step = "commit" /\ Writes(c)
       /\ UNCHANGED <<provider, posts, sent>>
   BY <1>6 DEF Commit, Locked, Writes
 <2>2. CASE entry # op[c].read
   BY <1>1, <1>3, <1>6, <2>1, <2>2 DEF Commit
 <2>3. CASE entry = op[c].read /\ op[c].seen = None
   BY <1>3, <1>4, <1>6, <2>1, <2>3 DEF Commit
 <2>4. CASE Step(c, "failed") /\ UNCHANGED <<entry, outboxLock>>
  <3>1. /\ op' \in [Callers -> Ops] /\ Others(c)
        /\ op'[c].step = "failed" /\ op'[c].job = op[c].job
    BY <2>4, Steps
  <3>2. Sound(c)'
    BY <2>1, <3>1, RestIsSound DEF Holding
  <3> QED BY <1>1, <1>2, <2>1, <2>4, <3>1, <3>2, Quietly DEF Unwritten
 <2>5. CASE entry = op[c].read /\ op[c].seen # None /\ Save(c, Observed(entry, op[c].seen))
  <3>1. op[c].seen \in ProviderStates /\ SeenOf(entry.handle, op[c].seen)
    BY <1>1, <2>1, <2>5 DEF Sound, ReadsNewer, Ops
  <3> QED BY <1>1, <1>5, <2>1, <2>5, <3>1, Learns DEF SeenOf
 <2> QED BY <1>6, <2>2, <2>3, <2>4, <2>5 DEF Commit
<1>7. ASSUME Find(c)
      PROVE  OutboxInv'
 <2>1. /\ op[c].step = "find" /\ Writes(c) /\ UNCHANGED <<provider, posts, sent>>
       /\ entry.started /\ entry.handle = None
   BY <1>1, <1>7 DEF Find, Sound, HasLock, Knows, Writes, Holding, Creating
 <2>2. CASE Save(c, Diagnosed(entry))
   BY <1>3, <1>4, <2>1, <2>2
 <2>3. CASE Save(c, [entry EXCEPT !.diagnostic = FALSE])
  <3> DEFINE e == [entry EXCEPT !.diagnostic = FALSE]
  <3>1. /\ e \in Entries /\ Loads(e) /\ e.handle = entry.handle
        /\ e.observation = entry.observation /\ e.terminated = entry.terminated
        /\ e.started = entry.started /\ e.cancelling = entry.cancelling
    BY <1>1 DEF Entries, Loads
  <3> HIDE DEF e
  <3>2. Save(c, e)
    BY <2>3 DEF e
  <3> QED BY <1>3, <2>1, <3>1, <3>2
 <2>4. ASSUME NEW j \in Jobs, {k \in Jobs : provider[k] # None} = {j},
              Save(c, Observed([entry EXCEPT !.handle = j], provider[j]))
       PROVE  OutboxInv'
  <3> DEFINE e == [entry EXCEPT !.handle = j]
  <3>1. /\ e \in Entries /\ e.handle = j /\ e.started /\ e.started = entry.started
        /\ e.cancelling = entry.cancelling
    BY <1>1, <2>1 DEF Entries
  <3> HIDE DEF e
  <3>3. provider[j] \in ProviderStates /\ j # None
    BY <2>4, PhaseFacts DEF OutboxTypeOK
  <3>4. SeenOf(e.handle, provider[j])
    BY <3>1, <3>3, PhaseFacts DEF SeenOf
  <3> QED BY <2>1, <3>1, <2>4, <3>3, <3>4, Learns DEF e
 <2> QED BY <1>7, <2>2, <2>3, <2>4 DEF Find
<1>8. ASSUME PostStop(c), IsTerminal(provider[entry.handle])
      PROVE  OutboxInv'
 <2>1. /\ op[c].step = "stopping" /\ UNCHANGED <<provider, posts, sent>>
       /\ Save(c, Observed(entry, provider[entry.handle]))
   BY <1>8 DEF PostStop
 <2>2. Writes(c) /\ entry.handle # None
   BY <1>1, <2>1 DEF Sound, HasLock, Knows, Writes, Holding
 <2> QED BY <1>1, <1>5, <2>1, <2>2, Learns
<1>9. ASSUME StopAnswered(c)
      PROVE  OutboxInv'
 <2>1. /\ op[c].step = "stopposted" /\ UNCHANGED <<provider, posts, sent>>
       /\ Save(c, Observed(entry, provider[entry.handle]))
   BY <1>9 DEF StopAnswered
 <2>2. Writes(c) /\ entry.handle # None
   BY <1>1, <2>1 DEF Sound, HasLock, Knows, Writes, Holding
 <2> QED BY <1>1, <1>5, <2>1, <2>2, Learns
<1> QED BY <1>6, <1>7, <1>8, <1>9

------------
(* The steps that ask the provider, and the answer to the creation. *)
LEMMA PostCreateStep ==
  ASSUME OutboxInv, NEW c \in Callers, PostCreate(c)
  PROVE  OutboxInv'
<1> USE DEF OutboxInv
<1> DEFINE new == [kind |-> "create", caller |-> c]
<1>1. /\ op[c].step = "posting" /\ posts' = posts \cup {new}
      /\ sent' = [sent EXCEPT !.create = @ + 1] /\ Step(c, "posted")
      /\ UNCHANGED <<entry, outboxLock, provider>>
  BY DEF PostCreate
<1>2. /\ sent.create = 0 /\ entry.started /\ entry.handle = None /\ outboxLock = c
      /\ Sound(c) /\ op[c] \in Ops
  BY <1>1 DEF Sound, HasLock, Knows, Holding, Creating, OutboxTypeOK
<1>3. /\ op' \in [Callers -> Ops] /\ Others(c)
      /\ op'[c].step = "posted" /\ op'[c].job = op[c].job
  BY <1>1, Steps DEF Working
<1>4. sent' \in [create : Nat, stop : Nat] /\ sent'.create = 1 /\ sent'.stop = sent.stop
  BY <1>1, <1>2 DEF OutboxTypeOK
<1>5. OutboxTypeOK'
  BY <1>1, <1>3, <1>4 DEF OutboxTypeOK, Posts
<1>6. EffectsHappenOnce'
  BY <1>1, <1>2, <1>4 DEF EffectsHappenOnce
<1>8. OneCreation' BY <1>1, <1>2, <1>4 DEF OneCreation, NoJob, Creates
<1>9. RecordIsSeen'
  BY <1>1 DEF RecordIsSeen, SeenOf
<1>10. Sound(c)'
  BY <1>1, <1>2, <1>3 DEF Sound, HasLock, Knows, ReadsNewer
<1>11. ASSUME NEW d \in Callers, d # c
       PROVE  Sound(d)'
 <2>2. Forward /\ \E x \in Callers \ {d} : Writes(x)
   BY <1>1, <1>2, <1>11, Stays DEF Writes
 <2> QED BY <1>5, <1>3, <1>11, <2>2, OthersStand DEF Others
<1> QED BY <1>5, <1>6, <1>8, <1>9, <1>10, <1>11

(* The job that is asked to stop is asked once, and is not created again. *)
LEMMA PostStopStep ==
  ASSUME OutboxInv, NEW c \in Callers, PostStop(c), ~ IsTerminal(provider[entry.handle])
  PROVE  OutboxInv'
<1> USE DEF OutboxInv
<1>1. /\ op[c].step = "stopping" /\ posts' = posts \cup {[kind |-> "stop", caller |-> c]}
      /\ sent' = [sent EXCEPT !.stop = @ + 1] /\ Step(c, "stopposted")
      /\ UNCHANGED <<entry, outboxLock, provider>>
  BY DEF PostStop
<1>2. /\ sent.stop = 0 /\ entry.cancelling /\ entry.handle # None /\ outboxLock = c
      /\ Sound(c) /\ op[c] \in Ops
  BY <1>1 DEF Sound, HasLock, Knows, Holding, OutboxTypeOK
<1>3. /\ op' \in [Callers -> Ops] /\ Others(c)
      /\ op'[c].step = "stopposted" /\ op'[c].job = op[c].job
  BY <1>1, Steps DEF Working
<1>4. sent' \in [create : Nat, stop : Nat] /\ sent'.stop = 1 /\ sent'.create = sent.create
  BY <1>1, <1>2 DEF OutboxTypeOK
<1>5. OutboxTypeOK'
  BY <1>1, <1>3, <1>4 DEF OutboxTypeOK, Posts
<1>6. EffectsHappenOnce'
  BY <1>1, <1>2, <1>4 DEF EffectsHappenOnce
<1>8. OneCreation' BY <1>1, <1>4 DEF OneCreation, NoJob, Creates
<1>9. RecordIsSeen'
  BY <1>1 DEF RecordIsSeen, SeenOf
<1>10. Sound(c)'
  BY <1>1, <1>2, <1>3 DEF Sound, HasLock, Knows, ReadsNewer, Creating
<1>11. ASSUME NEW d \in Callers, d # c
       PROVE  Sound(d)'
 <2>2. Forward /\ \E x \in Callers \ {d} : Writes(x)
   BY <1>1, <1>2, <1>11, Stays DEF Writes
 <2> QED BY <1>5, <1>3, <1>11, <2>2, OthersStand DEF Others
<1> QED BY <1>5, <1>6, <1>8, <1>9, <1>10, <1>11

(* The answer to the creation names the job, of which nothing is known yet. *)
LEMMA CreateAnsweredStep ==
  ASSUME OutboxInv, NEW c \in Callers, CreateAnswered(c)
  PROVE  OutboxInv'
<1> USE DEF OutboxInv
<1> DEFINE e == [entry EXCEPT !.handle = op[c].job, !.diagnostic = FALSE]
<1>1. /\ op[c].step = "posted" /\ op[c].job # None /\ Save(c, e)
      /\ UNCHANGED <<provider, posts, sent>>
  BY DEF CreateAnswered
<1>2. /\ entry \in Entries /\ Loads(entry) /\ op[c] \in Ops
      /\ entry.started /\ entry.handle = None /\ outboxLock = c
      /\ provider[op[c].job] # None
  BY <1>1 DEF Sound, HasLock, Knows, Holding, Creating, OutboxTypeOK
<1>4. /\ e \in Entries /\ Loads(e) /\ e.handle = op[c].job /\ e.started
      /\ e.observation = None /\ ~ e.terminated /\ e.cancelling = entry.cancelling
  BY <1>1, <1>2 DEF Entries, Loads, RecordIsSeen, SeenOf, Ops
<1> HIDE DEF e
<1>5. /\ op' \in [Callers -> Ops] /\ Others(c)
      /\ op'[c].step = "done" /\ op'[c].job = None
      /\ entry' = e /\ outboxLock' \in Callers \cup {None}
  BY <1>1, <1>4, Saves
<1>6. OutboxTypeOK'
  BY <1>1, <1>4, <1>5 DEF OutboxTypeOK
<1>7. EffectsHappenOnce'
  BY <1>1, <1>4, <1>5 DEF EffectsHappenOnce
<1>8. OneCreation'
  BY <1>1, <1>2, <1>4, <1>5 DEF OneCreation, Creates, NoJob
<1>9. RecordIsSeen'
  BY <1>4, <1>5 DEF RecordIsSeen
<1>10. Sound(c)'
  BY <1>1, <1>5, RestIsSound DEF Holding
<1>11. ASSUME NEW d \in Callers, d # c
       PROVE  Sound(d)'
 <2>2. Forward /\ \E x \in Callers \ {d} : Writes(x)
   BY <1>1, <1>2, <1>11, Stays DEF Writes
 <2> QED BY <1>6, <1>5, <1>11, <2>2, OthersStand DEF Others
<1> QED BY <1>6, <1>7, <1>8, <1>9, <1>10, <1>11

(* A crash forgets the operations; the POSTs remain without callers. *)
LEMMA CrashStep ==
  ASSUME OutboxInv, OutboxCrash
  PROVE  OutboxInv'
<1> USE DEF OutboxInv
<1> DEFINE Left(p) == [p EXCEPT !.caller = None]
<1>1. /\ op' = [c \in Callers |-> NoOp] /\ outboxLock' = None
      /\ posts' = {Left(p) : p \in posts} /\ UNCHANGED <<entry, provider, sent>>
  BY DEF OutboxCrash
<1>2. \A p \in posts : Left(p) \in Posts /\ Left(p).kind = p.kind
  BY DEF OutboxTypeOK, Posts
<1> HIDE DEF Left
<1>4. PostsRemain BY <1>1, <1>2 DEF PostsRemain, OneCreation, Creates
<1>5. OutboxTypeOK'
  BY <1>1, <1>4, NoTypes DEF OutboxTypeOK, PostsRemain
<1>7. OneCreation'
  BY <1>1, <1>4, CreationStays
<1>8. RecordIsSeen'
  BY <1>1 DEF RecordIsSeen, SeenOf
<1>9. ASSUME NEW c \in Callers
      PROVE  Sound(c)'
 <2>1. op'[c] = NoOp
   BY <1>1
 <2> QED BY <2>1 DEF NoOp, Sound, HasLock, Knows, ReadsNewer, Holding, Creating
<1> QED BY <1>5, <1>1, <1>7, <1>8, <1>9 DEF EffectsHappenOnce

------------
(* A step of the provider: its jobs move forward, callers may be answered. *)
LEMMA ProviderMoves ==
  ASSUME OutboxInv, Forward, OneCreation',
         UNCHANGED <<entry, outboxLock, sent>>,
         posts' \subseteq posts, provider' \in [Jobs -> ProviderStates \cup {None}],
         op' \in [Callers -> Ops],
         \A d \in Callers :
           /\ op'[d].step = op[d].step /\ op'[d].read = op[d].read /\ op'[d].seen = op[d].seen
           /\ op'[d].job = op[d].job \/ (op'[d].job \in Jobs /\ provider'[op'[d].job] # None)
  PROVE  OutboxInv'
<1> USE DEF OutboxInv
<1>1. OutboxTypeOK'
  BY DEF OutboxTypeOK
<1>3. RecordIsSeen'
  BY <1>1, RecordStays
<1>4. \A d \in Callers : Sound(d)'
  BY <1>1, OthersStand DEF Unwritten
<1> QED BY <1>1, <1>3, <1>4 DEF EffectsHappenOnce

(* Who is answered by the provider learns of its job, and nothing else. *)
LEMMA Accepted ==
  ASSUME OutboxTypeOK, NEW p \in posts, NEW j \in Jobs, Accept(p, j), provider'[j] # None
  PROVE  /\ op' \in [Callers -> Ops]
         /\ \A d \in Callers :
              /\ op'[d].step = op[d].step /\ op'[d].read = op[d].read
              /\ op'[d].seen = op[d].seen
              /\ op'[d].job = op[d].job \/ (op'[d].job \in Jobs /\ provider'[op'[d].job] # None)
<1>1. op' = [d \in Callers |-> IF d = p.caller THEN [op[d] EXCEPT !.job = j] ELSE op[d]]
  BY DEF Accept
<1>2. ASSUME NEW d \in Callers
      PROVE  /\ op'[d] \in Ops
             /\ op'[d].step = op[d].step /\ op'[d].read = op[d].read
             /\ op'[d].seen = op[d].seen
             /\ op'[d].job = op[d].job \/ op'[d].job = j
 <2>1. op[d] \in Ops
   BY DEF OutboxTypeOK
 <2> QED BY <1>1, <2>1 DEF Ops
<1> QED BY <1>1, <1>2

(* The steps of the provider, one by one. *)
LEMMA ProviderSteps ==
  ASSUME OutboxInv, ProviderStep
  PROVE  OutboxInv'
<1> USE DEF OutboxInv
<1>1. ASSUME NEW p \in posts, Lose(p)
      PROVE  OutboxInv'
 <2>1. posts' = posts \ {p} /\ UNCHANGED <<entry, outboxLock, op, provider, sent>>
   BY <1>1 DEF Lose
 <2>3. OneCreation' BY <2>1, SamePosts, CreationStays
 <2> QED BY <2>1, <2>3, Stays, ProviderMoves DEF OutboxTypeOK
<1>2. ASSUME NEW p \in posts, NEW j \in Jobs, CreateJob(p, j)
      PROVE  OutboxInv'
 <2>1. /\ p.kind = "create" /\ provider' = [provider EXCEPT ![j] = "QUEUED"]
       /\ Accept(p, j)
   BY <1>2 DEF CreateJob
 <2>2. posts' = posts \ {p} /\ UNCHANGED <<entry, outboxLock, sent>>
   BY <2>1 DEF Accept
 <2>3. p \in Creates /\ NoJob /\ Creates' = {} /\ sent.create # 0
   BY <2>1, <2>2 DEF Creates, OneCreation
 <2>4. /\ provider' \in [Jobs -> ProviderStates \cup {None}]
       /\ provider'[j] # None /\ \A k \in Jobs : k # j => provider'[k] = None
   BY <2>1, <2>3, PhaseFacts DEF OutboxTypeOK, NoJob
 <2>6. OneCreation' BY <2>2, <2>3, <2>4 DEF OneCreation, NoJob, OutboxTypeOK, Entries
 <2>7. Forward
   BY <2>3 DEF Forward, NoJob
 <2> QED BY <2>1, <2>2, <2>4, <2>6, <2>7, Accepted, ProviderMoves
<1>3. ASSUME NEW j \in Jobs, NEW s \in ProviderStates, provider[j] # None,
             provider' = [provider EXCEPT ![j] = s],
             Phase[provider[j]] <= Phase[s], IsTerminal(provider[j]) => s = provider[j],
             posts' \subseteq posts, entry' = entry, sent' = sent
      PROVE  /\ OneCreation' /\ Forward /\ provider'[j] # None
             /\ provider' \in [Jobs -> ProviderStates \cup {None}]
 <2>1. /\ provider' \in [Jobs -> ProviderStates \cup {None}]
       /\ provider'[j] = s /\ s # None
       /\ \A k \in Jobs : k # j => provider'[k] = provider[k]
   BY <1>3, PhaseFacts DEF OutboxTypeOK
 <2>3. PostsRemain
   BY <1>3, SamePosts
 <2>4. entry.handle \in Jobs \cup {None} /\ ~ NoJob
   BY <1>3 DEF NoJob, OutboxTypeOK, Entries
 <2>5. OneCreation' BY <1>3, <2>1, <2>3, <2>4 DEF OneCreation, PostsRemain
 <2>6. Forward
  <3>1. ASSUME NEW k \in Jobs, provider[k] # None, k # j
        PROVE  Phase[provider[k]] <= Phase[provider[k]]
    BY <3>1, PhaseFacts DEF OutboxTypeOK
  <3> QED BY <1>3, <2>1, <3>1 DEF Forward
 <2> QED BY <2>1, <2>5, <2>6
<1>4. ASSUME NEW p \in posts, NEW j \in Jobs, StopJob(p, j)
      PROVE  OutboxInv'
 <2>1. PICK s \in {provider[j], "CANCELLED"} :
         /\ IsTerminal(provider[j]) => s = provider[j]
         /\ provider' = [provider EXCEPT ![j] = s]
   BY <1>4 DEF StopJob
 <2>2. j = entry.handle /\ Accept(p, j)
   BY <1>4 DEF StopJob
 <2>3. posts' = posts \ {p} /\ UNCHANGED <<entry, outboxLock, sent>>
   BY <2>2 DEF Accept
 <2>4. provider[j] # None /\ provider[j] \in ProviderStates /\ s \in ProviderStates
   BY <2>1, <2>2, PhaseFacts DEF OneCreation, OutboxTypeOK
 <2>6. Phase[provider[j]] <= Phase[s] BY <2>1, <2>4, PhaseFacts DEF Phase
 <2>7. /\ OneCreation' /\ Forward /\ provider'[j] # None
       /\ provider' \in [Jobs -> ProviderStates \cup {None}]
   BY <1>3, <2>1, <2>3, <2>4, <2>6
 <2> QED BY <2>2, <2>3, <2>7, Accepted, ProviderMoves
<1>5. ASSUME NEW j \in Jobs, Advance(j)
      PROVE  OutboxInv'
 <2>1. provider[j] # None /\ UNCHANGED <<entry, outboxLock, op, posts, sent>>
   BY <1>5 DEF Advance
 <2>2. PICK s \in ProviderStates :
         Phase[provider[j]] < Phase[s] /\ provider' = [provider EXCEPT ![j] = s]
   BY <1>5 DEF Advance
 <2>4. Phase[provider[j]] <= Phase[s] /\ ~ IsTerminal(provider[j]) BY <2>2, <2>1, PhaseFacts DEF OutboxTypeOK
 <2> QED BY <2>1, <1>3, <2>2, <2>4, ProviderMoves DEF OutboxTypeOK
<1> QED BY <1>1, <1>2, <1>4, <1>5 DEF ProviderStep

------------
(* The invariant holds before anyone calls. *)
LEMMA InitIsSound == OutboxInit => OutboxInv
<1> SUFFICES ASSUME OutboxInit
             PROVE  OutboxInv
  OBVIOUS
<1>2. EffectsHappenOnce /\ OneCreation /\ RecordIsSeen
  BY DEF OutboxInit, NoEntry, EffectsHappenOnce, OneCreation, RecordIsSeen, Creates, NoJob
<1>3. \A c \in Callers : Sound(c)
  BY DEF OutboxInit, NoOp, Sound, HasLock, Knows, ReadsNewer, Holding, Creating
<1> QED BY NoTypes, <1>2, <1>3 DEF OutboxInv, OutboxInit, OutboxTypeOK

(* Every step of a caller, of the provider or of the host keeps it. *)
LEMMA NextIsSound == OutboxInv /\ [OutboxNext]_outboxVars => OutboxInv'
<1> SUFFICES ASSUME OutboxInv, [OutboxNext]_outboxVars
             PROVE  OutboxInv'
  OBVIOUS
<1>1. ASSUME NEW c \in Callers,
             Return(c) \/ OutboxWork(c) \/ \E kind \in Calling : Call(c, kind)
      PROVE  OutboxInv'
  BY <1>1, QuietSteps, LearningSteps, PostCreateStep, PostStopStep, CreateAnsweredStep
     DEF OutboxWork
<1>2. CASE UNCHANGED outboxVars
 <2>1. OutboxTypeOK' /\ EffectsHappenOnce'
   BY <1>2 DEF outboxVars, OutboxInv, OutboxTypeOK, EffectsHappenOnce
 <2>3. OneCreation'
   BY <1>2 DEF outboxVars, OutboxInv, OneCreation, Creates, NoJob
 <2>4. RecordIsSeen'
   BY <1>2 DEF outboxVars, OutboxInv, RecordIsSeen, SeenOf
 <2>2. ASSUME NEW c \in Callers PROVE Sound(c)'
   BY <1>2 DEF outboxVars, OutboxInv, Sound, HasLock, Knows, ReadsNewer, SeenOf
 <2> QED BY <2>1, <2>2, <2>3, <2>4 DEF OutboxInv
<1> QED BY <1>1, <1>2, CrashStep, ProviderSteps DEF OutboxNext

(* The record that is true follows from what was seen. *)
LEMMA SoundIsTrue == OutboxInv => RecordIsTrue
<1> SUFFICES ASSUME OutboxInv
             PROVE  RecordIsTrue
  OBVIOUS
<1>1. entry \in Entries /\ Loads(entry)
  BY DEF OutboxInv, OutboxTypeOK
<1>2. ASSUME entry.handle # None, NEW j \in Jobs
      PROVE  provider[j] # None <=> j = entry.handle
  BY <1>1, <1>2 DEF OutboxInv, OneCreation, Entries
<1>3. ASSUME entry.terminated
      PROVE  /\ entry.cancelling
             /\ IsTerminal(provider[entry.handle]) /\ entry.observation = provider[entry.handle]
  BY <1>1, <1>3 DEF OutboxInv, RecordIsSeen, SeenOf, Loads
<1> QED BY <1>2, <1>3 DEF RecordIsTrue

(* The outbox never writes what load refuses, asks for one job and one
   stop behind durable markers, and records only what is so, for every set
   of callers and jobs and in every interleaving of execute, reconcile,
   stop, lost and late POSTs, timeouts and crashes. *)
THEOREM OutboxIsSound ==
  OutboxSpec => [](OutboxTypeOK /\ EffectsHappenOnce /\ RecordIsTrue)
<1>1. OutboxInv => OutboxTypeOK /\ EffectsHappenOnce /\ RecordIsTrue
  BY SoundIsTrue DEF OutboxInv
<1> QED BY <1>1, InitIsSound, NextIsSound, PTL DEF OutboxSpec

------------
(* What one step makes of the entry: the markers and the handle stay, and
   an observation gives way only to one that is at least as far on. *)
EntryMoves ==
    /\ entry.started => entry'.started
    /\ entry.handle # None => entry'.handle = entry.handle
    /\ entry.cancelling => entry'.cancelling
    /\ entry.terminated => entry'.terminated
    /\ entry.observation # None =>
         /\ entry'.observation # None
         /\ Phase[entry.observation] <= Phase[entry'.observation]

(* An entry that is kept moves nowhere. *)
LEMMA KeptEntry ==
  ASSUME OutboxInv, entry'.started = entry.started \/ entry'.started,
         entry'.handle = entry.handle, entry'.observation = entry.observation,
         entry'.cancelling = entry.cancelling \/ entry'.cancelling,
         entry'.terminated = entry.terminated
  PROVE  EntryMoves
<1>2. entry.observation # None => Phase[entry.observation] <= Phase[entry.observation]
  BY PhaseFacts DEF OutboxInv, OutboxTypeOK, Entries
<1> QED BY <1>2 DEF EntryMoves

(* An observation that is newer than the recorded one moves the entry on. *)
LEMMA NewEntry ==
  ASSUME OutboxInv, NEW e \in Entries, NEW s \in ProviderStates, entry' = Observed(e, s),
         e.started = entry.started, e.cancelling = entry.cancelling,
         entry.handle \in {None, e.handle},
         entry.observation # None => Phase[entry.observation] <= Phase[s]
  PROVE  EntryMoves
<1>2. ASSUME entry.terminated
      PROVE  entry.cancelling /\ IsTerminal(s)
 <2> QED BY <1>2, PhaseFacts DEF OutboxInv, OutboxTypeOK, Entries, Loads, RecordIsSeen
<1> QED BY <1>2, PhaseFacts DEF EntryMoves, Observed, Entries, IsTerminal

(* The steps of a caller that keep what the entry says of the job. *)
LEMMA CallerKeeps ==
  ASSUME OutboxInv, NEW c \in Callers,
         \/ Return(c) \/ \E kind \in Calling : Call(c, kind)
         \/ Prepare(c) \/ Execute(c) \/ PostCreate(c) \/ EffectFails(c)
         \/ Reconcile(c) \/ Observe(c) \/ Stop(c) \/ Abort(c)
  PROVE  EntryMoves
<1>1. entry \in Entries
  BY DEF OutboxInv, OutboxTypeOK
<1>2. CASE entry' = entry
  BY <1>2, KeptEntry
<1>3. CASE Prepare(c)
  BY <1>1, <1>3, KeptEntry DEF Prepare, Entries
<1>4. CASE Execute(c)
  BY <1>1, <1>4, KeptEntry DEF Execute, Entries
<1>5. CASE EffectFails(c)
  BY <1>1, <1>5, KeptEntry DEF EffectFails, Save, Diagnosed, Entries
<1>6. CASE Stop(c)
  BY <1>1, <1>6, KeptEntry DEF Stop, Entries
<1> QED BY <1>2, <1>3, <1>4, <1>5, <1>6 DEF Return, Call, PostCreate, Reconcile, Observe, Abort

(* The steps that learn of the job move the entry on. *)
LEMMA CallerLearns ==
  ASSUME OutboxInv, NEW c \in Callers,
         \/ CreateAnswered(c) \/ Commit(c) \/ Find(c) \/ PostStop(c) \/ StopAnswered(c)
  PROVE  EntryMoves
<1>1. entry \in Entries /\ Loads(entry) /\ op[c] \in Ops /\ Sound(c)
  BY DEF OutboxInv, OutboxTypeOK
<1>2. CASE entry' = entry
  BY <1>2, KeptEntry
<1>3. CASE entry' = Diagnosed(entry)
  BY <1>1, <1>3, KeptEntry DEF Diagnosed, Entries
<1>4. ASSUME entry.handle # None, entry' = Observed(entry, provider[entry.handle])
      PROVE  EntryMoves
 <2>1. provider[entry.handle] \in ProviderStates
   BY <1>1, <1>4 DEF OutboxInv, OneCreation, OutboxTypeOK, Entries
 <2> QED BY <1>1, <1>4, <2>1, NewEntry DEF OutboxInv, RecordIsSeen, SeenOf
<1>5. ASSUME CreateAnswered(c)
      PROVE  EntryMoves
 <2>1. /\ entry.handle = None /\ entry.observation = None /\ ~ entry.terminated
   BY <1>1, <1>5 DEF CreateAnswered, Sound, Knows, Creating, OutboxInv, RecordIsSeen, SeenOf
 <2> QED BY <2>1, <1>1, <1>5 DEF EntryMoves, CreateAnswered, Save, Entries
<1>6. ASSUME Commit(c)
      PROVE  EntryMoves
 <2>1. CASE entry = op[c].read /\ op[c].seen # None /\ entry' = Observed(entry, op[c].seen)
  <3>2. entry.observation # None => Phase[entry.observation] <= Phase[op[c].seen]
    BY <1>1, <1>6, <2>1 DEF Commit, Locked, Sound, ReadsNewer
  <3> QED BY <1>1, <2>1, <3>2, NewEntry DEF Ops
 <2> QED BY <1>2, <1>3, <1>6, <2>1 DEF Commit, Save
<1>7. ASSUME Find(c)
      PROVE  EntryMoves
 <2>1. entry.handle = None /\ entry.observation = None
   BY <1>1, <1>7 DEF Find, Sound, Knows, Creating, OutboxInv, RecordIsSeen, SeenOf
 <2>2. CASE entry' = [entry EXCEPT !.diagnostic = FALSE]
   BY <1>1, <2>2, KeptEntry DEF Entries
 <2>3. ASSUME NEW j \in Jobs, {k \in Jobs : provider[k] # None} = {j},
              entry' = Observed([entry EXCEPT !.handle = j], provider[j])
       PROVE  EntryMoves
  <3> DEFINE e == [entry EXCEPT !.handle = j]
  <3>1. e \in Entries /\ e.started = entry.started /\ e.cancelling = entry.cancelling
    BY <1>1 DEF Entries
  <3>2. provider[j] \in ProviderStates
    BY <2>3 DEF OutboxInv, OutboxTypeOK
  <3> HIDE DEF e
  <3>3. entry' = Observed(e, provider[j])
    BY <2>3 DEF e
  <3> QED BY <2>1, <3>1, <3>2, <3>3, NewEntry
 <2> QED BY <1>3, <1>7, <2>2, <2>3 DEF Find, Save
<1>8. CASE PostStop(c)
 <2>1. entry.handle # None
   BY <1>1, <1>8 DEF PostStop, Sound, Knows
 <2> QED BY <1>2, <1>4, <1>8, <2>1 DEF PostStop, Save
<1>9. CASE StopAnswered(c)
 <2> QED BY <1>4, <1>9, <1>1 DEF StopAnswered, Save, Sound, Knows
<1> QED BY <1>5, <1>6, <1>7, <1>8, <1>9

(* No step takes back what the entry says. *)
LEMMA EveryStepMoves == OutboxInv /\ [OutboxNext]_outboxVars => EntryMoves
<1> SUFFICES ASSUME OutboxInv, [OutboxNext]_outboxVars
             PROVE  EntryMoves
  OBVIOUS
<1>1. CASE entry' = entry
  BY <1>1, KeptEntry
<1>2. ASSUME NEW c \in Callers,
             Return(c) \/ OutboxWork(c) \/ \E kind \in Calling : Call(c, kind)
      PROVE  EntryMoves
  BY <1>2, CallerKeeps, CallerLearns DEF OutboxWork
<1>3. OutboxCrash \/ ProviderStep \/ UNCHANGED outboxVars => entry' = entry
  BY DEF OutboxCrash, ProviderStep, Lose, CreateJob, StopJob, Accept, Advance, outboxVars
<1> QED BY <1>1, <1>2, <1>3 DEF OutboxNext

(* Neither a late answer, a racing observation nor a restart takes back a
   marker, a handle or a proof of termination. *)
THEOREM NothingIsTakenBack == OutboxSpec => EvidenceIsKept
<1>1. OutboxInv /\ [OutboxNext]_outboxVars =>
        [/\ entry.started => entry'.started
         /\ entry.handle # None => entry'.handle = entry.handle
         /\ entry.cancelling => entry'.cancelling
         /\ entry.terminated => entry'.terminated]_outboxVars
  BY EveryStepMoves DEF EntryMoves
<1> QED BY <1>1, InitIsSound, NextIsSound, PTL DEF OutboxSpec, EvidenceIsKept

(* However the GETs of several callers cross, a committed observation is
   at least as far on as the one it replaces. *)
THEOREM ObservationsNeverGoBack == OutboxSpec => ObservationsMoveOn
<1>1. OutboxInv /\ [OutboxNext]_outboxVars =>
        [entry.observation # None =>
           /\ entry'.observation # None
           /\ Phase[entry.observation] <= Phase[entry'.observation]]_outboxVars
  BY EveryStepMoves DEF EntryMoves
<1> QED BY <1>1, InitIsSound, NextIsSound, PTL DEF OutboxSpec, ObservationsMoveOn

------------
------------
(* What is asked and answered.  A POST that somebody waits for is the one
   that caller made, and what a caller was told of the entry is still so. *)
PostsAreAwaited ==
    /\ \A p \in posts : p.caller # None =>
         /\ op[p.caller].step = IF p.kind = "create" THEN "posted" ELSE "stopposted"
         /\ op[p.caller].job = None
    /\ \A c \in Callers : op[c].job # None => op[c].step \in {"posted", "stopposted"}

AnswersStand ==
    \A c \in Callers :
        /\ op[c].handle # None => op[c].step = "done" /\ op[c].handle = entry.handle
        /\ op[c].observation # None => op[c].step = "done" /\ entry.observation # None

AskedInv == OutboxInv /\ PostsAreAwaited /\ AnswersStand

\* A caller's operation goes on in the same undertaking.
Undertakings ==
    { {"prepare", "done", "failed"},
      {"execute", "posting", "posted", "done", "failed"},
      {"reconcile", "observe", "commit", "find", "done", "failed"},
      {"stop", "stopping", "stopposted",
       "reconcile", "observe", "commit", "find", "done", "failed"} }

(* What one step of a caller at the outbox makes of its operation: it has
   the answer, or goes on without one. *)
Proceeds(c) ==
    /\ Others(c)
    /\ \/ op'[c] = View(entry')
       \/ op'[c].handle = op[c].handle /\ op'[c].observation = op[c].observation
          /\ op[c].step # "done" /\ op'[c].job = op[c].job
       \/ op'[c].handle = None /\ op'[c].observation = None /\ op'[c].job = None
          
(* One step of an operation: how it goes on, and what becomes of its POST. *)
LEMMA WorkProceeds ==
  ASSUME OutboxInv, NEW c \in Callers, OutboxWork(c)
  PROVE  /\ Proceeds(c)
         /\ op[c].step \in Calling \cup Working
         /\ \A U \in Undertakings : op[c].step \in U => op'[c].step \in U
         /\ \/ posts' = posts /\ op'[c].step \notin {"posted", "stopposted"}
               /\ (op[c].step \in {"posted", "stopposted"} => op[c].job # None)
               /\ \/ op'[c].job = None
                  \/ op'[c].job = op[c].job /\ op[c].step \notin {"posted", "stopposted"}
            \/ posts' = Detached(c) /\ op'[c].job = None
            \/ /\ op[c].step \notin {"posted", "stopposted"} /\ op'[c].job = op[c].job
               /\ \E kind \in {"create", "stop"} :
                    /\ posts' = posts \cup {[kind |-> kind, caller |-> c]}
                    /\ op'[c].step = IF kind = "create" THEN "posted" ELSE "stopposted"
<1>0. op \in [Callers -> Ops] /\ op[c] \in Ops
  BY DEF OutboxInv, OutboxTypeOK
<1>1. ASSUME NEW s \in Calling \cup Working \cup {"done", "failed"}, Step(c, s), op[c].step # "done"
      PROVE  Proceeds(c) /\ op'[c].step = s /\ op'[c].job = op[c].job
  BY <1>0, <1>1 DEF Step, Proceeds, Others, Ops
<1>2. ASSUME Answer(c, entry')
      PROVE  Proceeds(c) /\ op'[c].step = "done" /\ op'[c].job = None
  BY <1>0, <1>2 DEF Answer, Proceeds, Others, View, NoOp
<1>3. ASSUME op' = [op EXCEPT ![c] = [NoOp EXCEPT !.step = "failed"]]
      PROVE  Proceeds(c) /\ op'[c].step = "failed" /\ op'[c].job = None
  BY <1>0, <1>3 DEF Proceeds, Others, NoOp
<1> USE DEF Undertakings
<1>4. CASE Prepare(c)
  BY <1>1, <1>2, <1>4 DEF Prepare, Calling, Working
<1>5. CASE Execute(c)
  BY <1>1, <1>2, <1>5 DEF Execute, Locked, Calling, Working
<1>6. CASE PostCreate(c)
  BY <1>1, <1>6 DEF PostCreate, Calling, Working
<1>7. CASE CreateAnswered(c)
  BY <1>2, <1>7 DEF CreateAnswered, Save, Calling, Working
<1>8. CASE EffectFails(c)
  BY <1>2, <1>8 DEF EffectFails, Save, Calling, Working
<1>9. CASE Reconcile(c)
 <2>1. ASSUME op' = [op EXCEPT ![c].step = "observe", ![c].read = entry], op[c].step = "reconcile"
       PROVE  Proceeds(c) /\ op'[c].step = "observe" /\ op'[c].job = op[c].job
   BY <1>0, <2>1 DEF Proceeds, Others, Ops
 <2> QED BY <1>1, <1>2, <1>9, <2>1 DEF Reconcile, Locked, Calling, Working
<1>10. CASE Observe(c)
 <2>1. PICK seen : op' = [op EXCEPT ![c].step = "commit", ![c].seen = seen]
   BY <1>10 DEF Observe
 <2>2. Proceeds(c) /\ op'[c].step = "commit" /\ op'[c].job = op[c].job
   BY <1>0, <1>10, <2>1 DEF Proceeds, Others, Ops, Observe
 <2> QED BY <1>10, <2>2 DEF Observe, Calling, Working
<1>11. CASE Commit(c)
  BY <1>1, <1>2, <1>11 DEF Commit, Save, Locked, Calling, Working
<1>12. CASE Find(c)
  BY <1>2, <1>12 DEF Find, Save, Calling, Working
<1>13. CASE Stop(c)
  BY <1>1, <1>2, <1>13 DEF Stop, Locked, Calling, Working
<1>14. CASE PostStop(c)
  BY <1>1, <1>2, <1>14 DEF PostStop, Save, Calling, Working
<1>15. CASE StopAnswered(c)
  BY <1>2, <1>15 DEF StopAnswered, Save, Calling, Working
<1>16. CASE Abort(c)
  BY <1>3, <1>16 DEF Abort, Calling, Working
<1> QED BY <1>4, <1>5, <1>6, <1>7, <1>8, <1>9, <1>10, <1>11, <1>12, <1>13, <1>14, <1>15, <1>16
        DEF OutboxWork

(* What is awaited and answered is so after the step of one operation. *)
LEMMA WorkAsks ==
  ASSUME AskedInv, NEW c \in Callers, OutboxWork(c)
  PROVE  PostsAreAwaited' /\ AnswersStand'
<1>0. /\ op \in [Callers -> Ops] /\ posts \subseteq Posts /\ None \notin Callers
      /\ PostsAreAwaited /\ AnswersStand /\ OutboxInv
  BY PhaseFacts DEF AskedInv, OutboxInv, OutboxTypeOK
<1>1. /\ Proceeds(c)
      /\ \A d \in Callers \ {c} : op'[d] = op[d]
  BY <1>0, WorkProceeds DEF Proceeds, Others
<1>2. EntryMoves
  BY <1>0, CallerKeeps, CallerLearns DEF OutboxWork
<1>3. AnswersStand'
 <2>1. ASSUME NEW d \in Callers, d # c
       PROVE  /\ op'[d].handle # None => op'[d].step = "done" /\ op'[d].handle = entry'.handle
              /\ op'[d].observation # None => op'[d].step = "done" /\ entry'.observation # None
   BY <1>0, <1>1, <1>2, <2>1 DEF AnswersStand, EntryMoves
 <2>2. /\ op'[c].handle # None => op'[c].step = "done" /\ op'[c].handle = entry'.handle
       /\ op'[c].observation # None => op'[c].step = "done" /\ entry'.observation # None
  <3>1. CASE op'[c] = View(entry')
    BY <3>1 DEF View, NoOp
  <3>2. CASE op'[c].handle = op[c].handle /\ op'[c].observation = op[c].observation /\ op[c].step # "done"
    BY <1>0, <3>2 DEF AnswersStand
  <3> QED BY <1>1, <3>1, <3>2 DEF Proceeds
 <2> QED BY <2>1, <2>2 DEF AnswersStand
<1>4. ASSUME NEW d \in Callers, d # c PROVE op'[d].job # None => op'[d].step \in {"posted", "stopposted"}
  BY <1>0, <1>1, <1>4 DEF PostsAreAwaited
<1>5. ASSUME NEW p \in posts, p.caller # None
      PROVE  /\ p.caller \in Callers
             /\ op[p.caller].step = IF p.kind = "create" THEN "posted" ELSE "stopposted"
             /\ op[p.caller].job = None
  BY <1>0, <1>5 DEF PostsAreAwaited, Posts
<1>6. op[c].step \notin {"posted", "stopposted"} => op[c].job = None
  BY <1>0 DEF PostsAreAwaited
<1>7. CASE /\ posts' = posts /\ op'[c].step \notin {"posted", "stopposted"}
           /\ (op[c].step \in {"posted", "stopposted"} => op[c].job # None)
           /\ \/ op'[c].job = None
              \/ op'[c].job = op[c].job /\ op[c].step \notin {"posted", "stopposted"}
 <2>1. ASSUME NEW p \in posts, p.caller # None
       PROVE  p.caller # c
   BY <1>5, <1>7, <2>1
 <2>2. op'[c].job = None
   BY <1>6, <1>7
 <2> QED BY <1>1, <1>3, <1>4, <1>5, <1>7, <2>1, <2>2 DEF PostsAreAwaited
<1>8. CASE posts' = Detached(c) /\ op'[c].job = None
 <2> DEFINE Left(p) == [p EXCEPT !.caller = IF p.caller = c THEN None ELSE p.caller]
 <2>1. posts' = {Left(p) : p \in posts}
   BY <1>8 DEF Detached
 <2>2. \A p \in posts : Left(p).kind = p.kind /\ Left(p).caller = IF p.caller = c THEN None ELSE p.caller
   BY <1>0 DEF Posts
 <2> HIDE DEF Left
 <2>3. ASSUME NEW q \in posts', q.caller # None
       PROVE  /\ op'[q.caller].step = IF q.kind = "create" THEN "posted" ELSE "stopposted"
              /\ op'[q.caller].job = None
  <3>1. PICK p \in posts : q = Left(p)
    BY <2>1, <2>3
  <3>2. q.caller = p.caller /\ q.kind = p.kind /\ p.caller # c
    BY <2>2, <2>3, <3>1
  <3> QED BY <1>1, <1>5, <2>3, <3>2
 <2> QED BY <1>3, <1>4, <1>8, <2>3 DEF PostsAreAwaited
<1>9. CASE /\ op[c].step \notin {"posted", "stopposted"} /\ op'[c].job = op[c].job
           /\ \E kind \in {"create", "stop"} :
                /\ posts' = posts \cup {[kind |-> kind, caller |-> c]}
                /\ op'[c].step = IF kind = "create" THEN "posted" ELSE "stopposted"
 <2>1. PICK kind \in {"create", "stop"} :
               /\ posts' = posts \cup {[kind |-> kind, caller |-> c]}
               /\ op'[c].step = IF kind = "create" THEN "posted" ELSE "stopposted"
   BY <1>9
 <2>2. op'[c].job = None
   BY <1>6, <1>9
 <2>3. ASSUME NEW p \in posts, p.caller # None
       PROVE  p.caller # c
   BY <1>5, <1>9, <2>3
 <2>4. ASSUME NEW q \in posts', q.caller # None
       PROVE  /\ op'[q.caller].step = IF q.kind = "create" THEN "posted" ELSE "stopposted"
              /\ op'[q.caller].job = None
  <3>1. CASE q \in posts
    BY <1>1, <1>5, <2>3, <2>4, <3>1
  <3>2. CASE q = [kind |-> kind, caller |-> c]
    BY <2>1, <2>2, <3>2
  <3> QED BY <2>1, <2>4, <3>1, <3>2
 <2> QED BY <1>3, <1>4, <2>2, <2>4 DEF PostsAreAwaited
<1> QED BY <1>0, <1>7, <1>8, <1>9, WorkProceeds

(* A caller that begins, goes on with or ends its use of the outbox has no
   answer to look after. *)
LEMMA TurnAsks ==
  ASSUME AskedInv, NEW c \in Callers, NEW s \in Calling \cup {"idle"}, UNCHANGED <<posts, entry>>,
         op[c].step \in {"idle", "done", "failed"}, op' = [op EXCEPT ![c] = [NoOp EXCEPT !.step = s]]
  PROVE  PostsAreAwaited' /\ AnswersStand'
<1>1. /\ op \in [Callers -> Ops] /\ posts \subseteq Posts /\ PostsAreAwaited /\ AnswersStand
  BY DEF AskedInv, OutboxInv, OutboxTypeOK
<1>2. /\ op'[c].job = None /\ op'[c].handle = None /\ op'[c].observation = None
      /\ \A d \in Callers \ {c} : op'[d] = op[d]
  BY <1>1 DEF NoOp
<1>4. ASSUME NEW p \in posts, p.caller # None
      PROVE  p.caller \in Callers /\ p.caller # c
  BY <1>1, <1>4 DEF PostsAreAwaited, Posts
<1>5. PostsAreAwaited'
  BY <1>1, <1>2, <1>4 DEF PostsAreAwaited
<1> QED BY <1>1, <1>2, <1>5 DEF AnswersStand

(* The provider answers those that wait, and nobody else. *)
LEMMA ProviderAsks ==
  ASSUME AskedInv, ProviderStep
  PROVE  /\ PostsAreAwaited' /\ AnswersStand' /\ entry' = entry
         /\ \A c \in Callers : op'[c].step = op[c].step /\ (op[c] = NoOp => op'[c] = NoOp)
<1>1. /\ op \in [Callers -> Ops] /\ posts \subseteq Posts /\ PostsAreAwaited /\ AnswersStand
  BY DEF AskedInv, OutboxInv, OutboxTypeOK
<1>2. entry' = entry
  BY DEF ProviderStep, Lose, CreateJob, StopJob, Accept, Advance
<1>3. CASE posts' \subseteq posts /\ op' = op
  BY <1>1, <1>2, <1>3 DEF PostsAreAwaited, AnswersStand
<1>4. ASSUME NEW p \in posts, NEW j \in Jobs, Accept(p, j)
      PROVE  /\ PostsAreAwaited' /\ AnswersStand'
             /\ \A c \in Callers : op'[c].step = op[c].step /\ (op[c] = NoOp => op'[c] = NoOp)
 <2>1. ASSUME NEW c \in Callers
       PROVE  /\ op'[c].step = op[c].step /\ op'[c].handle = op[c].handle
              /\ op'[c].observation = op[c].observation
              /\ op'[c] = op[c] \/ (c = p.caller /\ op[c].step \in {"posted", "stopposted"})
  <3>1. CASE c = p.caller
   <4>2. op[c].step \in {"posted", "stopposted"}
     BY <1>1, <3>1, PhaseFacts DEF PostsAreAwaited
   <4> QED BY <3>1, <1>1, <1>4, <4>2 DEF Ops, Accept
  <3>2. CASE c # p.caller
    BY <1>4, <3>2 DEF Accept
  <3> QED BY <3>1, <3>2
 <2>3. ASSUME NEW q \in posts', q.caller # None
       PROVE  q \in posts /\ q.caller \in Callers /\ q.caller # p.caller
  <3>1. q \in posts /\ q # p /\ q \in Posts /\ p \in Posts
    BY <1>1, <1>4, <2>3 DEF Accept
  <3>2. ASSUME q.caller = p.caller PROVE FALSE
   <4> QED BY <3>1, <3>2, <1>1, <2>3 DEF Posts, PostsAreAwaited
  <3> QED BY <2>3, <3>1, <3>2 DEF Posts
 <2>4. PostsAreAwaited'
   BY <1>1, <2>1, <2>3 DEF PostsAreAwaited
 <2> QED BY <2>1, <1>1, <1>2, <2>4 DEF NoOp, AnswersStand
<1> QED BY <1>2, <1>3, <1>4 DEF ProviderStep, Lose, CreateJob, StopJob, Advance

(* A stopped server waits for nothing. *)
LEMMA CrashAsks ==
  ASSUME AskedInv, OutboxCrash
  PROVE  PostsAreAwaited' /\ AnswersStand' /\ \A c \in Callers : op'[c] = NoOp
<1>3. ASSUME NEW q \in posts' PROVE q.caller = None
 <2>1. PICK p \in posts : q = [p EXCEPT !.caller = None]
   BY <1>3 DEF OutboxCrash
 <2> QED BY <2>1 DEF Posts, AskedInv, OutboxInv, OutboxTypeOK
<1> QED BY <1>3 DEF PostsAreAwaited, AnswersStand, NoOp, OutboxCrash

(* A POST that was asked for is answered once, and what was answered still
   holds, after every step at the outbox. *)
LEMMA OutboxAsks ==
  ASSUME AskedInv, [OutboxNext]_outboxVars
  PROVE  AskedInv'
<1>1. ASSUME NEW c \in Callers, OutboxWork(c) PROVE PostsAreAwaited' /\ AnswersStand'
  BY <1>1, WorkAsks
<1>2. ASSUME NEW c \in Callers, NEW kind \in Calling, Call(c, kind)
      PROVE  PostsAreAwaited' /\ AnswersStand'
 <2>1. op[c] = NoOp /\ op' = [op EXCEPT ![c] = [NoOp EXCEPT !.step = kind]]
   BY <1>2 DEF Call, Step, AskedInv, OutboxInv, OutboxTypeOK
 <2>2. op[c].step = "idle" /\ UNCHANGED <<posts, entry>>
   BY <1>2, <2>1 DEF Call, NoOp
 <2> QED BY <2>1, <2>2, TurnAsks
<1>3. ASSUME NEW c \in Callers, Return(c)
      PROVE  PostsAreAwaited' /\ AnswersStand'
 <2>2. /\ op' = [op EXCEPT ![c] = [NoOp EXCEPT !.step = "idle"]]
       /\ op[c].step \in {"done", "failed"} /\ UNCHANGED <<posts, entry>> BY <1>3 DEF Return, NoOp
 <2> HIDE DEF NoOp, Calling
 <2> QED BY <2>2, TurnAsks
<1>4. ASSUME UNCHANGED outboxVars PROVE PostsAreAwaited' /\ AnswersStand'
  BY <1>4 DEF outboxVars, AskedInv, PostsAreAwaited, AnswersStand
<1>5. PostsAreAwaited' /\ AnswersStand'
  BY <1>1, <1>2, <1>3, <1>4, CrashAsks, ProviderAsks DEF OutboxNext
<1> QED BY NextIsSound, <1>5 DEF AskedInv

(* So it does when execute goes on to observe the job at once. *)
LEMMA ExecutedAsks ==
  ASSUME AskedInv, NEW c \in Callers, op[c].step = "done",
         op' = [op EXCEPT ![c] = [NoOp EXCEPT !.step = "reconcile"]],
         UNCHANGED <<entry, outboxLock, provider, posts, sent>>
  PROVE  AskedInv' /\ EntryMoves
<1>2. /\ entry \in Entries /\ Loads(entry) /\ outboxLock \in Callers \cup {None}
      /\ op \in [Callers -> Ops] /\ OutboxInv
  BY DEF AskedInv, OutboxInv, OutboxTypeOK
<1>4. op' \in [Callers -> Ops] /\ Others(c) /\ op'[c].step = "reconcile" /\ op'[c].job = None
  BY <1>2, NoTypes DEF Others, NoOp, Ops, Calling
<1>6. PostsRemain
  BY <1>2, SamePosts DEF OutboxInv
<1>7. OutboxInv' BY <1>2, <1>4, RestIsSound, <1>6, Quietly DEF Unwritten, Holding
<1> QED BY TurnAsks, <1>2, <1>7, KeptEntry DEF AskedInv, Calling

------------
(* What the requests of the service carry, have put on file, and use of
   the outbox. *)
Threads == [step : ThreadSteps, command : AllCommands, late : BOOLEAN,
            action : Actions \cup {None}, other : Actions \cup {None}]

Waits(t) == t.step \in {"idle", "arrived", "refresh"}

Carries(t) ==
    /\ t.step # "idle" => t.action \in Actions
    /\ t.step \in {"plan", "link", "slot"} => t.other \in Actions
    /\ t.step \in {"prepare", "claim", "execute"} => t.command = "Execute"
    /\ t.step = "reconcile" => t.command \in {"Execute", "Reconcile"}

OnFile(t, theStatus, theOrigin, theSuccessor) ==
    /\ t.step \in {"plan", "link", "slot"} => theOrigin[t.other] = t.action
    /\ t.step = "slot" => theSuccessor[t.action] = t.other
    /\ t.step \in {"execute", "reconcile"} =>
         theStatus[t.action] = IF t.command = "Execute" THEN "EXECUTING" ELSE "RECONCILE_REQUIRED"
    /\ t.step = "cancel" => theStatus[t.action] = "VERIFIED"

Observing == {"reconcile", "observe", "commit", "find", "done", "failed"}
Fits(t, o) ==
    /\ t.step \in {"idle", "arrived", "claim", "plan", "link", "slot"} => o = NoOp
    /\ t.step = "prepare" => o.step \in {"prepare", "done", "failed"}
    /\ t.step = "execute" => o.step \in {"execute", "posting", "posted", "done", "failed"}
    /\ t.step \in {"reconcile", "refresh"} => o.step \in Observing
    /\ t.step = "cancel" => o.step \in {"stop", "stopping", "stopposted"} \cup Observing

FilesOK ==
    /\ status \in [Actions -> Statuses]
    /\ result \in [Actions -> Jobs \cup {None}]
    /\ expired \subseteq Actions
    /\ slot \in Actions
    /\ origin \in [Actions -> Actions \cup {None}]
    /\ successor \in [Actions -> Actions \cup {None}]
    /\ lock \in Callers \cup {None}

\* Only the holder of the lock is past its arrival, or refreshes without it.
OneAtWork == \A r \in Callers : Waits(thread[r]) \/ lock = r

RequestsAreServed ==
    /\ thread \in [Callers -> Threads]
    /\ \A r \in Callers : Carries(thread[r]) /\ OnFile(thread[r], status, origin, successor)

OutboxIsUsed == \A r \in Callers : Fits(thread[r], op[r])

ResultsAreRecorded ==
    \A a \in Actions :
        /\ result[a] # None => result[a] = entry.handle
        /\ status[a] = "VERIFIED" => result[a] # None /\ entry.observation # None

CloudInv ==
    /\ AskedInv
    /\ FilesOK
    /\ OneAtWork
    /\ RequestsAreServed
    /\ OutboxIsUsed
    /\ ResultsAreRecorded
    /\ AuthorityComesFirst

(* What the service shows follows from the invariant. *)
LEMMA CloudInvSound == CloudInv => CloudIsSound
<1> SUFFICES ASSUME CloudInv PROVE CloudIsSound
  OBVIOUS
<1>1. OutboxTypeOK /\ RecordIsTrue
  BY SoundIsTrue DEF CloudInv, AskedInv, OutboxInv
<1>2. TypeOK
  BY <1>1 DEF CloudInv, FilesOK, RequestsAreServed, Threads, OutboxIsUsed, Fits, TypeOK
<1>3. OneJobPerAttempt
  BY <1>1 DEF CloudInv, AskedInv, OutboxInv, EffectsHappenOnce, OneCreation, ResultsAreRecorded,
              FilesOK, OneJobPerAttempt
<1>5. ClaimantIsUndisturbed
  BY DEF CloudInv, RequestsAreServed, OnFile, ClaimantIsUndisturbed, Persisting, Claimed, Action
<1> QED BY <1>1, <1>2, <1>3, <1>5 DEF CloudIsSound, CloudInv

ThreadsStay == OneAtWork' /\ RequestsAreServed'

(* One request moves under the lock, or without touching what others read:
   all requests are still served. *)
LEMMA ThreadMoves ==
  ASSUME CloudInv, NEW r \in Callers, NEW t \in Threads,
         thread' = [thread EXCEPT ![r] = t],
         Carries(t), OnFile(t, status', origin', successor'),
         Waits(t) \/ lock' = r,
         lock \in {None, r} \/ UNCHANGED <<lock, status, origin, successor>>
  PROVE  ThreadsStay
<1>0. thread \in [Callers -> Threads] /\ None \notin Callers
  BY PhaseFacts DEF CloudInv, RequestsAreServed
<1>1. thread'[r] = t /\ thread' \in [Callers -> Threads]
  BY <1>0
<1>2. ASSUME NEW q \in Callers, q # r
      PROVE  /\ Waits(thread'[q]) \/ lock' = q
             /\ Carries(thread'[q]) /\ OnFile(thread'[q], status', origin', successor')
 <2>1. /\ thread'[q] = thread[q] /\ Carries(thread[q])
       /\ OnFile(thread[q], status, origin, successor)
       /\ Waits(thread[q]) \/ lock = q
   BY <1>0, <1>2 DEF CloudInv, RequestsAreServed, OneAtWork
 <2>2. CASE lock \in {None, r}
  <3>1. Waits(thread[q])
    BY <1>0, <1>2, <2>1, <2>2
  <3> QED BY <2>1, <3>1 DEF Waits, OnFile
 <2>3. CASE UNCHANGED <<lock, status, origin, successor>>
   BY <2>1, <2>3
 <2> QED BY <2>2, <2>3
<1>4. RequestsAreServed'
  BY <1>1, <1>2 DEF RequestsAreServed
<1> QED BY <1>1, <1>2, <1>4 DEF ThreadsStay, OneAtWork

(* A request ends: it waits for nothing and gives the lock up. *)
LEMMA LeaveStays ==
  ASSUME CloudInv, NEW r \in Callers, Leave(r),
         Waits(thread[r]) => UNCHANGED <<status, origin, successor>>
  PROVE  ThreadsStay
<1>1. NoThread \in Threads /\ NoThread.step = "idle"
  BY DEF NoThread, Threads, ThreadSteps, AllCommands
<1>3. thread' = [thread EXCEPT ![r] = NoThread] /\ (lock # r => lock' = lock)
  BY DEF Leave, Release
<1>4. Waits(thread[r]) \/ lock = r
  BY DEF CloudInv, OneAtWork
<1> QED BY <1>1, <1>3, <1>4, ThreadMoves DEF Carries, OnFile, Waits

(* The requests that nobody serves now are served as before. *)
LEMMA ThreadsAreKept ==
  ASSUME CloudInv, UNCHANGED <<thread, lock, status, origin, successor>>
  PROVE  ThreadsStay
  BY DEF CloudInv, ThreadsStay, OneAtWork, RequestsAreServed

(* Only the request that moved uses the outbox differently. *)
LEMMA FitsMoves ==
  ASSUME CloudInv, NEW r \in Callers,
         \A q \in Callers \ {r} : op'[q] = op[q] /\ thread'[q] = thread[q],
         Fits(thread'[r], op'[r])
  PROVE  OutboxIsUsed'
  BY DEF CloudInv, OutboxIsUsed

------------
(* What a step of the service records: a job that the outbox has, VERIFIED
   once it was observed, and no status that was passed already. *)
Commits ==
    \A a \in Actions :
        /\ result'[a] = result[a] \/ (result[a] = None /\ result'[a] = entry.handle)
        /\ status'[a] = "VERIFIED" =>
             status[a] = "VERIFIED" \/ (result'[a] # None /\ entry.observation # None)
        /\ status[a] = "VERIFIED" => status'[a] = "VERIFIED"
        /\ status[a] \in {"EXECUTING", "RECONCILE_REQUIRED"} =>
             status'[a] \notin {"NONE", "PREPARED"}
        /\ status[a] = "RECONCILE_REQUIRED" => status'[a] # "EXECUTING"

Served == FilesOK' /\ ThreadsStay /\ OutboxIsUsed' /\ Commits

(* A request that was arriving has done nothing yet, and its Action is one
   of the Attempt's. *)
LEMMA Arrived ==
  ASSUME CloudInv, NEW r \in Callers, NEW command \in AllCommands, Serves(r, command)
  PROVE  /\ thread[r] \in Threads /\ thread[r].step = "arrived" /\ thread[r].command = command
         /\ Action(r) \in Actions /\ op[r] = NoOp /\ lock = None
  BY DEF CloudInv, RequestsAreServed, Carries, OutboxIsUsed, Fits, Serves, Action

(* A call of a caller that has none under way, and the return of one. *)
LEMMA Called ==
  ASSUME CloudInv, NEW r \in Callers, NEW kind \in Calling, Call(r, kind)
  PROVE  op'[r].step = kind /\ \A q \in Callers \ {r} : op'[q] = op[q]
  BY DEF Call, Step, CloudInv, AskedInv, OutboxInv, OutboxTypeOK, Ops

LEMMA Returned ==
  ASSUME CloudInv, NEW r \in Callers, Return(r)
  PROVE  op'[r] = NoOp /\ \A q \in Callers \ {r} : op'[q] = op[q]
  BY DEF Return, CloudInv, AskedInv, OutboxInv, OutboxTypeOK

(* A request goes on with the lock it has, or gets, or does not need. *)
LEMMA StepStays ==
  ASSUME CloudInv, NEW r \in Callers, NEW s \in ThreadSteps,
         thread' = [thread EXCEPT ![r].step = s],
         Carries([thread[r] EXCEPT !.step = s]),
         OnFile([thread[r] EXCEPT !.step = s], status', origin', successor'),
         \/ lock = r /\ lock' = r
         \/ lock = None /\ lock' = r
         \/ (s = "refresh" /\ UNCHANGED <<lock, status, origin, successor>>)
  PROVE  /\ ThreadsStay /\ thread'[r] = [thread[r] EXCEPT !.step = s]
         /\ \A q \in Callers \ {r} : thread'[q] = thread[q]
<1>1. thread[r] \in Threads /\ thread \in [Callers -> Threads]
  BY DEF CloudInv, RequestsAreServed
<1> DEFINE t == [thread[r] EXCEPT !.step = s]
<1>2. t \in Threads /\ t.step = s /\ thread' = [thread EXCEPT ![r] = t]
  BY <1>1 DEF Threads
<1>3. Carries(t) /\ OnFile(t, status', origin', successor')
  OBVIOUS
<1>4. s = "refresh" => Waits(t)
  BY <1>2 DEF Waits
<1> HIDE DEF t
<1>6. ThreadsStay
  BY <1>2, <1>3, <1>4, ThreadMoves
<1> QED BY <1>1, <1>2, <1>6 DEF t

(* A request that ends has returned from the outbox. *)
LEMMA Ended ==
  ASSUME CloudInv, NEW r \in Callers, Leave(r)
  PROVE  thread'[r] = NoThread /\ \A q \in Callers \ {r} : thread'[q] = thread[q]
  BY DEF CloudInv, RequestsAreServed, Leave

LEMMA LeftFits ==
  ASSUME CloudInv, NEW r \in Callers, Leave(r),
         op'[r] = NoOp /\ \A q \in Callers \ {r} : op'[q] = op[q]
  PROVE  OutboxIsUsed'
<1> QED BY Ended, FitsMoves DEF Fits, NoThread

(* What is recorded stays recorded while no request commits. *)
LEMMA NothingCommitted ==
  ASSUME UNCHANGED <<status, result>>
  PROVE  Commits
  BY DEF Commits

------------
(* The requests that arrive and those that are refused. *)
LEMMA ArrivingServes ==
  ASSUME CloudInv,
         \/ \E r \in Callers, command \in Commands, a \in Actions : Arrive(r, command, a)
         \/ \E a \in Actions : Poll(a)
  PROVE  Served
<1>1. PICK r \in Callers, command \in AllCommands, a \in Actions : Arrives(r, command, a)
  BY CloudAssumption DEF Arrive, Poll, AllCommands
<1> DEFINE t == [NoThread EXCEPT !.step = "arrived", !.command = command, !.action = a,
                   !.late = command \in {"Renew", "Execute"} /\ a \in expired]
<1>2. /\ thread[r] = NoThread /\ thread' = [thread EXCEPT ![r] = t]
      /\ UNCHANGED <<outboxVars, saved, expired, lock>>
  BY <1>1 DEF Arrives
<1>3. t \in Threads /\ t.step = "arrived" /\ t.action = a
  BY DEF NoThread, Threads, ThreadSteps, AllCommands
<1> HIDE DEF t
<1>4. UNCHANGED <<status, result, slot, origin, successor, lock, expired, op>>
  BY <1>2 DEF saved, outboxVars
<1>5. ThreadsStay
  BY <1>2, <1>3, <1>4, ThreadMoves DEF Carries, OnFile, Waits
<1>6. op[r] = NoOp
  BY <1>2 DEF CloudInv, OutboxIsUsed, Fits, NoThread
<1>7. thread'[r] = t /\ \A q \in Callers \ {r} : thread'[q] = thread[q]
  BY <1>2 DEF CloudInv, RequestsAreServed
<1>8. OutboxIsUsed'
  BY <1>3, <1>4, <1>6, <1>7, FitsMoves DEF Fits
<1> QED BY <1>4, <1>5, <1>8, NothingCommitted DEF Served, CloudInv, FilesOK

(* A request that leaves, having used the outbox or not, without a commit. *)
LEMMA LeavingServes ==
  ASSUME CloudInv, NEW r \in Callers, Leave(r), FilesOK', Commits,
         Waits(thread[r]) => UNCHANGED <<status, origin, successor>>,
         Return(r) \/ (UNCHANGED op /\ op[r] = NoOp)
  PROVE  Served
  BY Returned, LeaveStays, LeftFits DEF Served

LEMMA LockStays ==
  ASSUME CloudInv, NEW r \in Callers, lock' \in {lock, r, None}
  PROVE  lock' \in Callers \cup {None}
  BY DEF CloudInv, FilesOK

LEMMA RefuseServes ==
  ASSUME CloudInv, NEW r \in Callers, Refuse(r) \/ End(r)
  PROVE  Served
<1>1. /\ Leave(r) /\ UNCHANGED <<saved, expired>>
      /\ Return(r) \/ (UNCHANGED outboxVars /\ thread[r].step \in {"arrived", "claim", "plan", "link", "slot"})
  BY DEF Refuse, End
<1>2. Return(r) \/ (UNCHANGED op /\ op[r] = NoOp)
  BY <1>1 DEF CloudInv, OutboxIsUsed, Fits, outboxVars
<1>3. FilesOK'
  BY <1>1, LockStays DEF CloudInv, FilesOK, saved, Leave, Release
<1> QED BY <1>1, <1>2, <1>3, LeavingServes, NothingCommitted DEF saved

------------
(* The steps of a renewal. *)
LEMMA BeginRenewServes ==
  ASSUME CloudInv, NEW r \in Callers, BeginRenew(r)
  PROVE  Served
<1>1. /\ thread[r] \in Threads /\ Action(r) \in Actions /\ op[r] = NoOp /\ lock = None
  BY Arrived DEF BeginRenew, AllCommands
<1>2. PICK b \in Actions \ {Action(r)} :
        /\ origin' = [origin EXCEPT ![b] = Action(r)]
        /\ Enter(r, [thread[r] EXCEPT !.step = "plan", !.other = b])
  BY DEF BeginRenew
<1> DEFINE t == [thread[r] EXCEPT !.step = "plan", !.other = b]
<1>3. t \in Threads /\ t.step = "plan" /\ t.other = b /\ t.action = Action(r)
  BY <1>1 DEF Threads, Action, ThreadSteps
<1>4. lock' = r /\ thread' = [thread EXCEPT ![r] = t]
  BY <1>2 DEF Enter
<1> HIDE DEF t
<1>5. /\ UNCHANGED <<status, result, slot, successor, expired, op>>
      /\ origin \in [Actions -> Actions \cup {None}]
  BY DEF BeginRenew, outboxVars, CloudInv, FilesOK
<1>6. Carries(t) /\ OnFile(t, status', origin', successor')
  BY <1>1, <1>2, <1>3, <1>5 DEF Carries, OnFile
<1>7. ThreadsStay
  BY <1>1, <1>3, <1>4, <1>6, ThreadMoves
<1>8. thread'[r] = t /\ \A q \in Callers \ {r} : thread'[q] = thread[q]
  BY <1>4 DEF CloudInv, RequestsAreServed
<1>9. OutboxIsUsed'
  BY <1>1, <1>3, <1>5, <1>8, FitsMoves DEF Fits
<1>10. FilesOK'
  BY <1>1, <1>2, <1>4, <1>5 DEF CloudInv, FilesOK
<1> QED BY <1>5, <1>7, <1>9, <1>10, NothingCommitted DEF Served

(* A request at one of its later steps holds the lock. *)
AtWork(r) ==
    /\ thread[r] \in Threads /\ Carries(thread[r]) /\ OnFile(thread[r], status, origin, successor)
    /\ lock = r /\ Action(r) \in Actions /\ Fits(thread[r], op[r])

LEMMA WorkerHasLock ==
  ASSUME CloudInv, NEW r \in Callers, ~ Waits(thread[r])
  PROVE  AtWork(r)
  BY DEF CloudInv, OneAtWork, RequestsAreServed, OutboxIsUsed, AtWork, Carries, Action, Waits

LEMMA RenewServes ==
  ASSUME CloudInv, NEW r \in Callers, SavePlan(r) \/ Link(r) \/ ReplaceSlot(r)
  PROVE  Served
<1>1. thread[r].step \in {"plan", "link", "slot"}
  BY DEF SavePlan, Link, ReplaceSlot, At
<1>2. AtWork(r) /\ op[r] = NoOp /\ thread[r].other \in Actions
  BY <1>1, WorkerHasLock DEF Waits, AtWork, Fits, Carries
<1>3. UNCHANGED op
  BY DEF SavePlan, Link, ReplaceSlot, outboxVars
<1>4. FilesOK
  BY DEF CloudInv
<1>5. ASSUME Leave(r), UNCHANGED <<status, result, expired, origin>>,
             successor' \in [Actions -> Actions \cup {None}], slot' \in Actions
      PROVE  Served
 <2>1. FilesOK'
   BY <1>4, <1>5, LockStays DEF FilesOK, Leave, Release
 <2> QED BY <1>1, <1>2, <1>3, <1>5, <2>1, LeavingServes, NothingCommitted DEF Waits
<1>6. ASSUME NEW s \in {"link", "slot"}, Continue(r, s), UNCHANGED <<result, expired, slot, origin>>,
             OnFile([thread[r] EXCEPT !.step = s], status', origin', successor'),
             FilesOK', Commits
      PROVE  Served
 <2>1. [thread[r] EXCEPT !.step = s] \in Threads /\ Carries([thread[r] EXCEPT !.step = s])
   BY <1>1, <1>2 DEF AtWork, Carries, Threads, ThreadSteps
 <2>2. /\ ThreadsStay /\ thread'[r] = [thread[r] EXCEPT !.step = s]
       /\ \A q \in Callers \ {r} : thread'[q] = thread[q]
   BY <1>2, <1>6, <2>1, StepStays DEF AtWork, Continue, ThreadSteps
 <2>4. OutboxIsUsed' BY <1>2, <1>3, <2>2, FitsMoves DEF Fits, AtWork, Threads
 <2> QED BY <1>6, <2>2, <2>4 DEF Served
<1>7. CASE SavePlan(r)
 <2> DEFINE b == thread[r].other
 <2>1. /\ status' = [status EXCEPT ![b] = IF status[b] = "NONE" THEN "PREPARED" ELSE status[b]]
       /\ Continue(r, "link") /\ UNCHANGED <<result, expired, slot, origin, successor>>
       /\ thread[r].step = "plan"
   BY <1>7 DEF SavePlan, At
 <2>2. FilesOK' /\ Commits
   BY <1>2, <1>4, <2>1 DEF FilesOK, Continue, Statuses, Commits
 <2> QED BY <1>6, <2>1, <2>2, <1>2 DEF AtWork, OnFile, Threads
<1>8. CASE Link(r)
 <2> DEFINE b == thread[r].other
 <2>1. /\ thread[r].step = "link" /\ UNCHANGED <<status, result, expired, slot, origin>>
       /\ \/ successor' = [successor EXCEPT ![Action(r)] = b] /\ Continue(r, "slot")
          \/ Leave(r) /\ UNCHANGED successor
   BY <1>8 DEF Link, At
 <2>2. CASE successor' = [successor EXCEPT ![Action(r)] = b] /\ Continue(r, "slot")
  <3>1. FilesOK' /\ Commits
    BY <1>2, <1>4, <2>1, <2>2, NothingCommitted DEF FilesOK, Continue
  <3>2. OnFile([thread[r] EXCEPT !.step = "slot"], status', origin', successor')
    BY <1>2, <1>4, <2>1, <2>2 DEF AtWork, OnFile, Threads, FilesOK, Action
  <3> QED BY <1>6, <2>1, <2>2, <3>1, <3>2
 <2>3. CASE Leave(r) /\ UNCHANGED successor
   BY <1>4, <1>5, <2>1, <2>3 DEF FilesOK
 <2> QED BY <2>1, <2>2, <2>3
<1>9. CASE ReplaceSlot(r)
  BY <1>2, <1>4, <1>5, <1>9 DEF ReplaceSlot, FilesOK
<1> QED BY <1>7, <1>8, <1>9

------------
(* A request that goes on and calls the outbox, or returns from it. *)
LEMMA GoesOnServes ==
  ASSUME CloudInv, NEW r \in Callers, NEW s \in ThreadSteps,
         thread' = [thread EXCEPT ![r].step = s],
         Carries([thread[r] EXCEPT !.step = s]),
         OnFile([thread[r] EXCEPT !.step = s], status', origin', successor'),
         \/ lock = r /\ lock' = r
         \/ lock = None /\ lock' = r
         \/ (s = "refresh" /\ UNCHANGED <<lock, status, origin, successor>>),
         \A q \in Callers \ {r} : op'[q] = op[q],
         Fits([thread[r] EXCEPT !.step = s], op'[r]),
         FilesOK', Commits
  PROVE  Served
  BY StepStays, FitsMoves DEF Served

LEMMA ExecuteServes ==
  ASSUME CloudInv, NEW r \in Callers, BeginExecute(r) \/ Prepared(r) \/ Claim(r) \/ Executed(r)
  PROVE  Served
<1>0. FilesOK /\ r # None
  BY PhaseFacts DEF CloudInv
<1>1. CASE BeginExecute(r)
 <2> DEFINE t == [thread[r] EXCEPT !.step = "prepare"]
 <2>1. /\ thread[r] \in Threads /\ thread[r].step = "arrived" /\ thread[r].command = "Execute"
       /\ Action(r) \in Actions /\ op[r] = NoOp /\ lock = None
   BY <1>1, Arrived DEF BeginExecute, AllCommands
 <2>2. /\ lock' = r /\ thread' = [thread EXCEPT ![r] = t]
       /\ Call(r, "prepare") /\ UNCHANGED <<saved, expired>>
   BY <1>1 DEF BeginExecute, Enters, Enter
 <2>4. op'[r].step = "prepare" /\ \A q \in Callers \ {r} : op'[q] = op[q]
   BY <2>2, Called DEF Calling
 <2>5. Carries(t) /\ OnFile(t, status', origin', successor') /\ Fits(t, op'[r])
   BY <2>1, <2>4 DEF Carries, OnFile, Fits, Threads, Action
 <2>6. FilesOK' /\ Commits
   BY <1>0, <2>2, NothingCommitted DEF FilesOK, saved
 <2> QED BY <2>1, <2>2, <2>4, <2>5, <2>6, GoesOnServes DEF ThreadSteps
<1>2. CASE Prepared(r)
 <2>1. /\ thread[r].step = "prepare" /\ Return(r) /\ UNCHANGED <<saved, expired>>
       /\ Continue(r, "claim") \/ Leave(r)
   BY <1>2 DEF Prepared, At
 <2>2. AtWork(r)
   BY <2>1, WorkerHasLock DEF Waits
 <2>3. op'[r] = NoOp /\ \A q \in Callers \ {r} : op'[q] = op[q]
   BY <2>1, Returned
 <2>4. CASE Continue(r, "claim")
  <3> DEFINE t == [thread[r] EXCEPT !.step = "claim"]
  <3>1. t.step = "claim" /\ t.command = "Execute" /\ t.action \in Actions
    BY <2>1, <2>2 DEF AtWork, Carries, Threads
  <3>2. Carries(t) /\ OnFile(t, status', origin', successor') /\ Fits(t, op'[r])
    BY <2>3, <3>1 DEF Carries, OnFile, Fits
  <3>3. FilesOK' /\ Commits
    BY <1>0, <2>1, <2>4, NothingCommitted DEF FilesOK, saved, Continue
  <3> QED BY <2>2, <2>3, <2>4, <3>2, <3>3, GoesOnServes DEF AtWork, Continue, ThreadSteps
 <2>5. CASE Leave(r)
  <3>1. FilesOK' /\ Commits
    BY <1>0, <2>1, <2>5, LockStays, NothingCommitted DEF FilesOK, saved, Leave, Release
  <3> QED BY <2>1, <2>5, <3>1, LeavingServes DEF saved
 <2> QED BY <2>1, <2>4, <2>5
<1>3. CASE Claim(r)
 <2>1. /\ thread[r].step = "claim" /\ UNCHANGED <<result, slot, origin, successor, expired>>
       /\ \/ /\ status[Action(r)] = "PREPARED"
             /\ status' = [status EXCEPT ![Action(r)] = "EXECUTING"]
             /\ Continue(r, "execute") /\ Call(r, "execute")
          \/ Leave(r) /\ UNCHANGED <<outboxVars, status>>
   BY <1>3 DEF Claim, At
 <2>2. AtWork(r) /\ op[r] = NoOp
   BY <2>1, WorkerHasLock DEF Waits, AtWork, Fits
 <2>3. CASE /\ status[Action(r)] = "PREPARED"
            /\ status' = [status EXCEPT ![Action(r)] = "EXECUTING"]
            /\ Continue(r, "execute") /\ Call(r, "execute")
  <3> DEFINE t == [thread[r] EXCEPT !.step = "execute"]
  <3>1. t.step = "execute" /\ t.command = "Execute" /\ t.action = Action(r)
    BY <2>1, <2>2 DEF AtWork, Carries, Threads, Action
  <3>2. op'[r].step = "execute" /\ \A q \in Callers \ {r} : op'[q] = op[q]
    BY <2>3, Called DEF Calling
  <3>3. FilesOK' /\ Commits
    BY <1>0, <2>1, <2>2, <2>3 DEF FilesOK, Continue, Statuses, Commits, AtWork
  <3>4. Carries(t) /\ OnFile(t, status', origin', successor') /\ Fits(t, op'[r])
    BY <1>0, <2>2, <2>3, <3>1, <3>2 DEF Carries, OnFile, Fits, AtWork, FilesOK
  <3> QED BY <2>2, <2>3, <3>2, <3>3, <3>4, GoesOnServes DEF AtWork, Continue, ThreadSteps
 <2>4. CASE Leave(r) /\ UNCHANGED <<outboxVars, status>>
  <3>1. FilesOK' /\ Commits
    BY <1>0, <2>1, <2>4, LockStays, NothingCommitted DEF FilesOK, Leave, Release
  <3> QED BY <2>1, <2>2, <2>4, <3>1, LeavingServes DEF outboxVars
 <2> QED BY <2>1, <2>3, <2>4
<1>4. CASE Executed(r)
 <2> DEFINE t == [thread[r] EXCEPT !.step = "reconcile"]
 <2>1. /\ thread[r].step = "execute" /\ Continue(r, "reconcile") /\ UNCHANGED <<saved, expired>>
       /\ op' = [op EXCEPT ![r] = [NoOp EXCEPT !.step = "reconcile"]]
   BY <1>4 DEF Executed, At
 <2>2. AtWork(r)
   BY <2>1, WorkerHasLock DEF Waits
 <2>3. t.step = "reconcile" /\ t.command = "Execute" /\ t.action = thread[r].action
   BY <2>1, <2>2 DEF AtWork, Carries, Threads
 <2>4. op'[r].step = "reconcile" /\ \A q \in Callers \ {r} : op'[q] = op[q]
   BY <2>1 DEF CloudInv, AskedInv, OutboxInv, OutboxTypeOK, NoOp
 <2>5. Carries(t) /\ OnFile(t, status', origin', successor') /\ Fits(t, op'[r])
   BY <2>1, <2>2, <2>3, <2>4 DEF AtWork, Carries, OnFile, Fits, saved, Action, Observing
 <2>6. FilesOK' /\ Commits
   BY <1>0, <2>1, NothingCommitted DEF FilesOK, saved, Continue
 <2> QED BY <2>1, <2>2, <2>4, <2>5, <2>6, GoesOnServes DEF AtWork, Continue, ThreadSteps
<1> QED BY <1>1, <1>2, <1>3, <1>4

(* The requests that find out what became of the job, and those that stop
   it. *)
LEMMA ObserveServes ==
  ASSUME CloudInv, NEW r \in Callers, BeginReconcile(r) \/ BeginRefresh(r) \/ BeginCancel(r)
  PROVE  Served
<1>0. FilesOK /\ r # None
  BY PhaseFacts DEF CloudInv
<1> DEFINE With(s) == [thread[r] EXCEPT !.step = s]
<1>1. CASE BeginReconcile(r)
 <2>1. /\ thread[r] \in Threads /\ thread[r].step = "arrived" /\ thread[r].command = "Reconcile"
       /\ Action(r) \in Actions /\ op[r] = NoOp /\ lock = None
   BY <1>1, Arrived DEF BeginReconcile, AllCommands
 <2>2. /\ lock' = r /\ thread' = [thread EXCEPT ![r] = With("reconcile")]
       /\ status[Action(r)] \in {"EXECUTING", "RECONCILE_REQUIRED"}
       /\ status' = [status EXCEPT ![Action(r)] = "RECONCILE_REQUIRED"]
       /\ Call(r, "reconcile") /\ UNCHANGED <<result, slot, origin, successor, expired>>
   BY <1>1 DEF BeginReconcile, Enters, Enter
 <2>3. /\ With("reconcile").step = "reconcile" /\ With("reconcile").command = "Reconcile"
       /\ With("reconcile").action = Action(r)
   BY <2>1 DEF Threads, Action
 <2>4. op'[r].step = "reconcile" /\ \A q \in Callers \ {r} : op'[q] = op[q]
   BY <2>2, Called DEF Calling
 <2>5. FilesOK' /\ Commits
   BY <1>0, <2>1, <2>2 DEF FilesOK, Statuses, Commits
 <2>6. /\ Carries(With("reconcile")) /\ Fits(With("reconcile"), op'[r])
       /\ OnFile(With("reconcile"), status', origin', successor')
   BY <1>0, <2>1, <2>2, <2>3, <2>4 DEF Carries, OnFile, Fits, Observing, FilesOK
 <2> QED BY <2>1, <2>2, <2>4, <2>5, <2>6, GoesOnServes DEF ThreadSteps
<1>2. CASE BeginRefresh(r)
 <2>1. /\ thread[r] \in Threads /\ thread[r].step = "arrived"
       /\ Action(r) \in Actions /\ op[r] = NoOp /\ lock = None
   BY <1>2, Arrived DEF BeginRefresh, AllCommands
 <2>2. /\ UNCHANGED <<lock, status, result, slot, origin, successor, expired>>
       /\ thread' = [thread EXCEPT ![r] = With("refresh")]
       /\ Call(r, "reconcile")
   BY <1>2 DEF BeginRefresh, Continue, saved
 <2>3. With("refresh").step = "refresh" /\ With("refresh").action = Action(r)
   BY <2>1 DEF Threads, Action
 <2>4. op'[r].step = "reconcile" /\ \A q \in Callers \ {r} : op'[q] = op[q]
   BY <2>2, Called DEF Calling
 <2>5. FilesOK' /\ Commits
   BY <1>0, <2>2, NothingCommitted DEF FilesOK
 <2>6. /\ Carries(With("refresh")) /\ Fits(With("refresh"), op'[r])
       /\ OnFile(With("refresh"), status', origin', successor')
   BY <2>1, <2>3, <2>4 DEF Carries, OnFile, Fits, Observing
 <2> QED BY <2>2, <2>4, <2>5, <2>6, GoesOnServes DEF ThreadSteps
<1>3. CASE BeginCancel(r)
 <2>1. /\ thread[r] \in Threads /\ thread[r].step = "arrived"
       /\ Action(r) \in Actions /\ op[r] = NoOp /\ lock = None
   BY <1>3, Arrived DEF BeginCancel, AllCommands
 <2>2. PICK kind \in {"reconcile", "stop"} :
       /\ lock' = r /\ thread' = [thread EXCEPT ![r] = With("cancel")]
       /\ status[Action(r)] = "VERIFIED" /\ Call(r, kind)
       /\ UNCHANGED <<status, result, slot, origin, successor, expired>>
   BY <1>3 DEF BeginCancel, Enters, Enter, saved
 <2>3. With("cancel").step = "cancel" /\ With("cancel").action = Action(r)
   BY <2>1 DEF Threads, Action
 <2>4. op'[r].step = kind /\ \A q \in Callers \ {r} : op'[q] = op[q]
   BY <2>2, Called DEF Calling
 <2>5. FilesOK' /\ Commits
   BY <1>0, <2>2, NothingCommitted DEF FilesOK
 <2>6. /\ Carries(With("cancel")) /\ Fits(With("cancel"), op'[r])
       /\ OnFile(With("cancel"), status', origin', successor')
   BY <2>1, <2>2, <2>3, <2>4 DEF Carries, OnFile, Fits, Observing
 <2> QED BY <2>1, <2>2, <2>4, <2>5, <2>6, GoesOnServes DEF ThreadSteps
<1> QED BY <1>1, <1>2, <1>3

(* A request commits its outcome on top of its own status: the job that
   the outbox answered, VERIFIED only with an observation. *)
LEMMA FinishServes ==
  ASSUME CloudInv, NEW r \in Callers, Finish(r)
  PROVE  Served
<1> DEFINE a == Action(r)
           known == IF op[r].handle # None THEN op[r].handle ELSE result[a]
<1>1. /\ thread[r].step \in {"execute", "reconcile"} /\ Return(r) /\ Leave(r)
      /\ UNCHANGED <<slot, origin, successor, expired>>
  BY DEF Finish, Persisting
<1>2. AtWork(r) /\ FilesOK /\ op[r] \in Ops
  BY <1>1, WorkerHasLock DEF Waits, CloudInv, AskedInv, OutboxInv, OutboxTypeOK
<1>3. status[a] \in {"EXECUTING", "RECONCILE_REQUIRED"}
  BY <1>1, <1>2 DEF AtWork, OnFile, Action
<1>4. /\ op[r].handle # None => op[r].handle = entry.handle
      /\ op[r].observation # None => entry.observation # None
      /\ known \in Jobs \cup {None}
  BY <1>2 DEF CloudInv, AskedInv, AnswersStand, Ops, FilesOK, AtWork
<1>5. \/ UNCHANGED <<status, result>>
      \/ /\ result[a] \in {None, known} /\ result' = [result EXCEPT ![a] = known]
         /\ \E to \in Resolved(r) : status' = [status EXCEPT ![a] = to]
  BY DEF Finish
<1> HIDE DEF known
<1>6. CASE UNCHANGED <<status, result>>
 <2>1. FilesOK' /\ Commits
   BY <1>1, <1>2, <1>6, LockStays, NothingCommitted DEF FilesOK, Leave, Release
 <2> QED BY <1>1, <2>1, LeavingServes DEF Waits
<1>7. CASE /\ result[a] \in {None, known} /\ result' = [result EXCEPT ![a] = known]
           /\ \E to \in Resolved(r) : status' = [status EXCEPT ![a] = to]
 <2>1. PICK to \in Resolved(r) : status' = [status EXCEPT ![a] = to]
   BY <1>7
 <2>2. /\ to \in {"RECONCILE_REQUIRED", "VERIFIED"}
       /\ to = "VERIFIED" => op[r].handle # None /\ op[r].observation # None
   BY DEF Resolved
 <2>3. FilesOK'
   BY <1>1, <1>2, <1>4, <1>7, <2>1, <2>2, LockStays DEF FilesOK, Leave, Release, Statuses
 <2>4. /\ result'[a] = known /\ status'[a] = to /\ a \in Actions
       /\ \A b \in Actions \ {a} : result'[b] = result[b] /\ status'[b] = status[b]
   BY <1>2, <1>7, <2>1 DEF FilesOK, AtWork
 <2>5. known = result[a] \/ (result[a] = None /\ known = entry.handle)
   BY <1>4, <1>7 DEF known
 <2>7. Commits BY <1>3, <2>2, <2>4, <2>5, <1>4 DEF Commits, known
 <2> QED BY <1>1, <2>3, <2>7, LeavingServes DEF Waits
<1> QED BY <1>5, <1>6, <1>7

(* The steps at the outbox, the provider's, a stop of the server and the
   clock leave the files of the service alone. *)
LEMMA RestServes ==
  ASSUME CloudInv,
         \/ \E r \in Callers : OutboxWork(r) /\ UNCHANGED serviceVars
         \/ ProviderStep /\ UNCHANGED serviceVars
         \/ Crash \/ (\E a \in Actions : Expire(a)) \/ UNCHANGED vars
  PROVE  Served
<1>0. FilesOK
  BY DEF CloudInv
<1>1. ASSUME UNCHANGED serviceVars
      PROVE  FilesOK' /\ ThreadsStay /\ Commits /\ UNCHANGED thread
  BY <1>0, <1>1, ThreadsAreKept, NothingCommitted DEF FilesOK, serviceVars, saved
<1>2. ASSUME NEW r \in Callers, OutboxWork(r), UNCHANGED serviceVars
      PROVE  Served
 <2>1. /\ op[r].step \in Calling \cup Working
       /\ \A U \in Undertakings : op[r].step \in U => op'[r].step \in U
       /\ \A q \in Callers \ {r} : op'[q] = op[q]
   BY <1>2, WorkProceeds DEF CloudInv, AskedInv, Proceeds, Others
 <2>2. Fits(thread[r], op[r]) /\ thread[r].step \in ThreadSteps /\ op[r] # NoOp
   BY <2>1 DEF CloudInv, OutboxIsUsed, RequestsAreServed, Threads, Calling, Working, NoOp
 <2>3. Fits(thread[r], op'[r])
   BY <2>1, <2>2 DEF Fits, Undertakings, Observing, ThreadSteps, Calling, Working
 <2> QED BY <1>1, <1>2, <2>1, <2>3, FitsMoves DEF Served
<1>3. CASE ProviderStep /\ UNCHANGED serviceVars
 <2>2. OutboxIsUsed' BY <1>1, <1>3, ProviderAsks DEF CloudInv, OutboxIsUsed, Fits
 <2> QED BY <1>1, <1>3, <2>2 DEF Served
<1>4. CASE Crash
 <2>1. /\ thread' = [r \in Callers |-> NoThread] /\ lock' = None /\ OutboxCrash
       /\ UNCHANGED <<status, result, slot, origin, successor, expired>>
   BY <1>4 DEF Crash, saved
 <2>2. \A r \in Callers : thread'[r] = NoThread /\ op'[r] = NoOp
   BY <2>1 DEF OutboxCrash
 <2>3. NoThread \in Threads /\ NoThread.step = "idle"
   BY DEF NoThread, Threads, ThreadSteps, AllCommands
 <2>4. ThreadsStay
   BY <2>1, <2>2, <2>3 DEF ThreadsStay, OneAtWork, RequestsAreServed, Waits, Carries, OnFile
 <2>6. FilesOK' /\ Commits
   BY <1>0, <2>1, NothingCommitted DEF FilesOK
 <2> QED BY <2>4, <2>2, <2>3, <2>6 DEF Served, OutboxIsUsed, Fits
<1>5. ASSUME NEW a \in Actions, Expire(a)
      PROVE  Served
 <2>1. /\ expired' = expired \cup {a}
       /\ UNCHANGED <<op, status, result, slot, origin, successor, lock, thread>>
   BY <1>5 DEF Expire, outboxVars, saved
 <2>2. FilesOK' /\ OutboxIsUsed'
   BY <1>0, <2>1 DEF FilesOK, CloudInv, OutboxIsUsed
 <2> QED BY <2>1, <2>2, ThreadsAreKept, NothingCommitted DEF Served
<1>6. CASE UNCHANGED vars
 <2> QED BY <1>1, <1>6 DEF Served, CloudInv, OutboxIsUsed, vars, outboxVars
<1> QED BY <1>2, <1>3, <1>4, <1>5, <1>6

------------
(* Every step of the service is a step at its outbox, or goes on from one
   operation to the next: what is asked and answered there stands. *)
LEMMA ServiceAsks ==
  ASSUME CloudInv, [Next]_vars
  PROVE  AskedInv' /\ EntryMoves
<1>1. CASE [OutboxNext]_outboxVars
  BY <1>1, OutboxAsks, EveryStepMoves DEF CloudInv, AskedInv
<1>2. CASE \E r \in Callers : Executed(r)
  BY <1>2, ExecutedAsks DEF CloudInv, Executed
<1>3. ASSUME NEW r \in Callers, Work(r), ~ Executed(r)
      PROVE  [OutboxNext]_outboxVars
 <2>1. Return(r) \/ OutboxWork(r) \/ (\E kind \in Calling : Call(r, kind)) \/ UNCHANGED outboxVars
   BY <1>3 DEF Work, Refuse, BeginRenew, SavePlan, Link, ReplaceSlot, BeginExecute, Prepared,
               Claim, BeginReconcile, Finish, BeginRefresh, BeginCancel, End, Calling
 <2> QED BY <2>1 DEF OutboxNext
<1>4. UNCHANGED vars \/ Crash \/ (\E a \in Actions : Expire(a) \/ Poll(a)) \/ ProviderStep
        \/ (\E r \in Callers, command \in Commands, a \in Actions : Arrive(r, command, a))
      => [OutboxNext]_outboxVars
  BY DEF vars, Crash, Expire, Poll, Arrive, Arrives, OutboxNext
<1> QED BY <1>1, <1>2, <1>3, <1>4 DEF Next

(* Every step serves. *)
LEMMA NextServes ==
  ASSUME CloudInv, [Next]_vars
  PROVE  Served
<1>1. ASSUME NEW r \in Callers, Work(r)
      PROVE  Served
  BY <1>1, RefuseServes, BeginRenewServes, RenewServes, ExecuteServes, ObserveServes,
     FinishServes, RestServes DEF Work
<1> QED BY <1>1, ArrivingServes, RestServes DEF Next

(* The markers of the outbox are set under a claim, or under the ownership
   of the job. *)
LEMMA MarkedByWork ==
  ASSUME OutboxInv, NEW c \in Callers, OutboxWork(c)
  PROVE  /\ entry'.started => entry.started \/ op[c].step = "execute"
         /\ entry'.cancelling => entry.cancelling \/ op[c].step = "stop"
<1>1. entry \in Entries
  BY DEF OutboxInv, OutboxTypeOK
<1>2. \A s : \A e \in Entries : /\ Observed(e, s).started = e.started
                               /\ Observed(e, s).cancelling = e.cancelling
  BY DEF Observed, Entries
<1>3. Diagnosed(entry).started = entry.started /\ Diagnosed(entry).cancelling = entry.cancelling
  BY <1>1 DEF Diagnosed, Entries
<1>4. CASE entry' = entry
  BY <1>4
<1>5. CASE Prepare(c)
  BY <1>1, <1>5 DEF Prepare, Entries
<1>6. CASE Execute(c)
  BY <1>1, <1>6 DEF Execute, Locked, Entries
<1>7. CASE CreateAnswered(c)
  BY <1>1, <1>7 DEF CreateAnswered, Save, Entries
<1>8. CASE EffectFails(c)
  BY <1>3, <1>8 DEF EffectFails, Save
<1>9. CASE Commit(c)
  BY <1>1, <1>2, <1>3, <1>9 DEF Commit, Save
<1>10. ASSUME Find(c)
       PROVE  entry'.started = entry.started /\ entry'.cancelling = entry.cancelling
 <2>1. CASE entry' = Diagnosed(entry)
   BY <1>3, <2>1
 <2>2. CASE entry' = [entry EXCEPT !.diagnostic = FALSE]
   BY <1>1, <2>2 DEF Entries
 <2>3. ASSUME NEW j \in Jobs, entry' = Observed([entry EXCEPT !.handle = j], provider[j])
       PROVE  entry'.started = entry.started /\ entry'.cancelling = entry.cancelling
  <3> QED BY <1>2, <2>3, <1>1 DEF Entries
 <2> QED BY <1>10, <2>1, <2>2, <2>3 DEF Find, Save
<1>11. CASE Stop(c)
  BY <1>1, <1>11 DEF Stop, Locked, Entries
<1>12. CASE PostStop(c)
  BY <1>1, <1>2, <1>12 DEF PostStop, Save
<1>13. CASE StopAnswered(c)
  BY <1>1, <1>2, <1>13 DEF StopAnswered, Save
<1> QED BY <1>4, <1>5, <1>6, <1>7, <1>8, <1>9, <1>10, <1>11, <1>12, <1>13
        DEF OutboxWork, PostCreate, Reconcile, Observe, Abort

LEMMA MarkersNeedClaims ==
  ASSUME CloudInv, [Next]_vars
  PROVE  /\ entry'.started =>
              entry.started \/ \E a \in Actions : status[a] \notin {"NONE", "PREPARED"}
         /\ entry'.cancelling =>
              entry.cancelling \/ \E a \in Actions : status[a] = "VERIFIED"
<1>1. ASSUME NEW r \in Callers, OutboxWork(r)
      PROVE  /\ entry'.started =>
                  entry.started \/ \E a \in Actions : status[a] \notin {"NONE", "PREPARED"}
             /\ entry'.cancelling =>
                  entry.cancelling \/ \E a \in Actions : status[a] = "VERIFIED"
 <2>1. /\ Fits(thread[r], op[r]) /\ thread[r] \in Threads /\ Carries(thread[r])
       /\ OnFile(thread[r], status, origin, successor)
   BY DEF CloudInv, OutboxIsUsed, RequestsAreServed
 <2>2. op[r].step = "execute" => thread[r].step = "execute"
   BY <2>1 DEF Fits, Threads, ThreadSteps, NoOp, Observing
 <2>3. op[r].step = "stop" => thread[r].step = "cancel"
   BY <2>1 DEF Fits, Threads, ThreadSteps, NoOp, Observing
 <2>4. thread[r].step = "execute" => thread[r].action \in Actions /\ status[thread[r].action] = "EXECUTING"
   BY <2>1 DEF Carries, OnFile
 <2>5. thread[r].step = "cancel" => thread[r].action \in Actions /\ status[thread[r].action] = "VERIFIED"
   BY <2>1 DEF Carries, OnFile
 <2>6. entry'.started => entry.started \/ op[r].step = "execute"
   BY <1>1, MarkedByWork DEF CloudInv, AskedInv
 <2>7. entry'.cancelling => entry.cancelling \/ op[r].step = "stop"
   BY <1>1, MarkedByWork DEF CloudInv, AskedInv
 <2> QED BY <2>2, <2>3, <2>4, <2>5, <2>6, <2>7
<1>2. (\E r \in Callers : OutboxWork(r)) \/ entry' = entry
 <2>1. ASSUME NEW r \in Callers, Work(r)
       PROVE  OutboxWork(r) \/ entry' = entry
   BY <2>1 DEF Work, Refuse, BeginRenew, SavePlan, Link, ReplaceSlot, BeginExecute, Prepared,
               Claim, Executed, BeginReconcile, Finish, BeginRefresh, BeginCancel, End,
               outboxVars, Call, Return
 <2>2. ProviderStep => entry' = entry
   BY DEF ProviderStep, Lose, CreateJob, StopJob, Accept, Advance
 <2> QED BY <2>1, <2>2 DEF Next, vars, Crash, OutboxCrash, Expire, Poll, Arrive, Arrives, outboxVars
<1> QED BY <1>1, <1>2

------------
(* The invariant is inductive. *)
LEMMA CloudStarts == Init => CloudInv
<1> SUFFICES ASSUME Init PROVE CloudInv
  OBVIOUS
<1>1. OutboxInv /\ posts = {} /\ entry = NoEntry /\ \A c \in Callers : op[c] = NoOp
  BY InitIsSound DEF Init, OutboxInit
<1>2. AskedInv
  BY <1>1 DEF AskedInv, PostsAreAwaited, AnswersStand, NoOp
<1>3. FilesOK
  BY DEF Init, FilesOK, Statuses
<1>4. NoThread \in Threads /\ NoThread.step = "idle" /\ thread = [r \in Callers |-> NoThread]
  BY DEF Init, NoThread, Threads, ThreadSteps, AllCommands
<1>5. OneAtWork /\ RequestsAreServed
  BY <1>4 DEF OneAtWork, RequestsAreServed, Waits, Carries, OnFile
<1>6. OutboxIsUsed
  BY <1>1, <1>4 DEF OutboxIsUsed, Fits
<1>7. ResultsAreRecorded /\ AuthorityComesFirst
  BY <1>1 DEF Init, ResultsAreRecorded, AuthorityComesFirst, NoEntry
<1> QED BY <1>2, <1>3, <1>5, <1>6, <1>7 DEF CloudInv

LEMMA CloudInvKeeps == CloudInv /\ [Next]_vars => CloudInv' /\ Commits
<1> SUFFICES ASSUME CloudInv, [Next]_vars PROVE CloudInv' /\ Commits
  OBVIOUS
<1>1. AskedInv' /\ EntryMoves /\ Served
  BY ServiceAsks, NextServes
<1>2. Commits /\ ResultsAreRecorded /\ AuthorityComesFirst
  BY <1>1 DEF Served, CloudInv
<1>3. ResultsAreRecorded'
 <2> SUFFICES ASSUME NEW a \in Actions
              PROVE  /\ result'[a] # None => result'[a] = entry'.handle
                     /\ status'[a] = "VERIFIED" => result'[a] # None /\ entry'.observation # None
   BY DEF ResultsAreRecorded
 <2>2. entry.handle # None => entry'.handle = entry.handle
   BY <1>1 DEF EntryMoves
 <2>3. status'[a] = "VERIFIED" => result'[a] # None /\ entry.observation # None
   BY <1>2 DEF Commits, ResultsAreRecorded
 <2>4. entry.observation # None => entry'.observation # None
   BY <1>1 DEF EntryMoves
 <2> QED BY <1>2, <2>2, <2>3, <2>4 DEF Commits, ResultsAreRecorded
<1>4. AuthorityComesFirst'
 <2>1. FilesOK /\ FilesOK'
   BY <1>1 DEF Served, CloudInv
 <2>2. ASSUME NEW a \in Actions, status[a] \notin {"NONE", "PREPARED"}
       PROVE  status'[a] \notin {"NONE", "PREPARED"}
   BY <1>2, <2>1, <2>2 DEF Commits, FilesOK, Statuses
 <2>3. ASSUME NEW a \in Actions, status[a] = "VERIFIED"
       PROVE  status'[a] = "VERIFIED"
   BY <1>2, <2>3 DEF Commits
 <2> QED BY <1>2, <2>2, <2>3, MarkersNeedClaims DEF AuthorityComesFirst
<1> QED BY <1>1, <1>2, <1>3, <1>4 DEF Served, ThreadsStay, CloudInv

(* For every number of requests, Actions and provider jobs: an Attempt has
   one job, created under a claim and stopped under the ownership of it,
   the Actions that name a job name that one, and a claim is disturbed by
   no other request, in every interleaving with late answers and restarts. *)
THEOREM CloudAttemptIsSound == Spec => []CloudIsSound
<1> QED BY CloudStarts, CloudInvKeeps, CloudInvSound, PTL DEF Spec

(* The slot gives way to the linked replacement of what it held, only. *)
LEMMA SlotMoves ==
  ASSUME CloudInv, [Next]_vars, slot' # slot
  PROVE  origin[slot'] = slot /\ successor[slot] = slot'
<1>1. PICK r \in Callers : ReplaceSlot(r)
 <2>1. ASSUME NEW r \in Callers, Work(r) PROVE ReplaceSlot(r) \/ slot' = slot
   BY <2>1 DEF Work, Refuse, BeginRenew, SavePlan, Link, BeginExecute, Prepared,
               Claim, Executed, BeginReconcile, Finish, BeginRefresh, BeginCancel, End,
               saved, serviceVars
 <2> QED BY <2>1 DEF Next, vars, Crash, Expire, Poll, Arrive, Arrives, saved, serviceVars
<1> QED BY <1>1 DEF CloudInv, RequestsAreServed, OnFile, Action, ReplaceSlot, At

(* No request and no restart takes back what is known of a job or what was
   begun for it, and an older renewal never moves the slot back over a
   newer one. *)
THEOREM CloudNeverGoesBack == Spec => CloudOnlyAdvances
<1>1. CloudInv /\ [Next]_vars =>
        [\A a \in Actions :
           /\ result[a] # None => result'[a] = result[a]
           /\ status[a] = "VERIFIED" => status'[a] = "VERIFIED"
           /\ status[a] \in {"EXECUTING", "RECONCILE_REQUIRED"} =>
                status'[a] \notin {"NONE", "PREPARED"}
           /\ status[a] = "RECONCILE_REQUIRED" => status'[a] # "EXECUTING"]_vars
  BY CloudInvKeeps DEF Commits
<1>2. CloudInv /\ [Next]_vars =>
        [slot' # slot => origin[slot'] = slot /\ successor[slot] = slot']_vars
  BY SlotMoves
<1> QED BY <1>1, <1>2, CloudStarts, CloudInvKeeps, PTL
        DEF Spec, CloudOnlyAdvances, KnownIsKept, SlotMovesForward
=============================================================================

---------------------------- MODULE CloudOutbox ----------------------------
(* The outbox of the cloud backend: one entry per Attempt, kept in a file
   under .cloud-effects.lock, through which every caller creates, finds,
   observes and stops the provider's job.  A POST may be answered late or
   never, and may be executed after its caller has given up on it. *)
EXTENDS RunState, Integers

CONSTANTS
    Callers,        \* the requests and the observer that use the outbox
    Jobs,           \* identities the provider gives to jobs
    ProviderStates, \* the states of a job this instance tells apart
    None

\* How far a job is.  Provider restart is off, so it never moves back.
Phase == [QUEUED |-> 0, STARTING |-> 1, RUNNING |-> 2,
          SUCCEEDED |-> 3, FAILED |-> 3, CANCELLED |-> 3]

ASSUME OutboxAssumption ==
    /\ {"QUEUED", "CANCELLED"} \subseteq ProviderStates
    /\ ProviderStates \subseteq DOMAIN Phase
    /\ None \notin Callers \cup Jobs \cup ProviderStates

VARIABLES
    entry,      \* the entry of the Attempt's job
    outboxLock, \* the holder of .cloud-effects.lock
    op,         \* the outbox operation of each caller
    provider,   \* the state of each job at the provider
    posts,      \* POST requests on their way
    sent        \* how many of each kind were ever sent

outboxVars == <<entry, outboxLock, op, provider, posts, sent>>

NoEntry == [exists |-> FALSE, started |-> FALSE, handle |-> None, cancelling |-> FALSE,
            terminated |-> FALSE, observation |-> None, diagnostic |-> FALSE]
NoOp == [step |-> "idle", read |-> NoEntry, seen |-> None, job |-> None,
         handle |-> None, observation |-> None]

Entries == [exists : BOOLEAN, started : BOOLEAN, handle : Jobs \cup {None},
            cancelling : BOOLEAN, terminated : BOOLEAN,
            observation : ProviderStates \cup {None}, diagnostic : BOOLEAN]
Calling == {"prepare", "execute", "reconcile", "stop"}
Working == {"posting", "posted", "observe", "commit", "find", "stopping", "stopposted"}
Ops == [step : Calling \cup Working \cup {"idle", "done", "failed"}, read : Entries,
        seen : ProviderStates \cup {None}, job : Jobs \cup {None},
        handle : Jobs \cup {None}, observation : ProviderStates \cup {None}]
Posts == [kind : {"create", "stop"}, caller : Callers \cup {None}]

OutboxInit ==
    /\ entry = NoEntry
    /\ outboxLock = None
    /\ op = [c \in Callers |-> NoOp]
    /\ provider = [j \in Jobs |-> None]
    /\ posts = {}
    /\ sent = [create |-> 0, stop |-> 0]

------------
Locked(c, step) == op[c].step = step /\ outboxLock = None /\ entry.exists
Step(c, step) == op' = [op EXCEPT ![c].step = step]

\* view: what the caller is told of an entry.
View(e) == [NoOp EXCEPT !.step = "done", !.handle = e.handle, !.observation = e.observation]
Answer(c, e) == op' = [op EXCEPT ![c] = View(e)]
Unlock(c) == outboxLock' = IF outboxLock = c THEN None ELSE outboxLock

\* What is left of a caller's POST when the caller stops waiting for it.
Detached(c) == {[p EXCEPT !.caller = IF p.caller = c THEN None ELSE @] : p \in posts}

\* save, answer and release the lock.
Save(c, e) ==
    /\ entry' = e
    /\ Answer(c, e)
    /\ Unlock(c)

\* The entry with an observation of its job, or with none to be had.
Observed(e, state) ==
    [e EXCEPT !.observation = state, !.diagnostic = FALSE,
              !.terminated = e.cancelling /\ IsTerminal(state)]
Diagnosed(e) == [e EXCEPT !.diagnostic = TRUE]

Call(c, kind) ==
    /\ op[c] = NoOp
    /\ Step(c, kind)
    /\ UNCHANGED <<entry, outboxLock, provider, posts, sent>>

(* prepare: an entry is published once and reused.  The guard that is
   asked last may refuse although the entry was published. *)
Prepare(c) ==
    LET e == [entry EXCEPT !.exists = TRUE]
    IN /\ op[c].step = "prepare" /\ outboxLock = None
       /\ entry' = e
       /\ Answer(c, e) \/ Step(c, "failed")
       /\ UNCHANGED <<outboxLock, provider, posts, sent>>

\* Mutant: an entry without a handle is executed again.
ExecutesUnanswered(c) ==
    /\ Locked(c, "execute")
    /\ IF entry.handle # None
         THEN Answer(c, entry) /\ UNCHANGED <<entry, outboxLock>>
         ELSE /\ entry' = [entry EXCEPT !.started = TRUE]
              /\ outboxLock' = c
              /\ Step(c, "posting")
    /\ UNCHANGED <<provider, posts, sent>>

(* execute: the marker is durable before the POST; an entry that has it is
   never executed again. *)
Execute(c) ==
    /\ Locked(c, "execute")
    /\ IF entry.started
         THEN Answer(c, entry) /\ UNCHANGED <<entry, outboxLock>>
         ELSE /\ entry' = [entry EXCEPT !.started = TRUE]
              /\ outboxLock' = c
              /\ Step(c, "posting")
    /\ UNCHANGED <<provider, posts, sent>>

PostCreate(c) ==
    /\ op[c].step = "posting"
    /\ posts' = posts \cup {[kind |-> "create", caller |-> c]}
    /\ sent' = [sent EXCEPT !.create = @ + 1]
    /\ Step(c, "posted")
    /\ UNCHANGED <<entry, outboxLock, provider>>

\* The answer names a job, which a GET confirms to be the one asked for.
CreateAnswered(c) ==
    /\ op[c].step = "posted" /\ op[c].job # None
    /\ Save(c, [entry EXCEPT !.handle = op[c].job, !.diagnostic = FALSE])
    /\ UNCHANGED <<provider, posts, sent>>

\* The guard refuses, the POST times out, or its answer cannot be confirmed.
EffectFails(c) ==
    /\ op[c].step \in {"posting", "posted", "stopping", "stopposted"}
    /\ Save(c, Diagnosed(entry))
    /\ posts' = Detached(c)
    /\ UNCHANGED <<provider, sent>>

(* reconcile: a recorded handle is read without the lock; a handle is only
   looked for under it. *)
Reconcile(c) ==
    /\ Locked(c, "reconcile")
    /\ IF ~ entry.started THEN Answer(c, entry) /\ UNCHANGED outboxLock
       ELSE IF entry.handle # None
         THEN /\ op' = [op EXCEPT ![c].step = "observe", ![c].read = entry]
              /\ UNCHANGED outboxLock
         ELSE Step(c, "find") /\ outboxLock' = c
    /\ UNCHANGED <<entry, provider, posts, sent>>

\* observe: the GET of the handle, or its failure.
Observe(c) ==
    /\ op[c].step = "observe"
    /\ \E seen \in {provider[op[c].read.handle], None} :
         op' = [op EXCEPT ![c].step = "commit", ![c].seen = seen]
    /\ UNCHANGED <<entry, outboxLock, provider, posts, sent>>

\* Mutant: what was read meanwhile is committed whatever the entry is now.
CommitsOver(c) ==
    LET seen == op[c].seen
    IN /\ Locked(c, "commit")
       /\ IF seen = None THEN Save(c, Diagnosed(op[c].read))
                         ELSE Save(c, Observed(op[c].read, seen))
       /\ UNCHANGED <<provider, posts, sent>>

\* Mutant: the reply is checked against the recorded observation only.
CommitsUncompared(c) ==
    LET seen == op[c].seen
    IN /\ Locked(c, "commit")
       /\ IF seen = None THEN Save(c, Diagnosed(entry))
          ELSE IF entry.observation # None /\ ~ Allows(entry.observation, seen)
            THEN Step(c, "failed") /\ UNCHANGED <<entry, outboxLock>>
          ELSE Save(c, Observed(entry, seen))
       /\ UNCHANGED <<provider, posts, sent>>

\* Mutant: a terminal observation is taken for the proof of a cancellation.
CommitsTerminal(c) ==
    LET seen == op[c].seen
    IN /\ Locked(c, "commit")
       /\ IF entry # op[c].read THEN Save(c, entry)
          ELSE IF seen = None THEN Save(c, Diagnosed(entry))
          ELSE Save(c, [Observed(entry, seen) EXCEPT !.terminated = IsTerminal(seen)])
       /\ UNCHANGED <<provider, posts, sent>>

(* The reply is committed only over the entry it was read for, and only if
   it may follow the recorded observation. *)
Commit(c) ==
    LET seen == op[c].seen
    IN /\ Locked(c, "commit")
       /\ IF entry # op[c].read THEN Save(c, entry)
          ELSE IF seen = None THEN Save(c, Diagnosed(entry))
          ELSE IF entry.observation # None /\ ~ Allows(entry.observation, seen)
            THEN Step(c, "failed") /\ UNCHANGED <<entry, outboxLock>>
          ELSE Save(c, Observed(entry, seen))
       /\ UNCHANGED <<provider, posts, sent>>

(* find: every job with the entry's identity.  Absence keeps the marker,
   two jobs or a failed page are errors. *)
Find(c) ==
    LET found == {j \in Jobs : provider[j] # None}
    IN /\ op[c].step = "find"
       /\ \/ Save(c, Diagnosed(entry))
          \/ found = {} /\ Save(c, [entry EXCEPT !.diagnostic = FALSE])
          \/ \E j \in Jobs :
               /\ found = {j}
               /\ Save(c, Observed([entry EXCEPT !.handle = j], provider[j]))
       /\ UNCHANGED <<provider, posts, sent>>

(* stop: the cancellation is durable before the provider is asked. *)
Stop(c) ==
    /\ Locked(c, "stop")
    /\ IF entry.handle = None THEN Step(c, "failed") /\ UNCHANGED <<entry, outboxLock>>
       ELSE IF entry.cancelling THEN Answer(c, entry) /\ UNCHANGED <<entry, outboxLock>>
       ELSE /\ entry' = [entry EXCEPT !.cancelling = TRUE]
            /\ outboxLock' = c
            /\ Step(c, "stopping")
    /\ UNCHANGED <<provider, posts, sent>>

\* A job that is over is not stopped; its state is the evidence.
PostStop(c) ==
    /\ op[c].step = "stopping"
    /\ IF IsTerminal(provider[entry.handle])
         THEN Save(c, Observed(entry, provider[entry.handle])) /\ UNCHANGED <<posts, sent>>
         ELSE /\ posts' = posts \cup {[kind |-> "stop", caller |-> c]}
              /\ sent' = [sent EXCEPT !.stop = @ + 1]
              /\ Step(c, "stopposted")
              /\ UNCHANGED <<entry, outboxLock>>
    /\ UNCHANGED provider

\* Mutant: a successful POST is taken for the termination.
TrustsStop(c) ==
    /\ op[c].step = "stopposted" /\ op[c].job # None
    /\ Save(c, [Observed(entry, provider[entry.handle]) EXCEPT !.terminated = TRUE])
    /\ UNCHANGED <<provider, posts, sent>>

\* A successful POST is not proof of termination: the job is read again.
StopAnswered(c) ==
    /\ op[c].step = "stopposted" /\ op[c].job # None
    /\ Save(c, Observed(entry, provider[entry.handle]))
    /\ UNCHANGED <<provider, posts, sent>>

(* The guard refuses before anything is done, the lock is not free in
   time, or the entry cannot be written. *)
Abort(c) ==
    /\ op[c].step \in Calling \cup Working
    /\ op' = [op EXCEPT ![c] = [NoOp EXCEPT !.step = "failed"]]
    /\ Unlock(c)
    /\ posts' = Detached(c)
    /\ UNCHANGED <<entry, provider, sent>>

Return(c) ==
    /\ op[c].step \in {"done", "failed"}
    /\ op' = [op EXCEPT ![c] = NoOp]
    /\ UNCHANGED <<entry, outboxLock, provider, posts, sent>>

OutboxCrash ==
    /\ op' = [c \in Callers |-> NoOp]
    /\ outboxLock' = None
    /\ posts' = {[p EXCEPT !.caller = None] : p \in posts}
    /\ UNCHANGED <<entry, provider, sent>>

------------
\* The provider executes a POST; a caller that still waits can be answered.
Accept(p, j) ==
    /\ posts' = posts \ {p}
    /\ op' = [c \in Callers |-> IF c = p.caller THEN [op[c] EXCEPT !.job = j] ELSE op[c]]
    /\ UNCHANGED <<entry, outboxLock, sent>>

CreateJob(p, j) ==
    /\ p.kind = "create" /\ provider[j] = None
    /\ provider' = [provider EXCEPT ![j] = "QUEUED"]
    /\ Accept(p, j)

StopJob(p, j) ==
    /\ p.kind = "stop" /\ j = entry.handle
    /\ \E s \in {provider[j], "CANCELLED"} :
         /\ IsTerminal(provider[j]) => s = provider[j]
         /\ provider' = [provider EXCEPT ![j] = s]
    /\ Accept(p, j)

Lose(p) ==
    /\ posts' = posts \ {p}
    /\ UNCHANGED <<entry, outboxLock, op, provider, sent>>

Advance(j) ==
    /\ provider[j] # None
    /\ \E s \in ProviderStates :
         /\ Phase[provider[j]] < Phase[s]
         /\ provider' = [provider EXCEPT ![j] = s]
    /\ UNCHANGED <<entry, outboxLock, op, posts, sent>>

ProviderStep ==
    \/ \E p \in posts : Lose(p) \/ \E j \in Jobs : CreateJob(p, j) \/ StopJob(p, j)
    \/ \E j \in Jobs : Advance(j)

OutboxWork(c) ==
    \/ Prepare(c) \/ Execute(c) \/ PostCreate(c) \/ CreateAnswered(c) \/ EffectFails(c)
    \/ Reconcile(c) \/ Observe(c) \/ Commit(c) \/ Find(c)
    \/ Stop(c) \/ PostStop(c) \/ StopAnswered(c) \/ Abort(c)

OutboxNext ==
    \/ \E c \in Callers : Return(c) \/ OutboxWork(c) \/ \E kind \in Calling : Call(c, kind)
    \/ OutboxCrash
    \/ ProviderStep

OutboxSpec == OutboxInit /\ [][OutboxNext]_outboxVars

------------
(* What load accepts: an entry whose parts contradict one another is read
   as lost evidence from then on. *)
Loads(e) ==
    /\ e.handle # None => e.started
    /\ e.cancelling => e.handle # None
    /\ e.terminated => e.cancelling

(* Type invariant of the entry, the operations and the provider.  Nothing
   is written that load would refuse. *)
OutboxTypeOK ==
    /\ entry \in Entries /\ Loads(entry)
    /\ outboxLock \in Callers \cup {None}
    /\ op \in [Callers -> Ops]
    /\ provider \in [Jobs -> ProviderStates \cup {None}]
    /\ posts \subseteq Posts
    /\ sent \in [create : Nat, stop : Nat]

(* Whoever calls, retries, crashes or gives up: the provider is asked for
   one job and asked to stop it once ("it must never erase the durable
   effect marker or allow replay"), and each marker is durable first. *)
EffectsHappenOnce ==
    /\ sent.create <= 1 /\ sent.stop <= 1
    /\ sent.create > 0 => entry.started
    /\ sent.stop > 0 => entry.cancelling

(* The recorded handle is the one job the provider has of the Attempt, and
   a termination is recorded only of a cancelled job that really is over. *)
RecordIsTrue ==
    /\ entry.handle # None =>
         \A j \in Jobs : provider[j] # None <=> j = entry.handle
    /\ entry.terminated =>
         /\ entry.cancelling
         /\ IsTerminal(provider[entry.handle]) /\ entry.observation = provider[entry.handle]

(* Nothing learnt or begun is taken back: "a concurrent stop, find or
   observation is never overwritten". *)
EvidenceIsKept ==
    [][/\ entry.started => entry'.started
       /\ entry.handle # None => entry'.handle = entry.handle
       /\ entry.cancelling => entry'.cancelling
       /\ entry.terminated => entry'.terminated]_outboxVars

(* An observation is never replaced by one the provider made obsolete,
   whatever the order in which the GETs of several callers come back. *)
ObservationsMoveOn ==
    [][entry.observation # None =>
         /\ entry'.observation # None
         /\ Phase[entry.observation] <= Phase[entry'.observation]]_outboxVars
=============================================================================

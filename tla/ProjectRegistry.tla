--------------------------- MODULE ProjectRegistry ---------------------------
(* Which Projects the daemon tracks: a head that is replaced and a journal
   of transitions that is appended to (core/durable.rs, projects/store.rs),
   changed by requests that run in the bounded shell of http_effect.rs,
   which may give up a request but never the work it started. *)
EXTENDS Naturals, Sequences, SequencesExt, FiniteSets

CONSTANTS Projects, Changers,
          EffectSlots,  \* how many permits the server may have
          Operations,   \* what a request may ask: [name, project, reason]
          MaxFailures,  \* bound: failing writes
          RegistryStops \* bound: stops of the server

FirstId == 0  \* the identity of the first transition; the others have that of their request
NotRegistered == "NONE"
AnyRevision == 99

VARIABLES registryHead,    \* registry.json: its revision, last transition and Projects
          registryEvents,  \* events.jsonl: its whole lines, and what follows the last newline
          manifest,        \* the authored definition of each Project, or "missing"
          registryLock,    \* who holds .registry.lock
          change,          \* each request: where it is, what it asks and what it loaded
          replied,         \* what its caller was told
          permits,         \* of the effect_slots
          failing, registryStops

OperationNames == {"register", "resume", "pause", "restore", "archive", "unregister", "unregister_all"}
ASSUME RegistryAssumption ==
    /\ Changers \subseteq Nat \ {0}
    /\ \A op \in Operations : op.name \in OperationNames /\ op.reason \in BOOLEAN
    /\ \A op \in Operations : op.name # "unregister_all" => op.project \in Projects

projectVars == <<registryHead, registryEvents, manifest, registryLock, change, replied, permits, failing, registryStops>>

Transition(id, revision, name, project) == [id |-> id, revision |-> revision, name |-> name, project |-> project]
BootstrapTransition == Transition(FirstId, 1, "BOOTSTRAP", 0)
Broken == Transition(FirstId, 0, "broken line", 0)
NoTail == Transition(FirstId, 0, "none", 0)
TornTail == Transition(FirstId, 0, "torn", 0)

Seeded == [p \in Projects |-> IF p = 1 THEN "ACTIVE" ELSE NotRegistered]

RegistryInit ==
    /\ registryHead = [revision |-> 1, last |-> BootstrapTransition, projects |-> Seeded]
    /\ registryEvents = [lines |-> <<BootstrapTransition>>, tail |-> NoTail]
    /\ manifest = [p \in Projects |-> 1] /\ registryLock = 0
    /\ change = [r \in Changers |-> [at |-> "new"]]
    /\ replied = [r \in Changers |-> "nothing"] /\ permits \in EffectSlots /\ failing = 0 /\ registryStops = 0

------------
(* durable.rs: what the head and the journal say together. *)
\* A last record whose newline is missing is read; a torn one is left out.
CompleteLines(e) == IF e.tail \in {NoTail, TornTail} THEN e.lines ELSE Append(e.lines, e.tail)

Contiguous(lines) ==
    /\ \A i \in 1..Len(lines) : lines[i].revision = i
    /\ \A i, j \in 1..Len(lines) : lines[i].id = lines[j].id => i = j

\* missing_transition: the one that the head has and the journal does not.
Misses(head, lines) == head.last \notin ToSet(lines)
Recoverable(head, lines) ==
    /\ Contiguous(lines)
    /\ IF lines # <<>> /\ Last(lines).id = head.last.id
       THEN Last(lines) = head.last /\ head.revision = Len(lines)
       ELSE head.revision = Len(lines) + 1 /\ \A i \in 1..Len(lines) : lines[i].id # head.last.id

(* projects.rs: the reducers. *)
NeedsManifest(op) == op.name \in {"register", "resume"}

Target(name) ==
    CASE name = "register" -> "ACTIVE" [] name = "resume" -> "ACTIVE" [] name = "pause" -> "PAUSED"
      [] name = "restore" -> "PAUSED" [] name = "archive" -> "ARCHIVED"
      [] name \in {"unregister", "unregister_all"} -> NotRegistered

From(name) ==
    CASE name = "register" -> {NotRegistered, "PAUSED", "ACTIVE"} [] name = "resume" -> {"PAUSED"} [] name = "pause" -> {"ACTIVE"}
      [] name = "restore" -> {"ARCHIVED"} [] name = "archive" -> {"ACTIVE", "PAUSED"}
      [] name = "unregister" -> {"ACTIVE", "PAUSED", "ARCHIVED"}

Allowed(op, projects) ==
    op.name # "unregister_all" => projects[op.project] \in From(op.name) /\ (op.name = "archive" => op.reason)

Reduced(op, projects) ==
    IF op.name = "unregister_all" THEN [p \in Projects |-> NotRegistered]
    ELSE [projects EXCEPT ![op.project] = Target(op.name)]

\* A Project that is active already, or none at all to unregister: no commit.
Changes(op, projects) == Reduced(op, projects) # projects

RECORD(t) == [name |-> t.name, project |-> t.project]
Advanced(t, projects) == IF t.name = "BOOTSTRAP" THEN Seeded ELSE Reduced(RECORD(t), projects)
Replay(lines) ==
    LET after[n \in 0..Len(lines)] ==
            IF n = 0 THEN [p \in Projects |-> NotRegistered] ELSE Advanced(lines[n], after[n - 1])
    IN  after
Replayed(lines) == Replay(lines)[Len(lines)]

------------
(* http_effect.rs: permits, a blocking task and a deadline. *)
TaskRuns(r) == change[r].at \notin {"new", "reading", "over"}
Running == {r \in Changers : TaskRuns(r)}

HasSlot == Cardinality(Running) < permits

\* Before it has a permit a request is refused at once.
Reply(r, what) == replied' = [replied EXCEPT ![r] = what]
NotAnswered == UNCHANGED replied

\* GET /api/project-lifecycle: under the shared lock, for the revision to expect.
ListProjects(r) ==
    /\ change[r].at = "new" /\ registryLock = 0 /\ HasSlot
    /\ Recoverable(registryHead, CompleteLines(registryEvents))
    /\ change' = [change EXCEPT ![r] = [at |-> "reading", expected |-> registryHead.revision]]
    /\ UNCHANGED <<registryHead, registryEvents, manifest, registryLock, replied, permits, failing, registryStops>>

\* The task: it reads the manifest that a registration or a resumption needs.
Admitted(r, op, expected) ==
    LET read == IF NeedsManifest(op) THEN manifest[op.project] ELSE 0
    IN  IF NeedsManifest(op) /\ read = 0
        THEN change' = [change EXCEPT ![r] = [at |-> "over"]] /\ Reply(r, "refused")
        ELSE /\ change' = [change EXCEPT ![r] = [at |-> "lock", op |-> op, expected |-> expected, manifest |-> read]]
             /\ NotAnswered

StartChange(r) ==
    /\ change[r].at \in {"new", "reading"}
    /\ \E op \in Operations :
         IF HasSlot THEN Admitted(r, op, IF change[r].at = "new" THEN AnyRevision ELSE change[r].expected)
         ELSE change' = [change EXCEPT ![r] = [at |-> "over"]] /\ Reply(r, "refused")
    /\ UNCHANGED <<registryHead, registryEvents, manifest, registryLock, permits, failing, registryStops>>

\* The caller is answered, unless the deadline passed first: it was told then, and
\* the task went on with its permit.  A result that cannot leave is uncertain too.
Over(r, what) ==
    /\ change' = [change EXCEPT ![r] = [at |-> "over"]]
    /\ \E heard \in {what, "uncertain"} : replied' = [replied EXCEPT ![r] = heard]
ChangeTo(r, at) == change' = [change EXCEPT ![r].at = at] /\ NotAnswered

------------
(* store.rs: execute under the exclusive lock. *)
LockRegistry(r) ==
    /\ change[r].at = "lock"
    /\ IF registryLock = 0 THEN registryLock' = r /\ ChangeTo(r, "load")
       ELSE UNCHANGED registryLock /\ Over(r, "refused")
    /\ UNCHANGED <<registryHead, registryEvents, manifest, permits, failing, registryStops>>

\* A write fails before or after it was made: the caller cannot know.
Fails(r, outcomes) ==
    /\ failing < MaxFailures /\ failing' = failing + 1
    /\ \E e \in outcomes : registryEvents' = e
    /\ registryLock' = 0 /\ Over(r, "uncertain")

AppendRecord(e, t) == [lines |-> Append(e.lines, IF e.tail = NoTail THEN t ELSE Broken), tail |-> NoTail]
Partly(e, t) == {e} \cup (IF e.tail = NoTail THEN {[e EXCEPT !.tail = TornTail], [e EXCEPT !.tail = t]} ELSE {})

\* What is left of the journal is repaired first, and what the head says is not
\* written again: only a change of the records is persisted.
NextWrite(r, e) ==
    CASE e.tail # NoTail -> "normalize"
      [] e.tail = NoTail /\ Misses(registryHead, e.lines) -> "repair"
      [] OTHER -> IF Changes(change[r].op, registryHead.projects) THEN "write" ELSE "recheck"

Proceed(r, e) ==
    /\ ChangeTo(r, NextWrite(r, e))
    /\ registryLock' = IF NextWrite(r, e) = "recheck" THEN 0 ELSE registryLock

\* load, the revision the caller expects, and the plan: nothing is written yet.
Plan(r) ==
    LET c == change[r]
        accepted == /\ Recoverable(registryHead, CompleteLines(registryEvents))
                    /\ c.expected \in {AnyRevision, registryHead.revision}
                    /\ Allowed(c.op, registryHead.projects)
    IN  /\ c.at = "load"
        /\ IF accepted THEN Proceed(r, registryEvents) ELSE Over(r, "refused") /\ registryLock' = 0
        /\ UNCHANGED <<registryHead, registryEvents, manifest, permits, failing, registryStops>>

\* Mutant: the missing transition is appended to whatever the last write left.
AppendOnly(e) == [e EXCEPT !.lines = Append(@, Broken), !.tail = NoTail]

\* repair first replaces a journal that does not end with a newline.
NormalizedJournal(e) == [lines |-> CompleteLines(e), tail |-> NoTail]

Normalize(r) ==
    /\ change[r].at = "normalize"
    /\ \/ registryEvents' = NormalizedJournal(registryEvents) /\ Proceed(r, registryEvents') /\ UNCHANGED failing
       \/ Fails(r, {registryEvents, NormalizedJournal(registryEvents)})
    /\ UNCHANGED <<registryHead, manifest, permits, registryStops>>

Repair(r) ==
    /\ change[r].at = "repair"
    /\ \/ registryEvents' = AppendRecord(registryEvents, registryHead.last) /\ Proceed(r, registryEvents') /\ UNCHANGED failing
       \/ Fails(r, Partly(registryEvents, registryHead.last) \cup {AppendRecord(registryEvents, registryHead.last)})
    /\ UNCHANGED <<registryHead, manifest, permits, registryStops>>

NextHead(r) ==
    LET op == change[r].op
        revision == registryHead.revision + 1
    IN  [revision |-> revision, last |-> Transition(r, revision, op.name, op.project),
         projects |-> Reduced(op, registryHead.projects)]

\* persist: the head first; replace_regular may fail on either side of its rename.
ReplaceHead(r) ==
    /\ change[r].at = "write"
    /\ registryHead' = NextHead(r)
    /\ \/ ChangeTo(r, "append") /\ UNCHANGED <<registryEvents, registryLock, failing>>
       \/ Fails(r, {registryEvents})
    /\ UNCHANGED <<manifest, permits, registryStops>>

ReplaceHeadFails(r) ==
    /\ change[r].at = "write" /\ Fails(r, {registryEvents})
    /\ UNCHANGED <<registryHead, manifest, permits, registryStops>>

AppendTransition(r) ==
    /\ change[r].at = "append"
    /\ \/ registryEvents' = AppendRecord(registryEvents, registryHead.last) /\ ChangeTo(r, "recheck") /\ registryLock' = 0 /\ UNCHANGED failing
       \/ Fails(r, Partly(registryEvents, registryHead.last) \cup {AppendRecord(registryEvents, registryHead.last)})
    /\ UNCHANGED <<registryHead, manifest, permits, registryStops>>

\* service.rs reads the manifest again: another one makes the reply uncertain, as
\* does a result that is too large to leave the process.
Recheck(r) ==
    LET c == change[r]
        same == NeedsManifest(c.op) => manifest[c.op.project] = c.manifest
    IN  /\ c.at = "recheck"
        /\ \E what \in {"done", "uncertain"} : (what = "done" => same) /\ Over(r, what)
        /\ UNCHANGED <<registryHead, registryEvents, manifest, registryLock, permits, failing, registryStops>>

\* The user edits or removes an authored definition that a request needs: when does
\* not matter but for the two times it is read.
EditManifest(p) ==
    /\ manifest[p] = 1 /\ \E op \in Operations : NeedsManifest(op) /\ op.project = p
    /\ \E r \in Changers : change[r].at \in {"new", "reading", "recheck"}
    /\ \E m \in {0, 2} : manifest' = [manifest EXCEPT ![p] = m]
    /\ UNCHANGED <<registryHead, registryEvents, registryLock, change, replied, permits, failing, registryStops>>

Appending(r) == change[r].at \in {"append", "repair"}

\* A stop takes the tasks along, in the middle of a write; the next start loads.
StopServer ==
    /\ registryStops < RegistryStops /\ registryStops' = registryStops + 1
    /\ registryEvents' \in {registryEvents} \cup (IF \E r \in Changers : Appending(r) THEN Partly(registryEvents, registryHead.last) ELSE {})
    /\ registryLock' = 0
    /\ change' = [r \in Changers |-> IF TaskRuns(r) THEN [at |-> "over"] ELSE change[r]]
    /\ replied' = [r \in Changers |-> IF TaskRuns(r) THEN "uncertain" ELSE replied[r]]
    /\ UNCHANGED <<registryHead, manifest, permits, failing>>

Changing(r) ==
    \/ ListProjects(r) \/ StartChange(r) \/ LockRegistry(r) \/ Plan(r) \/ Normalize(r) \/ Repair(r)
    \/ ReplaceHead(r) \/ ReplaceHeadFails(r) \/ AppendTransition(r) \/ Recheck(r)

RegistryNext == (\E r \in Changers : Changing(r)) \/ (\E p \in Projects : EditManifest(p)) \/ StopServer
RegistrySpec == RegistryInit /\ [][RegistryNext]_projectVars

------------
History == LET lines == CompleteLines(registryEvents) IN IF Misses(registryHead, lines) THEN Append(lines, registryHead.last) ELSE lines
Committed(r) == \E i \in 1..Len(History) : History[i].id = r

(* Wherever a request fails, is given up or is stopped, the head and the
   journal can be loaded, and the history is what made the records what
   they are. *)
HistoryExplains ==
    /\ Recoverable(registryHead, CompleteLines(registryEvents))
    /\ Replayed(History) = registryHead.projects

(* A caller who is told that the lifecycle was refused or busy is told the
   truth; a transition that was made is made on the revision its caller
   expected. *)
RepliesAreTrue ==
    \A r \in Changers :
        /\ replied[r] = "refused" => ~Committed(r)
        /\ \A i \in 1..Len(History) :
              History[i].id = r /\ "expected" \in DOMAIN change[r] => change[r].expected \in {AnyRevision, i - 1}

(* The history of a Project is only ever added to. *)
HistoryOnlyGrows == [][IsPrefix(History, History')]_projectVars

(* The registry of Projects can be loaded wherever a request stopped, its
   history explains it, and what callers were told of it is so. *)
RegistryIsSound == HistoryExplains /\ RepliesAreTrue
=============================================================================

----------------------------- MODULE SourceStore -----------------------------
(* A source on its way from a directory to the server: the client packs
   what the directory holds (client/sources.rs), looks for the receipt of
   that archive and sends it when there is none; the server stages it
   without a lock, publishes the tree by one rename under the name of its
   content and writes a receipt (server/sources, core/sources.rs).  The
   directory is edited while it is packed, requests are given up and
   repeated, writes fail and servers stop. *)
EXTENDS Naturals, Sequences, SequencesExt, FiniteSets

CONSTANTS Uploads,       \* uploads of one Project
          Archives,      \* what clients packed: the tree, and which client packed it
          MaxEdits, MaxStoreFaults  \* bounds

ASSUME SourceAssumption == Uploads \subseteq Nat \ {0} /\ IsFiniteSet(Uploads)

NoImport == 0
SourcePaths == {<<1, 1>>, <<2>>}  \* a file in a directory, and one after it
NotThere == [chunks |-> <<>>, executable |-> FALSE, stamp |-> 0]

VARIABLES directory,   \* the user's files, each with the stamp of its last change
          edits,
          archiving,     \* a command that packs it: what it saw and read, and what is
                       \* in the directory it opened, once another took its place
          moments,     \* what the directory held since it began
          upload,      \* the command of each upload, and its archive
          importing,   \* its request at the server
          answer,      \* what its command learned
          store,       \* the published sources by their identity
          receipts,    \* the archives with a receipt, and whether it is sealed
          stages,      \* staged trees nobody is using any more
          importLock, approval, storeFailures, storeStops

packVars == <<directory, edits, archiving, moments>>
storeVars == <<upload, importing, answer, store, receipts, stages, importLock, approval, storeFailures, storeStops>>
sourceVars == <<packVars, storeVars>>

PresentFiles(files) == {p \in SourcePaths : files[p].stamp # 0}
TreeOf(files) == {[path |-> p, executable |-> files[p].executable, chunks |-> files[p].chunks] : p \in PresentFiles(files)}

PackingInit ==
    /\ \E present \in {SourcePaths, {<<1, 1>>}} :
          directory = [p \in SourcePaths |-> IF p \in present THEN [chunks |-> <<"x">>, executable |-> FALSE, stamp |-> 1] ELSE NotThere]
    /\ edits = 0 /\ moments = {TreeOf(directory)} /\ archiving = [at |-> "open", seen |-> [p \in {} |-> 0], read |-> {}, aside |-> [p \in {} |-> NotThere]]

StoreInit ==
    /\ upload = [u \in Uploads |-> [at |-> "new"]]
    /\ importing = [u \in Uploads |-> [at |-> "none"]] /\ answer = [u \in Uploads |-> "none"]
    /\ store = {} /\ receipts = {} /\ stages = {} /\ importLock = NoImport
    /\ approval = 1 /\ storeFailures = 0 /\ storeStops = 0

------------
(* core/sources.rs: the identity of a tree is its fields in plan order. *)
Before(p, q) ==
    \E n \in 0..Len(p) :
        /\ n <= Len(q) /\ SubSeq(p, 1, n) = SubSeq(q, 1, n)
        /\ IF n = Len(p) THEN Len(q) > n ELSE Len(q) > n /\ p[n + 1] < q[n + 1]

\* The children of a directory come together, then those of its directories.
InPlan(e, f) == Before(Front(e.path), Front(f.path)) \/ (Front(e.path) = Front(f.path) /\ Before(e.path, f.path))

FileEntry(p, file) == [kind |-> "F", path |-> p, executable |-> file.executable, chunks |-> file.chunks]
DirectoryEntry(p) == [kind |-> "D", path |-> p]
TreePlan(tree) ==
    LET files == {FileEntry(f.path, f) : f \in tree}
        parents == {DirectoryEntry(SubSeq(f.path, 1, n)) : f \in {g \in tree : Len(g.path) > 1}, n \in {1}}
    IN  SetToSortSeq(files \cup parents, InPlan)

\* Mutant: what may be executed is not part of the identity.
ContentsOnly(e) == IF e.kind = "D" THEN <<"D", e.path>> ELSE <<"F", e.path>> \o e.chunks

\* Every header and every chunk of contents is a field of its own.
Frames(e) ==
    IF e.kind = "D" THEN <<"D", e.path>>
    ELSE <<"F", e.path, IF e.executable THEN "X" ELSE "-">> \o e.chunks

TreeDigest(tree) == FlattenSeq([i \in 1..Len(TreePlan(tree)) |-> Frames(TreePlan(tree)[i])])

------------
(* client/sources.rs: the directory and its archive. *)
PutFile(p, chunks, executable) ==
    directory' = [directory EXCEPT ![p] = [chunks |-> chunks, executable |-> executable, stamp |-> edits + 2]]

\* A file is created, changed or removed while the client packs.
Edit ==
    /\ edits < MaxEdits /\ edits' = edits + 1
    /\ \E p \in SourcePaths :
         \/ PutFile(p, <<"y">>, directory[p].executable)
         \/ p \in PresentFiles(directory) /\ PutFile(p, directory[p].chunks, ~directory[p].executable)
         \/ p \in PresentFiles(directory) /\ directory' = [directory EXCEPT ![p] = NotThere]
    /\ moments' = moments \cup {TreeOf(directory')}
    /\ UNCHANGED archiving

\* The directory that is open: its files are looked for in it wherever it is.
InDirectory == {p \in SourcePaths : Len(p) > 1}
Look(p) == IF p \in DOMAIN archiving.aside THEN archiving.aside[p] ELSE directory[p]

\* Another directory takes its place, with another file or none.
ReplaceDirectory ==
    /\ edits < MaxEdits /\ edits' = edits + 1
    /\ archiving.at \notin {"open", "packed", "refused"}
    /\ \E new \in {NotThere, [chunks |-> <<"y">>, executable |-> FALSE, stamp |-> edits + 2]} :
          directory' = [p \in SourcePaths |-> IF p \in InDirectory THEN new ELSE directory[p]]
    /\ archiving' = [archiving EXCEPT !.aside = [p \in InDirectory |-> Look(p)]]
    /\ moments' = moments \cup {TreeOf(directory')}

PackTo(at) == archiving' = [archiving EXCEPT !.at = at]
PackStep(at) == archiving.at = at /\ UNCHANGED <<directory, edits, moments>>
FirstPath(paths) == CHOOSE q \in paths : \A o \in paths : o = q \/ Before(q, o)
SeenFiles == {p \in DOMAIN archiving.seen : archiving.seen[p] # 0}

\* The walk: names and metadata, and a handle of each directory when its name comes.
OpenDirectory == PackStep("open") /\ PackTo("observe")

\* A directory is walked after the one it is in.
NextToSee(rest) == IF rest \ InDirectory # {} THEN FirstPath(rest \ InDirectory) ELSE FirstPath(rest)
ObserveFile ==
    LET rest == SourcePaths \ DOMAIN archiving.seen
        p == NextToSee(rest)
    IN  /\ PackStep("observe")
        /\ IF rest = {} THEN PackTo(IF SeenFiles = {} THEN "refused" ELSE "read")
           ELSE archiving' = [archiving EXCEPT !.seen =
                    [q \in DOMAIN @ \cup {p} |-> IF q = p THEN Look(p).stamp ELSE @[q]]]

\* A file is opened again and must be what was seen, before and after it is read.
ReadFile ==
    LET unread == {p \in SeenFiles : \A f \in archiving.read : f.path # p}
        p == FirstPath(unread)
    IN  /\ PackStep("read")
        /\ IF unread = {} THEN PackTo("again")
           ELSE IF Look(p).stamp # archiving.seen[p] THEN PackTo("refused")
           ELSE archiving' = [archiving EXCEPT !.read =
                    @ \cup {[path |-> p, executable |-> Look(p).executable, chunks |-> Look(p).chunks]}]

\* When all was read every file must still be the one that was seen.
CheckFiles ==
    /\ PackStep("again")
    /\ PackTo(IF \A p \in SeenFiles : Look(p).stamp = archiving.seen[p] THEN "names" ELSE "refused")

\* No name came or went in any directory.
SameNames == SeenFiles = {p \in SourcePaths : Look(p).stamp # 0}

CheckNames == PackStep("names") /\ PackTo(IF SameNames THEN "packed" ELSE "refused")

PackingNext == (Edit \/ ReplaceDirectory \/ OpenDirectory \/ ObserveFile \/ ReadFile \/ CheckFiles \/ CheckNames) /\ UNCHANGED storeVars

------------
(* server/sources/store.rs *)
Receipt(a, sealed) == [archive |-> a, source |-> TreeDigest(a.tree), sealed |-> sealed]
HasReceipt(a) == \E r \in receipts : r.archive = a
Torn(a) == \E r \in receipts : r.archive = a /\ ~r.sealed
SourceExists(id) == \E s \in store : s.id = id
Source(id) == CHOOSE s \in store : s.id = id

stepOf(u) == importing[u].at
ImportTo(u, where) == importing' = [importing EXCEPT ![u].at = where]
\* The task is over; its command hears of it unless it gave up or lost the connection.
Close(u, what) ==
    /\ importing' = [importing EXCEPT ![u] = [at |-> "over"]]
    /\ \E heard \in {what, "unknown"} : answer' = [answer EXCEPT ![u] = heard]
ImportStep(u, where) == stepOf(u) = where /\ UNCHANGED <<upload, storeStops>>

\* A command looks for the receipt first, under the lock; one that is not sealed
\* is an error.
Lookup(u) ==
    /\ upload[u].at = "new" /\ importLock = NoImport
    /\ \E a \in Archives :
         /\ upload' = [upload EXCEPT ![u] = [at |-> IF HasReceipt(a) THEN "over" ELSE "send", archive |-> a]]
         /\ answer' = [answer EXCEPT ![u] = IF Torn(a) THEN "unavailable" ELSE IF HasReceipt(a) THEN "done" ELSE @]
    /\ UNCHANGED <<importing, store, receipts, stages, importLock, approval, storeFailures, storeStops>>

\* The Project is approved before a byte is read; the request takes what was planned.
SendArchive(u) ==
    /\ upload[u].at = "send" /\ upload' = [upload EXCEPT ![u].at = "over"]
    /\ answer' = [answer EXCEPT ![u] = IF approval = 0 THEN "refused" ELSE "waiting"]
    /\ importing' = [importing EXCEPT ![u] =
          IF approval = 0 THEN [at |-> "over"]
          ELSE [at |-> "find", archive |-> upload[u].archive, observed |-> approval, staged |-> FALSE,
                published |-> FALSE, result |-> "none"]]
    /\ UNCHANGED <<store, receipts, stages, importLock, approval, storeFailures, storeStops>>

Find(u) ==
    LET a == importing[u].archive
    IN  /\ ImportStep(u, "find") /\ importLock = NoImport
        /\ \/ ~HasReceipt(a) /\ ImportTo(u, "stage") /\ UNCHANGED answer
           \/ HasReceipt(a) /\ ~Torn(a) /\ ImportTo(u, "recheck") /\ UNCHANGED answer
           \/ Torn(a) /\ Close(u, "unavailable")
        /\ UNCHANGED <<store, receipts, stages, importLock, approval, storeFailures>>

Failing == storeFailures + storeStops < MaxStoreFaults /\ storeFailures' = storeFailures + 1

\* The archive is received, compared with its digest, extracted, measured and
\* sealed in a stage of its own; a body that was cut or changed is refused.
Stage(u) ==
    /\ ImportStep(u, "stage")
    /\ \/ importing' = [importing EXCEPT ![u].at = "lock", ![u].staged = TRUE] /\ UNCHANGED storeFailures
       \/ Failing /\ importing' = [importing EXCEPT ![u].at = "discard", ![u].staged = TRUE, ![u].result = "unavailable"]
    /\ UNCHANGED <<answer, store, receipts, stages, importLock, approval>>

\* Whoever waits for five seconds is answered that the storage is busy.
LockStore(u) ==
    /\ ImportStep(u, "lock")
    /\ IF importLock = NoImport THEN importLock' = u /\ ImportTo(u, "decide")
       ELSE importing' = [importing EXCEPT ![u].at = "discard", ![u].result = "busy"] /\ UNCHANGED importLock
    /\ UNCHANGED <<answer, store, receipts, stages, approval, storeFailures>>

Settle(u, where, result) ==
    importing' = [importing EXCEPT ![u].at = where, ![u].result = result]

\* An import that lost the race discards its stage; a tree that is there is verified.
Decide(u) ==
    LET a == importing[u].archive
    IN  /\ ImportStep(u, "decide")
        /\ \/ HasReceipt(a) /\ Settle(u, "discard", IF Torn(a) THEN "unavailable" ELSE "stored") /\ importLock' = NoImport
           \/ ~HasReceipt(a) /\ SourceExists(TreeDigest(a.tree)) /\ ImportTo(u, "receipt") /\ UNCHANGED importLock
           \/ ~HasReceipt(a) /\ ~SourceExists(TreeDigest(a.tree)) /\ ImportTo(u, "publish") /\ UNCHANGED importLock
        /\ UNCHANGED <<answer, store, receipts, stages, approval, storeFailures>>

WithSource(a) == store \cup {[id |-> TreeDigest(a.tree), tree |-> a.tree]}

\* One rename; an error may have come after it, so nothing is ever deleted.
PublishDirectory(u) ==
    LET a == importing[u].archive
    IN  /\ ImportStep(u, "publish")
        /\ \/ /\ store' = WithSource(a)
              /\ importing' = [importing EXCEPT ![u].at = "receipt", ![u].staged = FALSE, ![u].published = TRUE]
              /\ UNCHANGED <<answer, importLock, stages, storeFailures>>
           \/ /\ Failing /\ Close(u, "unknown") /\ importLock' = NoImport
              /\ \/ store' = WithSource(a) /\ UNCHANGED stages
                 \/ stages' = stages \cup {u} /\ UNCHANGED store
        /\ UNCHANGED <<receipts, approval>>

\* After a failure a stage that was not published is discarded; a published one is not.
Unwind(u) ==
    IF importing[u].published THEN Close(u, "unavailable")
    ELSE Settle(u, "discard", "unavailable") /\ UNCHANGED answer

WriteReceipt(u) ==
    LET a == importing[u].archive
    IN  /\ ImportStep(u, "receipt")
        /\ \/ receipts' = receipts \cup {Receipt(a, FALSE)} /\ ImportTo(u, "seal") /\ UNCHANGED <<answer, importLock, storeFailures>>
           \/ /\ Failing /\ receipts' \in {receipts, receipts \cup {Receipt(a, FALSE)}}
              /\ Unwind(u) /\ importLock' = NoImport
        /\ UNCHANGED <<store, stages, approval>>

SealedReceipts(a) == (receipts \ {Receipt(a, FALSE)}) \cup {Receipt(a, TRUE)}

SealReceipt(u) ==
    LET a == importing[u].archive
    IN  /\ ImportStep(u, "seal") /\ importLock' = NoImport
        /\ \/ /\ receipts' = SealedReceipts(a) /\ UNCHANGED <<answer, storeFailures>>
              /\ IF importing[u].published THEN ImportTo(u, "recheck") ELSE Settle(u, "discard", "stored")
           \/ Failing /\ receipts' \in {receipts, SealedReceipts(a)} /\ Unwind(u)
        /\ UNCHANGED <<store, stages, approval>>

\* cleanup_stage: when it fails, even a stored source is reported as uncertain.
Discard(u) ==
    /\ ImportStep(u, "discard")
    /\ \/ /\ UNCHANGED <<stages, storeFailures>>
          /\ IF importing[u].result = "stored" THEN ImportTo(u, "recheck") /\ UNCHANGED answer
             ELSE Close(u, importing[u].result)
       \/ Failing /\ stages' = stages \cup {u} /\ Close(u, "unknown")
    /\ UNCHANGED <<store, receipts, importLock, approval>>

\* service.rs: the Project must still be approved, with the same definition.
Approve(u) ==
    /\ ImportStep(u, "recheck")
    /\ Close(u, IF approval = importing[u].observed THEN "done" ELSE "unknown")
    /\ UNCHANGED <<store, receipts, stages, importLock, approval, storeFailures>>

Active(u) == stepOf(u) \notin {"none", "over"}

\* The operator edits the Project, or takes it away: when does not matter but for
\* the two times it is read.
ChangeProject ==
    /\ approval = 1 /\ approval' \in {0, 2} /\ \E u \in Uploads : upload[u].at = "send" \/ stepOf(u) = "recheck"
    /\ UNCHANGED <<upload, answer, importing, store, receipts, stages, importLock, storeFailures, storeStops>>

\* A stop leaves what was written; a stage of nobody stays where it is.
StopStore ==
    /\ storeFailures + storeStops < MaxStoreFaults /\ storeStops' = storeStops + 1
    /\ \E u \in Uploads : Active(u)
    /\ stages' = stages \cup {u \in Uploads : Active(u) /\ importing[u].staged}
    /\ importing' = [u \in Uploads |-> IF Active(u) THEN [at |-> "over"] ELSE importing[u]]
    /\ answer' = [u \in Uploads |-> IF answer[u] = "waiting" THEN "unknown" ELSE answer[u]]
    /\ importLock' = NoImport
    /\ UNCHANGED <<upload, store, receipts, approval, storeFailures>>

Command(u) == Lookup(u) \/ SendArchive(u)
Import(u) ==
    \/ Find(u) \/ Stage(u) \/ LockStore(u) \/ Decide(u) \/ PublishDirectory(u) \/ WriteReceipt(u)
    \/ SealReceipt(u) \/ Discard(u) \/ Approve(u)

StoreNext ==
    (ChangeProject \/ StopStore \/ \E u \in Uploads : Command(u) \/ Import(u)) /\ UNCHANGED packVars

SourceSpec == PackingInit /\ StoreInit /\ [][PackingNext \/ StoreNext]_sourceVars

------------
(* A user who edits while the client packs gets an error or an archive of
   files that were there together, and none that was there all the time is
   missing: never a mixture of two versions, unless another directory took
   the place of one whose handle the client held. *)
PackedTogether ==
    archiving.at = "packed" =>
        /\ DOMAIN archiving.aside = {} => \E m \in moments : archiving.read \subseteq m
        /\ \A p \in SourcePaths :
              (\A m \in moments : \E f \in m : f.path = p) => \E f \in archiving.read : f.path = p

(* What a receipt names is stored, and is the tree that was in the archive
   down to what may be executed, whoever published it first. *)
ReceiptsAreTrue ==
    \A r \in receipts : SourceExists(r.source) /\ Source(r.source).tree = r.archive.tree

(* Who is told that a source is stored finds its receipt; one that is told
   that the storage is unavailable, and not because it was busy, met a
   write that failed or was cut: imports of the same source do not disturb
   each other. *)
ImportsAreApart ==
    \A u \in Uploads :
        /\ answer[u] = "done" => \E r \in receipts : r.sealed /\ r.archive = upload[u].archive
        /\ answer[u] = "unavailable" => storeFailures + storeStops > 0

(* Only an import that failed or was stopped leaves a stage behind. *)
StagesAreDiscarded == Cardinality(stages) <= storeFailures + Cardinality(Uploads) * storeStops

(* A source that was published and a receipt that was sealed stay. *)
SourcesAreKept ==
    [][/\ store \subseteq store'
       /\ \A r \in receipts : r.sealed => r \in receipts']_sourceVars

(* A packed archive holds files of one moment, and the receipts and the
   answers about it are true. *)
SourcesAreWhole == PackedTogether /\ ReceiptsAreTrue /\ ImportsAreApart /\ StagesAreDiscarded
=============================================================================

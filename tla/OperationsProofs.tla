-------------------------- MODULE OperationsProofs --------------------------
(* Invariants of the parts that surround a Submission, each for every
   value of its constants: the archive of results, the files written by
   several processes, the debug machines, the collectors of a cloud job
   and the removal of what an Attempt left; the observer's schedule, the
   start of a managed Worker, and a process with its bounds. *)
EXTENDS CloudArtifacts, DurableFiles, DebugMachine, CloudSync, Administration, PollingSchedule, WorkerStart,
        BoundedProcess, FiniteSetTheorems, WellFoundedInduction, TLAPS

------------
(* The archive of results.  What keeps it: a reader has proven every part
   before its own, and as long as nothing is published nor removed no part
   is taken away; a collector that cleans has heard that it is published. *)
Locals == [archive : {"none", "partial", "sealed"}, bundle : BOOLEAN]
CollectorSteps == {"idle", "pack", "prepare", "put", "putting", "complete", "clean"}
CollectorStates == [at : CollectorSteps, part : 0..Pieces]
Results == [prepared : BOOLEAN, state : {"NONE", "KEEP", "SCHEDULED", "RELEASING", "RELEASED"},
            released : 0..Pieces, removed : BOOLEAN]
ReaderStates == [at : {"idle", "verify", "accept"}, part : 0..Pieces]

ArtifactTypeOK ==
    /\ local \in Locals
    /\ collector \in [Collectors -> CollectorStates]
    /\ puts \subseteq AllPieces /\ stored \subseteq AllPieces
    /\ result \in Results
    /\ reader \in [Readers -> ReaderStates]
    /\ releasing \in BOOLEAN

\* The parts a reader has proven to be stored.
Proved(r) == CASE reader[r].at = "verify" -> {p \in AllPieces : p < reader[r].part}
               [] reader[r].at = "accept" -> AllPieces
               [] OTHER -> {}

ReadIsStored == \A r \in Readers : (~Published /\ ~result.removed) => Proved(r) \subseteq stored

CollectorsKnow ==
    \A c \in Collectors :
       /\ collector[c].at = "clean" => Published
       /\ collector[c].at \in {"put", "putting"} => collector[c].part \in AllPieces

ArtifactInv == ArtifactTypeOK /\ ReadIsStored /\ CollectorsKnow /\ AvailableIsStored /\ PackedIsNotLost

LEMMA ArtifactInitInv == ArtifactInit => ArtifactInv
  <1> SUFFICES ASSUME ArtifactInit PROVE ArtifactInv
    OBVIOUS
  <1>1. ArtifactTypeOK
    <2>1. 0 \in 0..Pieces
      BY PiecesAssumption
    <2>3. collector \in [Collectors -> CollectorStates]
      BY <2>1 DEF ArtifactInit, CollectorStates, CollectorSteps
    <2>4. result \in Results
      BY <2>1 DEF ArtifactInit, Results
    <2>5. reader \in [Readers -> ReaderStates]
      BY <2>1 DEF ArtifactInit, ReaderStates, NotReading
    <2> QED BY <2>3, <2>4, <2>5 DEF ArtifactTypeOK, ArtifactInit, Locals
  <1>2. ReadIsStored /\ CollectorsKnow /\ AvailableIsStored /\ PackedIsNotLost
    BY DEF ArtifactInit, ReadIsStored, Proved, CollectorsKnow, AvailableIsStored, PackedIsNotLost, Published, NotReading
  <1> QED BY <1>1, <1>2 DEF ArtifactInv

\* A collector moves: nothing is stored, no reader and no record changes.
LEMMA CollectorMoves ==
    ASSUME ArtifactInv, NEW c \in Collectors,
           UNCHANGED <<stored, result, reader, releasing>>,
           puts' \subseteq AllPieces, local' \in Locals,
           local'.bundle => local'.archive = "sealed" \/ Published,
           NEW at \in CollectorSteps, NEW part \in 0..Pieces,
           collector' = [collector EXCEPT ![c] = [at |-> at, part |-> part]],
           at = "clean" => Published, at \in {"put", "putting"} => part \in AllPieces
    PROVE  ArtifactInv'
  <1>2. ReadIsStored' /\ AvailableIsStored' /\ PackedIsNotLost'
    BY DEF ArtifactInv, ReadIsStored, Proved, AvailableIsStored, PackedIsNotLost, Published
  <1>3. CollectorsKnow'
    BY DEF ArtifactInv, ArtifactTypeOK, CollectorStates, CollectorsKnow, Published
  <1> QED BY <1>2, <1>3 DEF ArtifactInv, ArtifactTypeOK, CollectorStates

LEMMA CollectorActions ==
    ASSUME ArtifactInv, NEW c \in Collectors,
           \/ BeginCollect(c) \/ PublishBundle(c) \/ SendPart(c) \/ PartSent(c)
           \/ CompleteAnswered(c) \/ Clean(c) \/ StopCollector(c)
    PROVE  ArtifactInv'
  <1> DEFINE part == collector[c].part
  <1>0. /\ collector[c] \in CollectorStates /\ part \in 0..Pieces /\ Pieces \in Nat \ {0}
        /\ \A step \in CollectorSteps :
              Step(c, step) => collector' = [collector EXCEPT ![c] = [at |-> step, part |-> part]]
    BY PiecesAssumption DEF ArtifactInv, ArtifactTypeOK, CollectorStates, Step
  <1> USE <1>0
  <1>1. ASSUME BeginCollect(c) PROVE ArtifactInv'
    <2>1. CASE local.bundle
      <3>1. collector' = [collector EXCEPT ![c] = [at |-> "prepare", part |-> part]]
        BY <1>1, <2>1 DEF BeginCollect, CollectorSteps
      <3>2. local' \in Locals /\ (local'.bundle => local'.archive = "sealed" \/ Published)
        BY <1>1, <2>1 DEF BeginCollect, ArtifactInv, ArtifactTypeOK, PackedIsNotLost
      <3> QED BY <1>1, <3>1, <3>2, CollectorMoves DEF BeginCollect, ArtifactInv, ArtifactTypeOK, CollectorSteps
    <2>2. CASE ~local.bundle
      <3>1. collector' = [collector EXCEPT ![c] = [at |-> "pack", part |-> part]]
        BY <1>1, <2>2 DEF BeginCollect, CollectorSteps
      <3>2. local' \in Locals /\ ~local'.bundle
        BY <1>1, <2>2 DEF BeginCollect, ArtifactInv, ArtifactTypeOK, Locals
      <3> QED BY <1>1, <3>1, <3>2, CollectorMoves DEF BeginCollect, ArtifactInv, ArtifactTypeOK, CollectorSteps
    <2> QED BY <2>1, <2>2
  <1>2. ASSUME PublishBundle(c) PROVE ArtifactInv'
    <2>1. collector' = [collector EXCEPT ![c] = [at |-> "prepare", part |-> part]]
      BY <1>2 DEF PublishBundle, CollectorSteps
    <2>2. local' \in Locals /\ local'.archive = "sealed"
      BY <1>2 DEF PublishBundle, Locals
    <2> QED BY <1>2, <2>1, <2>2, CollectorMoves DEF PublishBundle, ArtifactInv, ArtifactTypeOK, CollectorSteps
  <1>3. ASSUME SendPart(c) PROVE ArtifactInv'
    <2>1. PICK at \in {"idle", "putting"} :
             /\ collector' = [collector EXCEPT ![c] = [at |-> at, part |-> part]]
             /\ at = "putting" => part \in AllPieces
      BY <1>3 DEF SendPart, CollectorSteps, ArtifactInv, CollectorsKnow
    <2>2. puts' \subseteq AllPieces
      BY <1>3 DEF SendPart, ArtifactInv, ArtifactTypeOK, CollectorsKnow
    <2>3. local' \in Locals /\ (local'.bundle => local'.archive = "sealed" \/ Published)
      BY <1>3 DEF SendPart, ArtifactInv, ArtifactTypeOK, PackedIsNotLost
    <2>4. at \in CollectorSteps /\ at \notin {"clean", "put"} /\ UNCHANGED <<stored, result, reader, releasing>>
      BY <1>3, <2>1 DEF SendPart, CollectorSteps
    <2> HIDE <1>0
    <2> QED BY <2>1, <2>2, <2>3, <2>4, <1>0, CollectorMoves
  <1>4. ASSUME PartSent(c) PROVE ArtifactInv'
    <2>1. PICK at \in {"put", "complete"}, next \in 0..Pieces :
             /\ collector' = [collector EXCEPT ![c] = [at |-> at, part |-> next]]
             /\ at = "put" => next \in AllPieces
      <3>1. CASE part < Pieces
        <4>1. part + 1 \in 0..Pieces /\ part + 1 \in AllPieces
          BY <3>1 DEF AllPieces
        <4>2. collector' = [collector EXCEPT ![c] = [at |-> "put", part |-> part + 1]]
          BY <1>4, <3>1 DEF PartSent
        <4> HIDE <1>0
        <4> QED BY <4>1, <4>2
      <3>2. CASE ~(part < Pieces)
        <4>1. collector' = [collector EXCEPT ![c] = [at |-> "complete", part |-> 0]]
          BY <1>4, <3>2 DEF PartSent
        <4>2. 0 \in 0..Pieces
          OBVIOUS
        <4> HIDE <1>0
        <4> QED BY <4>1, <4>2
      <3> QED BY <3>1, <3>2
    <2> HIDE <1>0
    <2>2. at \in CollectorSteps /\ at \notin {"clean", "putting"} BY DEF CollectorSteps
    <2>3. UNCHANGED <<local, puts, stored, result, reader, releasing>> BY <1>4 DEF PartSent
    <2>4. puts' \subseteq AllPieces /\ local' \in Locals BY <2>3 DEF ArtifactInv, ArtifactTypeOK
    <2>5. local'.bundle => local'.archive = "sealed" \/ Published BY <2>3 DEF ArtifactInv, PackedIsNotLost
    <2> QED BY <2>1, <2>2, <2>3, <2>4, <2>5, CollectorMoves
  <1>5. ASSUME CompleteAnswered(c) PROVE ArtifactInv'
    <2>1. collector' = [collector EXCEPT ![c] = [at |-> "clean", part |-> part]]
      BY <1>5 DEF CompleteAnswered, CollectorSteps
    <2> QED BY <1>5, <2>1, CollectorMoves
            DEF CompleteAnswered, ArtifactInv, ArtifactTypeOK, CollectorSteps, PackedIsNotLost
  <1>6. ASSUME Clean(c) PROVE ArtifactInv'
    <2>1. collector' = [collector EXCEPT ![c] = [at |-> "idle", part |-> part]]
      BY <1>6 DEF Clean, CollectorSteps
    <2>2. local' \in Locals /\ Published
      BY <1>6 DEF Clean, Locals, ArtifactInv, ArtifactTypeOK, CollectorsKnow
    <2> QED BY <1>6, <2>1, <2>2, CollectorMoves DEF Clean, ArtifactInv, ArtifactTypeOK, CollectorSteps
  <1>7. ASSUME StopCollector(c) PROVE ArtifactInv'
    <2>1. collector' = [collector EXCEPT ![c] = [at |-> "idle", part |-> part]]
      BY <1>7 DEF StopCollector, CollectorSteps
    <2> QED BY <1>7, <2>1, CollectorMoves
            DEF StopCollector, ArtifactInv, ArtifactTypeOK, CollectorSteps, PackedIsNotLost
  <1> QED BY <1>1, <1>2, <1>3, <1>4, <1>5, <1>6, <1>7

\* Prepare changes the record as well, by what a reader does not look at.
LEMMA PrepareInv ==
    ASSUME ArtifactInv, NEW c \in Collectors, Prepare(c)
    PROVE  ArtifactInv'
  <1>1. result' \in Results /\ result'.state = result.state /\ result'.removed = result.removed
    BY DEF Prepare, ArtifactInv, ArtifactTypeOK, Results
  <1>2. PICK at \in CollectorSteps, part \in 0..Pieces :
           /\ collector' = [collector EXCEPT ![c] = [at |-> at, part |-> part]]
           /\ at = "clean" => Published
           /\ at = "put" => part \in AllPieces
           /\ at # "putting"
    BY PiecesAssumption DEF Prepare, Step, ArtifactInv, ArtifactTypeOK, CollectorStates, CollectorSteps, AllPieces
  <1>3. ArtifactTypeOK'
    BY <1>1, <1>2 DEF Prepare, ArtifactInv, ArtifactTypeOK, CollectorStates
  <1>4. ReadIsStored' /\ AvailableIsStored' /\ PackedIsNotLost'
    BY <1>1 DEF Prepare, ArtifactInv, ReadIsStored, Proved, AvailableIsStored, PackedIsNotLost, Published
  <1>5. CollectorsKnow'
    BY <1>1, <1>2 DEF ArtifactInv, ArtifactTypeOK, CollectorStates, CollectorsKnow, Published
  <1> QED BY <1>3, <1>4, <1>5 DEF ArtifactInv

LEMMA ReaderActions ==
    ASSUME ArtifactInv, NEW r \in Readers, BeginComplete(r) \/ VerifyPart(r) \/ AcceptResult(r)
    PROVE  ArtifactInv'
  <1>0. reader[r] \in ReaderStates /\ Pieces \in Nat \ {0} /\ CollectorsKnow
    BY PiecesAssumption DEF ArtifactInv, ArtifactTypeOK
  <1>1. ASSUME BeginComplete(r) PROVE ArtifactInv'
    <2>1. ArtifactTypeOK'
      BY <1>0, <1>1 DEF BeginComplete, ArtifactInv, ArtifactTypeOK, ReaderStates
    <2>2. Proved(r)' = {} /\ \A q \in Readers \ {r} : Proved(q)' = Proved(q)
      BY <1>0, <1>1 DEF BeginComplete, ArtifactInv, ArtifactTypeOK, ReaderStates, Proved, AllPieces
    <2> QED BY <1>1, <2>1, <2>2
            DEF BeginComplete, ArtifactInv, ReadIsStored, CollectorsKnow, AvailableIsStored, PackedIsNotLost, Published
  <1>2. ASSUME VerifyPart(r) PROVE ArtifactInv'
    <2>1. ArtifactTypeOK'
      BY <1>0, <1>2 DEF VerifyPart, ArtifactInv, ArtifactTypeOK, ReaderStates, NotReading
    <2>2. Proved(r)' \subseteq Proved(r) \cup stored /\ \A q \in Readers \ {r} : Proved(q)' = Proved(q)
      BY <1>0, <1>2 DEF VerifyPart, ArtifactInv, ArtifactTypeOK, ReaderStates, NotReading, Proved, AllPieces
    <2> QED BY <1>2, <2>1, <2>2
            DEF VerifyPart, ArtifactInv, ReadIsStored, CollectorsKnow, AvailableIsStored, PackedIsNotLost, Published
  <1>3. ASSUME AcceptResult(r) PROVE ArtifactInv'
    <2>1. ArtifactTypeOK'
      BY <1>0, <1>3 DEF AcceptResult, ArchiveAccepted, ArtifactInv, ArtifactTypeOK, ReaderStates, NotReading, Results
    <2>2. Proved(r)' = {} /\ Proved(r) = AllPieces /\ \A q \in Readers \ {r} : Proved(q)' = Proved(q)
      BY <1>0, <1>3 DEF AcceptResult, ArtifactInv, ArtifactTypeOK, ReaderStates, NotReading, Proved, AllPieces
    <2>3. \/ result' = result
          \/ ~Published /\ ~result.removed /\ result'.state = "KEEP" /\ ~result'.removed
      BY <1>3 DEF AcceptResult, ArchiveAccepted, ArtifactInv, ArtifactTypeOK, Results
    <2>4. Published' \/ ~Published
      BY <2>3 DEF Published
    <2> QED BY <1>3, <2>1, <2>2, <2>3, <2>4
            DEF AcceptResult, ArtifactInv, ReadIsStored, CollectorsKnow, AvailableIsStored, PackedIsNotLost, Published
  <1> QED BY <1>1, <1>2, <1>3

\* What the object store, a person and an administrator do: a part goes away
\* only once the archive was published for release or is removed.
LEMMA RecordActions ==
    ASSUME ArtifactInv, UNCHANGED <<collector, reader, local>>, puts' \subseteq AllPieces,
           stored' \subseteq AllPieces, result' \in Results, releasing' \in BOOLEAN,
           result'.removed \/ ~result.removed,
           result.state # "KEEP" => result'.state # "KEEP",
           Published => Published',
           stored \subseteq stored' \/ result'.removed \/ result'.state \notin {"NONE", "KEEP"}
    PROVE  ArtifactInv'
  <1>2. ReadIsStored'
    BY DEF ArtifactInv, ReadIsStored, Proved, Published
  <1>3. AvailableIsStored' /\ PackedIsNotLost' /\ CollectorsKnow'
    BY DEF ArtifactInv, AvailableIsStored, PackedIsNotLost, CollectorsKnow, Published
  <1> QED BY <1>2, <1>3 DEF ArtifactInv, ArtifactTypeOK

LEMMA KeepingActions ==
    ASSUME ArtifactInv,
           \/ StorePart \/ (\E release \in BOOLEAN : Acknowledge(release))
           \/ BeginRelease \/ ReleasePart \/ FinishRelease \/ StopRelease \/ RecordRemoval \/ RemovePart
    PROVE  ArtifactInv'
  <1> USE PiecesAssumption DEF ArtifactInv, ArtifactTypeOK
  <1>1. ASSUME StorePart PROVE ArtifactInv'
    BY <1>1, RecordActions DEF StorePart, Published
  <1>2. ASSUME NEW release \in BOOLEAN, Acknowledge(release) PROVE ArtifactInv'
    <2>2. Published' /\ (result.state # "KEEP" => result'.state # "KEEP")
      BY <1>2 DEF Acknowledge, Retention, Results, Published
    <2> QED BY <1>2, <2>2, RecordActions DEF Acknowledge, Retention, Results
  <1>3. ASSUME BeginRelease PROVE ArtifactInv'
    <2> QED BY <1>3, RecordActions DEF BeginRelease, Published, Results
  <1>4. ASSUME ReleasePart PROVE ArtifactInv'
    <2> QED BY <1>4, RecordActions DEF ReleasePart, Published, Results
  <1>5. ASSUME FinishRelease PROVE ArtifactInv'
    <2> QED BY <1>5, RecordActions DEF FinishRelease, Published, Results
  <1>6. ASSUME StopRelease PROVE ArtifactInv'
    BY <1>6, RecordActions DEF StopRelease, Published
  <1>7. ASSUME RecordRemoval PROVE ArtifactInv'
    <2> QED BY <1>7, RecordActions DEF RecordRemoval, Published, Results
  <1>8. ASSUME RemovePart PROVE ArtifactInv'
    <2> QED BY <1>8, RecordActions DEF RemovePart, Published, Results
  <1> QED BY <1>1, <1>2, <1>3, <1>4, <1>5, <1>6, <1>7, <1>8

LEMMA ArtifactInvariant == ArtifactSpec => []ArtifactInv
  <1>1. ASSUME ArtifactInv, [ArtifactNext]_artifactVars PROVE ArtifactInv'
    <2>1. CASE UNCHANGED artifactVars
      BY <1>1, <2>1
         DEF artifactVars, ArtifactInv, ArtifactTypeOK, ReadIsStored, Proved, CollectorsKnow, AvailableIsStored,
             PackedIsNotLost, Published
    <2>2. CASE ArtifactNext
      BY <1>1, <2>2, CollectorActions, PrepareInv, ReaderActions, KeepingActions DEF ArtifactNext
    <2> QED BY <1>1, <2>1, <2>2
  <1> QED BY <1>1, ArtifactInitInv, PTL DEF ArtifactSpec

(* The archive of an Attempt, for every number of parts, collectors and
   requests: what is offered for download is whole in the object store,
   although the server read it without its lock, and the packed copy stays
   until the server has published it. *)
THEOREM ResultsAreKept == ArtifactSpec => []BundlesAreKept
  <1>1. ArtifactInv => BundlesAreKept
    BY DEF ArtifactInv, BundlesAreKept
  <1> QED BY <1>1, ArtifactInvariant, PTL

------------
(* One name of a directory.  A replacer has the lock from its read to its
   end, and what it is about to publish contains what the name refers to;
   an inode is named only after its last byte was synced, and from then on
   is never written; what was reported is in every record that a crash may
   leave. *)
Inodes == Writers \cup {Older}
FileStates == [bytes : {"none", "part", "whole"}, synced : BOOLEAN, holds : SUBSET Writers]
Preparing == {"lock", "read", "temporary", "sync", "rename"}

FilesTypeOK ==
    /\ publishers \subseteq Writers
    /\ entry \in durable /\ durable \subseteq Inodes \cup {Unnamed}
    /\ file \in [Inodes -> FileStates]
    /\ flock \in Writers \cup {Unnamed}
    /\ refs \in [Writers -> SUBSET {"self", "child"}]
    /\ writing \in [Writers -> Preparing \cup {"linked", "fsync", "clean"} \cup Finished]

\* A publisher takes no lock, a replacer has it as long as it works.
PublisherIsFree(w) == w \in publishers => writing[w] \notin {"lock", "read"} /\ refs[w] = {} /\ flock # w
WorkerHolds(w) ==
    w \notin publishers /\ writing[w] \notin Finished \cup {"lock"} => flock = w /\ "self" \in refs[w]
OnlyWorkersHold(w) ==
    writing[w] \in Finished \cup {"lock"} =>
        "self" \notin refs[w] /\ (flock = w => writing[w] = "gone" /\ "child" \in refs[w])

\* What is about to be published.
IsWritten(w) ==
    /\ writing[w] \in {"sync", "rename"} => file[w].bytes = "whole" /\ w \in file[w].holds
    /\ writing[w] = "rename" => file[w].synced
    /\ w \in durable => writing[w] \notin Preparing
Continues(w) ==
    w \notin publishers /\ writing[w] \in {"temporary", "sync", "rename"} =>
        entry # Unnamed /\ file[entry].holds \subseteq file[w].holds
IsPublished(w) == writing[w] \in {"linked", "fsync"} => entry # Unnamed /\ w \in file[entry].holds

LockInv == \A w \in Writers : PublisherIsFree(w) /\ WorkerHolds(w) /\ OnlyWorkersHold(w)
DataInv ==
    /\ \A w \in Writers : IsWritten(w) /\ Continues(w) /\ IsPublished(w)
    /\ SuccessIsKept /\ NothingPartial
FilesInv == FilesTypeOK /\ LockInv /\ DataInv

LEMMA OlderIsApart == Older \notin Writers /\ Unnamed \notin Inodes
  <1> QED BY WritersAssumption, FS_CardinalityType DEF Older, Unnamed, Inodes

LEMMA FilesInitInv == FilesInit => FilesInv
  <1> SUFFICES ASSUME FilesInit PROVE FilesInv
    OBVIOUS
  <1>1. publishers \subseteq Writers /\ (entry = Older \/ entry = Unnamed) /\ durable = {entry}
    BY WritersAssumption DEF FilesInit
  <1>2. FilesTypeOK
    <2>2. refs \in [Writers -> SUBSET {"self", "child"}]
      BY DEF FilesInit
    <2>3. writing \in [Writers -> Preparing \cup {"linked", "fsync", "clean"} \cup Finished]
      BY DEF FilesInit, Preparing
    <2> QED BY <1>1, <2>2, <2>3 DEF FilesInit, FilesTypeOK, Inodes, FileStates
  <1>3. \A w \in Writers : writing[w] = IF w \in publishers THEN "temporary" ELSE "lock"
    BY DEF FilesInit
  <1>4. LockInv
    BY <1>3, OlderIsApart DEF FilesInit, LockInv, PublisherIsFree, WorkerHolds, OnlyWorkersHold, Inodes, Finished
  <1>5. DataInv
    <2>1. Older \in Inodes => file[Older].bytes = "whole" /\ file[Older].synced
      BY DEF FilesInit, Inodes
    <2> QED BY <1>1, <1>3, <2>1, OlderIsApart
            DEF DataInv, IsWritten, Continues, IsPublished, SuccessIsKept, NothingPartial, Inodes, Preparing
  <1> QED BY <1>2, <1>4, <1>5 DEF FilesInv

\* A call goes on while it has what it had of the lock.
LEMMA LockKept ==
    ASSUME FilesInv, NEW w \in Writers, NEW at, To(w, at), UNCHANGED <<publishers, lockVars>>,
           at \notin {"lock", "read"},
           w \in publishers \/ (writing[w] \notin Finished \cup {"lock"} /\ at \notin Finished)
    PROVE  LockInv'
  BY DEF FilesInv, FilesTypeOK, LockInv, PublisherIsFree, WorkerHolds, OnlyWorkersHold, To, lockVars

\* The data of the other calls is left alone: the name and what a crash may
\* leave of it are the same, or what the name refers to is made to last.
LEMMA NameKept ==
    ASSUME FilesInv, NEW w \in Writers, NEW at, To(w, at), UNCHANGED publishers,
           \A x \in Inodes \ {w} : file'[x] = file[x],
           file' = file \/ w \notin durable,
           entry' = entry, durable' = durable \/ durable' = {entry},
           (IsWritten(w) /\ Continues(w) /\ IsPublished(w))',
           at = "ok" => durable' = {entry} /\ entry # Unnamed /\ w \in file[entry].holds
    PROVE  DataInv'
  <1>0. /\ \A x \in durable : x # Unnamed => x \in Inodes /\ file'[x] = file[x]
        /\ durable' \subseteq durable /\ entry \in durable
        /\ \A x \in Writers \ {w} : writing'[x] = writing[x]
        /\ writing'[w] = at
    BY DEF FilesInv, FilesTypeOK, To
  <1>1. ASSUME NEW x \in Writers \ {w} PROVE (IsWritten(x) /\ Continues(x) /\ IsPublished(x))'
    <2> QED BY <1>0 DEF IsWritten, Continues, IsPublished, FilesInv, DataInv, Inodes
  <1>3. NothingPartial'
    BY <1>0 DEF FilesInv, DataInv, NothingPartial
  <1> QED BY <1>1, <1>0, <1>3 DEF DataInv, FilesInv, SuccessIsKept

\* A name that refers to a written file: nothing was there, or a replacer with
\* the lock read what was.
LEMMA NameTaken ==
    ASSUME FilesInv, NEW w \in Writers, NEW at \in {"linked", "fsync"}, To(w, at), UNCHANGED <<publishers, file>>,
           writing[w] = "rename", MayTake(w), Enter(w)
    PROVE  DataInv'
  <1>0. /\ \A x \in Writers \ {w} : writing'[x] = writing[x]
        /\ writing'[w] = at /\ w # Unnamed /\ entry \in durable
        /\ w \in file[w].holds /\ file[w].bytes = "whole" /\ file[w].synced
    BY OlderIsApart DEF FilesInv, FilesTypeOK, To, DataInv, IsWritten, Inodes
  <1>1. entry # Unnamed => w \notin publishers /\ flock = w /\ file[entry].holds \subseteq file[w].holds
    BY DEF MayTake, FilesInv, LockInv, WorkerHolds, DataInv, Continues, Finished
  <1>2. ASSUME NEW x \in Writers \ {w} PROVE (IsWritten(x) /\ Continues(x) /\ IsPublished(x))'
    <2>1. IsWritten(x) /\ Continues(x) /\ IsPublished(x) /\ WorkerHolds(x)
      BY DEF FilesInv, DataInv, LockInv
    <2>3. Continues(x)'
      BY <1>0, <1>1, <2>1 DEF Continues, WorkerHolds, Finished, Enter
    <2>4. IsPublished(x)'
      BY <1>0, <1>1, <2>1 DEF IsPublished, Enter
    <2> QED BY <1>0, <2>1, <2>3, <2>4 DEF IsWritten, Enter
  <1>3. (IsWritten(w) /\ Continues(w) /\ IsPublished(w))'
    BY <1>0 DEF IsWritten, Continues, IsPublished, Enter, Preparing
  <1>4. SuccessIsKept'
    BY <1>0, <1>1 DEF FilesInv, DataInv, SuccessIsKept, Enter
  <1>5. NothingPartial'
    BY <1>0 DEF FilesInv, DataInv, NothingPartial, Enter
  <1> QED BY <1>2, <1>3, <1>4, <1>5 DEF DataInv

LEMMA CallGoes ==
    ASSUME FilesTypeOK, NEW w \in Writers, NEW at \in Preparing \cup {"linked", "fsync", "clean"} \cup Finished, To(w, at)
    PROVE  /\ writing' \in [Writers -> Preparing \cup {"linked", "fsync", "clean"} \cup Finished]
           /\ writing'[w] = at /\ \A x \in Writers \ {w} : writing'[x] = writing[x]
  BY DEF FilesTypeOK, To

\* The end of a call: a replacer gives its lock back.
LEMMA FileCallEnds ==
    ASSUME FilesInv, NEW w \in Writers, NEW at \in {"ok", "exists", "error"}, EndCall(w, at), UNCHANGED publishers,
           w \in publishers \/ writing[w] \notin Finished \cup {"lock"}
    PROVE  /\ LockInv' /\ flock' \in Writers \cup {Unnamed} /\ refs' \in [Writers -> SUBSET {"self", "child"}]
           /\ To(w, at)
  <1>1. CASE w \in publishers
    BY <1>1 DEF EndCall, lockVars, FilesInv, FilesTypeOK, LockInv, PublisherIsFree, WorkerHolds, OnlyWorkersHold, To
  <1>2. CASE w \notin publishers
    <2>1. /\ refs' \in [Writers -> SUBSET {"self", "child"}]
          /\ refs'[w] = refs[w] \ {"self"} /\ \A x \in Writers \ {w} : refs'[x] = refs[x]
          /\ flock = w /\ flock' = Unnamed /\ To(w, at)
      BY <1>2 DEF EndCall, Unlock, FilesInv, FilesTypeOK, LockInv, WorkerHolds
    <2>2. writing'[w] = at /\ \A x \in Writers \ {w} : writing'[x] = writing[x]
      BY <2>1 DEF FilesInv, FilesTypeOK, To
    <2>3. ASSUME NEW x \in Writers PROVE (PublisherIsFree(x) /\ WorkerHolds(x) /\ OnlyWorkersHold(x))'
      <3>1. PublisherIsFree(x) /\ WorkerHolds(x) /\ OnlyWorkersHold(x) /\ x # Unnamed
        BY OlderIsApart DEF FilesInv, LockInv, Inodes
      <3> QED BY <1>2, <2>1, <2>2, <3>1 DEF PublisherIsFree, WorkerHolds, OnlyWorkersHold, Finished
    <2> QED BY <2>1, <2>3 DEF LockInv
  <1> QED BY <1>1, <1>2

LEMMA LockTaken == ASSUME FilesInv, NEW w \in Writers, Lock(w) PROVE FilesInv'
  <1>0. "read" \in Preparing /\ To(w, "read") /\ FilesTypeOK /\ w # Unnamed
    BY OlderIsApart DEF Lock, Preparing, FilesInv, Inodes
  <1>1. FilesTypeOK'
    BY <1>0, CallGoes DEF Lock, entryVars, FilesTypeOK
  <1>2. /\ writing'[w] = "read" /\ refs'[w] = {"self"} /\ flock' = w /\ flock = Unnamed
        /\ \A x \in Writers \ {w} : writing'[x] = writing[x] /\ refs'[x] = refs[x]
    BY <1>0, CallGoes DEF Lock, FilesTypeOK
  <1>3. ASSUME NEW x \in Writers PROVE (PublisherIsFree(x) /\ WorkerHolds(x) /\ OnlyWorkersHold(x))'
    <2>1. PublisherIsFree(x) /\ WorkerHolds(x) /\ OnlyWorkersHold(x) /\ x # Unnamed
      BY OlderIsApart DEF FilesInv, LockInv, Inodes
    <2> QED BY <1>2, <2>1 DEF Lock, PublisherIsFree, WorkerHolds, OnlyWorkersHold, Finished
  <1>4. (IsWritten(w) /\ Continues(w) /\ IsPublished(w))'
    BY <1>2 DEF Lock, entryVars, FilesInv, DataInv, IsWritten, Continues, IsPublished, Preparing
  <1>5. DataInv'
    BY <1>0, <1>4, NameKept DEF Lock, entryVars
  <1> QED BY <1>1, <1>3, <1>5 DEF FilesInv, LockInv

LEMMA LockRefused == ASSUME FilesInv, NEW w \in Writers, LockIsHeld(w) PROVE FilesInv'
  <1>0. "busy" \in Finished /\ To(w, "busy") /\ FilesTypeOK
    BY DEF LockIsHeld, Finished, FilesInv
  <1>1. FilesTypeOK'
    BY <1>0, CallGoes DEF LockIsHeld, entryVars, lockVars, FilesTypeOK
  <1>2. writing'[w] = "busy" /\ \A x \in Writers \ {w} : writing'[x] = writing[x]
    BY <1>0, CallGoes
  <1>3. ASSUME NEW x \in Writers PROVE (PublisherIsFree(x) /\ WorkerHolds(x) /\ OnlyWorkersHold(x))'
    <2>1. PublisherIsFree(x) /\ WorkerHolds(x) /\ OnlyWorkersHold(x)
      BY DEF FilesInv, LockInv
    <2> QED BY <1>2, <2>1 DEF LockIsHeld, lockVars, PublisherIsFree, WorkerHolds, OnlyWorkersHold, Finished
  <1>4. (IsWritten(w) /\ Continues(w) /\ IsPublished(w))'
    BY <1>2 DEF IsWritten, Continues, IsPublished, Preparing
  <1>5. DataInv'
    BY <1>0, <1>4, NameKept DEF LockIsHeld, entryVars
  <1> QED BY <1>1, <1>3, <1>5 DEF FilesInv, LockInv

\* A concurrent fork and its end touch nothing but the description.
LEMMA Inherited == ASSUME FilesInv, NEW w \in Writers, Fork(w) \/ ChildExecutes(w) PROVE FilesInv'
  <1>0. /\ refs' \in [Writers -> SUBSET {"self", "child"}]
        /\ \A x \in Writers \ {w} : refs'[x] = refs[x]
        /\ "self" \in refs'[w] <=> "self" \in refs[w]
        /\ UNCHANGED <<publishers, entry, durable, file, writing>>
    BY DEF FilesInv, FilesTypeOK, Fork, ChildExecutes, entryVars
  <1>1. flock' = flock \/ (flock = w /\ "self" \notin refs[w] /\ flock' = Unnamed)
    BY <1>0 DEF Fork, ChildExecutes
  <1>3. ASSUME NEW x \in Writers PROVE (PublisherIsFree(x) /\ WorkerHolds(x) /\ OnlyWorkersHold(x))'
    <2>1. PublisherIsFree(x) /\ WorkerHolds(x) /\ OnlyWorkersHold(x) /\ x # Unnamed
      BY OlderIsApart DEF FilesInv, LockInv, Inodes
    <2>2. PublisherIsFree(x)'
      BY <1>0, <1>1, <2>1 DEF PublisherIsFree, Fork, ChildExecutes
    <2>4. OnlyWorkersHold(x)'
      <3>1. CASE x # w
        BY <1>0, <1>1, <2>1, <3>1 DEF OnlyWorkersHold
      <3>2. CASE x = w /\ Fork(w)
        BY <1>0, <2>1, <3>2 DEF OnlyWorkersHold, Fork
      <3>3. CASE x = w /\ ChildExecutes(w)
        <4> QED BY <1>0, <2>1, <3>3 DEF OnlyWorkersHold, ChildExecutes, FilesInv, FilesTypeOK
      <3> QED BY <3>1, <3>2, <3>3
    <2> QED BY <2>2, <1>0, <1>1, <2>1, <2>4 DEF WorkerHolds
  <1>4. DataInv'
    BY <1>0 DEF FilesInv, DataInv, IsWritten, Continues, IsPublished, SuccessIsKept, NothingPartial
  <1> QED BY <1>0, <1>1, <1>3, <1>4 DEF FilesInv, LockInv, FilesTypeOK

LEMMA RecordRead == ASSUME FilesInv, NEW w \in Writers, ReadRecord(w) PROVE FilesInv'
  <1>0. /\ FilesTypeOK /\ w \in Inodes /\ w # Unnamed /\ w \notin durable /\ entry \in durable
        /\ w \notin publishers /\ flock = w
    BY OlderIsApart
       DEF FilesInv, FilesTypeOK, Inodes, DataInv, IsWritten, Preparing, ReadRecord, LockInv, PublisherIsFree,
           WorkerHolds, Finished
  <1>1. CASE entry = Unnamed
    <2>1. EndCall(w, "error") /\ UNCHANGED <<publishers, entryVars, file>>
      BY <1>1 DEF ReadRecord
    <2>2. /\ LockInv' /\ flock' \in Writers \cup {Unnamed} /\ refs' \in [Writers -> SUBSET {"self", "child"}]
          /\ To(w, "error")
      BY <1>0, <2>1, FileCallEnds DEF ReadRecord, Finished
    <2>3. FilesTypeOK' /\ writing'[w] = "error"
      BY <1>0, <2>1, <2>2, CallGoes DEF FilesTypeOK, entryVars, Finished
    <2>4. (IsWritten(w) /\ Continues(w) /\ IsPublished(w))'
      BY <2>3 DEF IsWritten, Continues, IsPublished, Preparing
    <2> QED BY <2>2, <2>3, <2>1, <2>4, NameKept DEF FilesInv, entryVars
  <1>2. CASE entry # Unnamed
    <2>1. /\ file' = [file EXCEPT ![w].holds = file[entry].holds]
          /\ To(w, "temporary") /\ UNCHANGED <<publishers, entryVars, lockVars>>
      BY <1>2 DEF ReadRecord
    <2>3. /\ file' \in [Inodes -> FileStates] /\ file'[w].holds = file[entry].holds
          /\ \A x \in Inodes \ {w} : file'[x] = file[x] BY <1>0, <2>1, <1>2 DEF FilesTypeOK, FileStates
    <2>4. FilesTypeOK' /\ writing'[w] = "temporary"
      BY <1>0, <2>1, <2>3, CallGoes DEF FilesTypeOK, entryVars, lockVars, Preparing
    <2>6. (IsWritten(w) /\ Continues(w) /\ IsPublished(w))'
      BY <1>0, <1>2, <2>1, <2>3, <2>4 DEF entryVars, IsWritten, Continues, IsPublished, FilesTypeOK
    <2>7. DataInv'
      BY <1>0, <2>1, <2>3, <2>6, NameKept DEF entryVars
    <2> QED BY <2>4, <2>1, LockKept, <2>7 DEF FilesInv, ReadRecord, Finished
  <1> QED BY <1>1, <1>2

LEMMA BytesWritten == ASSUME FilesInv, NEW w \in Writers, WriteAll(w) PROVE FilesInv'
  <1>0. FilesTypeOK /\ w \in Inodes /\ w \notin durable /\ entry \in durable
    BY DEF FilesInv, FilesTypeOK, Inodes, DataInv, IsWritten, Preparing, WriteAll
  <1>1. PICK content \in {"part", "whole"} :
           /\ file' = [file EXCEPT ![w].bytes = content, ![w].holds = @ \cup {w}]
           /\ To(w, IF content = "whole" THEN "sync" ELSE "clean")
    BY DEF WriteAll
  <1>2. PICK at \in {"sync", "clean"} : To(w, at) /\ (at = "sync" => content = "whole")
    BY <1>1
  <1>3. /\ file'[w] \in FileStates /\ file'[w].bytes = content /\ file'[w].holds = file[w].holds \cup {w}
        /\ \A x \in Inodes \ {w} : file'[x] = file[x]
    BY <1>0, <1>1 DEF FilesTypeOK, FileStates
  <1>4. file' \in [Inodes -> FileStates]
    BY <1>0, <1>1, <1>3 DEF FilesTypeOK
  <1>5. FilesTypeOK' /\ writing'[w] = at
    BY <1>0, <1>2, <1>4, CallGoes DEF WriteAll, FilesTypeOK, entryVars, lockVars, Preparing
  <1>6. LockInv'
    BY <1>2, LockKept DEF WriteAll, Finished
  <1>7. (IsWritten(w) /\ Continues(w) /\ IsPublished(w))'
    <2>1. Continues(w)
      BY DEF FilesInv, DataInv
    <2> QED BY <1>0, <1>2, <1>3, <1>5, <2>1 DEF WriteAll, entryVars, IsWritten, Continues, IsPublished, FilesTypeOK
  <1>8. DataInv'
    BY <1>0, <1>2, <1>3, <1>7, NameKept DEF WriteAll, entryVars
  <1> QED BY <1>5, <1>6, <1>8 DEF FilesInv

LEMMA BytesSynced == ASSUME FilesInv, NEW w \in Writers, SyncAll(w) PROVE FilesInv'
  <1>0. FilesTypeOK /\ w \in Inodes /\ w \notin durable /\ entry \in durable
    BY DEF FilesInv, FilesTypeOK, Inodes, DataInv, IsWritten, Preparing, SyncAll
  <1>1. PICK at \in {"rename", "clean"} :
           /\ To(w, at)
           /\ \/ at = "rename" /\ file' = [file EXCEPT ![w].synced = TRUE]
              \/ at = "clean" /\ file' = file
    BY DEF SyncAll, SyncBytes
  <1>2. /\ file' \in [Inodes -> FileStates] /\ file'[w].bytes = file[w].bytes /\ file'[w].holds = file[w].holds
        /\ at = "rename" => file'[w].synced
        /\ \A x \in Inodes \ {w} : file'[x] = file[x]
    <2>1. CASE file' = file /\ at = "clean"
      BY <2>1 DEF FilesInv, FilesTypeOK
    <2>2. CASE file' = [file EXCEPT ![w].synced = TRUE]
      <3> QED BY <1>0, <2>2 DEF FilesTypeOK, FileStates
    <2> QED BY <1>1, <2>1, <2>2
  <1>3. FilesTypeOK' /\ writing'[w] = at
    BY <1>0, <1>1, <1>2, CallGoes DEF SyncAll, FilesTypeOK, entryVars, lockVars, Preparing
  <1>5. (IsWritten(w) /\ Continues(w) /\ IsPublished(w))'
    <2>1. Continues(w) /\ IsWritten(w)
      BY DEF FilesInv, DataInv
    <2> QED BY <1>0, <1>1, <1>2, <1>3, <2>1 DEF SyncAll, entryVars, IsWritten, Continues, IsPublished, FilesTypeOK
  <1>6. DataInv'
    BY <1>0, <1>1, <1>2, <1>5, NameKept DEF SyncAll, entryVars
  <1> QED BY <1>3, <1>1, LockKept, <1>6 DEF FilesInv, SyncAll, Finished

LEMMA Named == ASSUME FilesInv, NEW w \in Writers, Rename(w) \/ Link(w) PROVE FilesInv'
  <1>0. FilesTypeOK /\ w \in Inodes /\ writing[w] = "rename" /\ UNCHANGED <<publishers, file, lockVars>>
    BY DEF FilesInv, Inodes, Rename, Link
  <1>1. CASE MayTake(w)
    <2>1. PICK at \in {"linked", "fsync"} : Enter(w) /\ To(w, at)
      BY <1>1 DEF Rename, Link
    <2>2. FilesTypeOK'
      BY <1>0, <2>1, CallGoes DEF FilesTypeOK, Enter, lockVars
    <2>3. LockInv'
      BY <1>0, <2>1, LockKept DEF Finished
    <2> QED BY <1>0, <1>1, <2>1, <2>2, <2>3, NameTaken DEF FilesInv
  <1>2. CASE ~MayTake(w)
    <2>1. UNCHANGED entryVars /\ To(w, "exists") /\ w \in publishers
      BY <1>2 DEF Rename, Link, MayTake
    <2>2. FilesTypeOK' /\ writing'[w] = "exists"
      BY <1>0, <2>1, CallGoes DEF FilesTypeOK, entryVars, lockVars, Finished
    <2>3. LockInv'
      BY <1>0, <2>1, LockKept
    <2>4. (IsWritten(w) /\ Continues(w) /\ IsPublished(w))'
      BY <2>2 DEF IsWritten, Continues, IsPublished, Preparing
    <2> QED BY <1>0, <2>1, <2>2, <2>3, <2>4, NameKept DEF FilesInv, entryVars
  <1> QED BY <1>1, <1>2

\* The name is made to last, or that failed: a link, or the directory.
LEMMA LinkSynced == ASSUME FilesInv, NEW w \in Writers, SyncLink(w) PROVE FilesInv'
  <1>0. FilesTypeOK /\ IsWritten(w) /\ IsPublished(w) /\ UNCHANGED <<publishers, file, lockVars>>
    BY DEF FilesInv, DataInv, SyncLink
  <1>1. PICK at \in {"fsync", "clean"} : To(w, at)
    BY DEF SyncLink
  <1>2. entry' = entry /\ (durable' = durable \/ durable' = {entry})
    BY DEF SyncLink, SyncEntry, entryVars
  <1>3. FilesTypeOK' /\ writing'[w] = at
    BY <1>0, <1>1, <1>2, CallGoes DEF FilesTypeOK, lockVars
  <1>4. LockInv'
    BY <1>0, <1>1, LockKept DEF SyncLink, Finished
  <1>5. (IsWritten(w) /\ Continues(w) /\ IsPublished(w))'
    BY <1>0, <1>2, <1>3 DEF SyncLink, IsWritten, Continues, IsPublished, Preparing
  <1> QED BY <1>0, <1>1, <1>2, <1>3, <1>4, <1>5, NameKept DEF FilesInv

LEMMA DirectorySynced == ASSUME FilesInv, NEW w \in Writers, SyncDirectory(w) \/ RemoveTemporary(w) PROVE FilesInv'
  <1>0. FilesTypeOK /\ IsPublished(w) /\ UNCHANGED <<publishers, file>> /\ writing[w] \in {"fsync", "clean"}
    BY DEF FilesInv, DataInv, SyncDirectory, RemoveTemporary
  <1>1. entry' = entry /\ (durable' = durable \/ durable' = {entry})
    BY DEF SyncDirectory, RemoveTemporary, SyncEntry, entryVars
  <1>2. PICK at \in {"ok", "error", "clean"} :
           /\ at = "ok" => writing[w] = "fsync" /\ durable' = {entry}
           /\ \/ at = "clean" /\ To(w, at) /\ UNCHANGED lockVars
              \/ at # "clean" /\ EndCall(w, at)
    BY DEF SyncDirectory, RemoveTemporary, SyncEntry
  <1>3. /\ LockInv' /\ flock' \in Writers \cup {Unnamed} /\ refs' \in [Writers -> SUBSET {"self", "child"}]
        /\ To(w, at)
    <2>1. CASE at = "clean"
      BY <1>0, <1>2, <2>1, LockKept DEF Finished, lockVars, FilesTypeOK
    <2>2. CASE at # "clean"
      BY <1>0, <1>2, <2>2, FileCallEnds DEF Finished
    <2> QED BY <2>1, <2>2
  <1>4. FilesTypeOK' /\ writing'[w] = at
    BY <1>0, <1>1, <1>3, CallGoes DEF FilesTypeOK, Finished
  <1>5. (IsWritten(w) /\ Continues(w) /\ IsPublished(w))'
    BY <1>4 DEF IsWritten, Continues, IsPublished, Preparing
  <1> QED BY <1>0, <1>1, <1>2, <1>3, <1>4, <1>5, NameKept DEF FilesInv, IsPublished

\* A killed replacer leaves its lock to a child that inherited it, if any.
LEMMA Killed == ASSUME FilesInv, NEW w \in Writers, Kill(w) PROVE FilesInv'
  <1>0. FilesTypeOK /\ To(w, "gone") /\ "gone" \in Finished /\ w # Unnamed
    BY OlderIsApart DEF FilesInv, Kill, Finished, Inodes
  <1>1. /\ refs' \in [Writers -> SUBSET {"self", "child"}]
        /\ refs'[w] = refs[w] \ {"self"} /\ \A x \in Writers \ {w} : refs'[x] = refs[x]
        /\ flock' = IF flock = w /\ refs'[w] = {} THEN Unnamed ELSE flock
    BY <1>0 DEF Kill, FilesTypeOK
  <1>2. FilesTypeOK' /\ writing'[w] = "gone" /\ \A x \in Writers \ {w} : writing'[x] = writing[x]
    BY <1>0, <1>1, CallGoes DEF Kill, entryVars, FilesTypeOK
  <1>3. ASSUME NEW x \in Writers PROVE (PublisherIsFree(x) /\ WorkerHolds(x) /\ OnlyWorkersHold(x))'
    <2>1. PublisherIsFree(x) /\ WorkerHolds(x) /\ OnlyWorkersHold(x) /\ x # Unnamed
      BY OlderIsApart DEF FilesInv, LockInv, Inodes
    <2>2. CASE x # w
      BY <1>1, <1>2, <2>1, <2>2 DEF Kill, PublisherIsFree, WorkerHolds, OnlyWorkersHold
    <2>3. CASE x = w
      <3>1. flock' = w => "child" \in refs'[w]
        BY <1>0, <1>1 DEF FilesTypeOK
      <3> QED BY <1>0, <1>1, <1>2, <2>1, <2>3, <3>1 DEF Kill, PublisherIsFree, WorkerHolds, OnlyWorkersHold
    <2> QED BY <2>2, <2>3
  <1>4. (IsWritten(w) /\ Continues(w) /\ IsPublished(w))'
    BY <1>2 DEF IsWritten, Continues, IsPublished, Preparing
  <1>5. DataInv'
    BY <1>0, <1>4, NameKept DEF Kill, entryVars
  <1> QED BY <1>2, <1>3, <1>5 DEF FilesInv, LockInv

\* A crash of the machine: no call is in between, and the name is what one of
\* the possible entries makes it.
LEMMA Crashed == ASSUME FilesInv, MachineStops PROVE FilesInv'
  <1>1. PICK left \in durable : entry' = left /\ durable' = {left}
    BY DEF MachineStops
  <1>2. ASSUME NEW x \in Inodes
        PROVE  /\ file'[x] \in FileStates /\ file'[x].holds = file[x].holds /\ file'[x].synced = file[x].synced
               /\ file[x].synced => file'[x].bytes = file[x].bytes
    <2>1. file[x] \in FileStates /\ x \in DOMAIN file
      BY DEF FilesInv, FilesTypeOK
    <2> QED BY <2>1 DEF FileStates, MachineStops
  <1>3. file' \in [Inodes -> FileStates]
    <2> QED BY <1>2 DEF MachineStops, FilesInv, FilesTypeOK
  <1>4. \A w \in Writers : writing'[w] = IF Begun(w) THEN "gone" ELSE writing[w]
    BY DEF MachineStops
  <1>5. FilesTypeOK'
    <2>1. writing' \in [Writers -> Preparing \cup {"linked", "fsync", "clean"} \cup Finished]
      BY <1>4 DEF MachineStops, FilesInv, FilesTypeOK, Finished
    <2> QED BY <1>1, <1>3, <2>1 DEF MachineStops, FilesInv, FilesTypeOK
  <1>6. ASSUME NEW w \in Writers
        PROVE  (PublisherIsFree(w) /\ WorkerHolds(w) /\ OnlyWorkersHold(w) /\ IsWritten(w) /\ Continues(w) /\ IsPublished(w))'
    <2>1. PublisherIsFree(w) /\ IsWritten(w) /\ w # Unnamed /\ refs'[w] = {} /\ flock' = Unnamed /\ publishers' = publishers
      BY OlderIsApart DEF MachineStops, FilesInv, LockInv, DataInv, Inodes
    <2>2. \/ writing'[w] \in Finished
          \/ writing'[w] = (IF w \in publishers THEN "temporary" ELSE "lock") /\ writing'[w] = writing[w]
      BY <1>4 DEF Begun, Finished
    <2>4. (IsWritten(w) /\ Continues(w) /\ IsPublished(w))'
      BY <1>1, <2>1, <2>2 DEF IsWritten, Continues, IsPublished, Finished, Preparing
    <2> QED BY <2>1, <2>2, <2>4 DEF PublisherIsFree, WorkerHolds, OnlyWorkersHold, Finished
  <1>7. left # Unnamed => left \in Inodes
    BY DEF FilesInv, FilesTypeOK
  <1>8. SuccessIsKept'
    BY <1>1, <1>2, <1>4, <1>7 DEF FilesInv, DataInv, SuccessIsKept
  <1>9. NothingPartial'
    BY <1>1, <1>2, <1>7 DEF FilesInv, DataInv, NothingPartial
  <1> QED BY <1>5, <1>6, <1>8, <1>9 DEF FilesInv, LockInv, DataInv

LEMMA FilesInvariant == FilesSpec => []FilesInv
  <1>1. ASSUME FilesInv, [FilesNext]_fileVars PROVE FilesInv'
    <2>1. CASE UNCHANGED fileVars
      <3>2. LockInv'
        BY <1>1, <2>1 DEF fileVars, FilesInv, LockInv, PublisherIsFree, WorkerHolds, OnlyWorkersHold
      <3>3. DataInv'
        BY <1>1, <2>1
           DEF fileVars, FilesInv, DataInv, IsWritten, Continues, IsPublished, SuccessIsKept, NothingPartial
      <3> QED BY <1>1, <2>1, <3>2, <3>3 DEF FilesInv, fileVars, FilesTypeOK
    <2>2. CASE MachineStops
      BY <1>1, <2>2, Crashed
    <2>3. CASE FilesNext /\ ~MachineStops
      BY <1>1, <2>3, LockTaken, LockRefused, Inherited, RecordRead, BytesWritten, BytesSynced, Named, LinkSynced,
         DirectorySynced, Killed DEF FilesNext
    <2> QED BY <1>1, <2>1, <2>2, <2>3
  <1> QED BY <1>1, FilesInitInv, PTL DEF FilesSpec

(* publish_new and replace_regular, for any number of calls and crashes:
   what was reported as written is in every record that a crash may leave,
   no record is partial, and a lock that was dropped is free whatever a
   concurrent fork inherited. *)
THEOREM WritesAreDurable == FilesSpec => []PublicationIsDurable
  <1>1. FilesInv => PublicationIsDurable
    <2> QED BY DEF FilesInv, DataInv, PublicationIsDurable, FilesTypeOK, LockInv, OnlyWorkersHold, DroppedIsFree
  <1> QED BY <1>1, FilesInvariant, PTL

------------
(* Debug machines.  A create is sent once, after its claim and only while
   the machine counts; a handle is of an instance that was found, a delete
   of one that had ended.  So what runs or may come to run counts, and the
   count grows only by debug_create, below the limit. *)
MachineRecords == [exists : BOOLEAN, handle : BOOLEAN, create : BOOLEAN, delete : BOOLEAN, stopping : BOOLEAN,
                   deleting : BOOLEAN, terminal : BOOLEAN, deleted : BOOLEAN, rejected : BOOLEAN]

DebugTypeOK ==
    /\ machine \in [Machines -> MachineRecords]
    /\ instance \in [Machines -> {"none", "running", "stopped", "gone"}]
    /\ creating \subseteq Machines

\* What one record says of the instance of its machine.
RecordExplains(r, there, sent) ==
    /\ sent => r.create /\ ~r.handle /\ ~r.rejected /\ there = "none"
    /\ there # "none" => r.create
    /\ r.create => r.exists
    /\ r.terminal => there # "running" /\ ~sent /\ (r.create \/ r.stopping)
    /\ r.rejected => r.create /\ r.terminal /\ there = "none"
    /\ r.handle => there # "none"
    /\ r.delete => there \in {"stopped", "gone"}
    /\ r.deleted => (r.rejected \/ there = "gone")

CountedMachines == {d \in Made : Counted(d)}

DebugInv ==
    /\ DebugTypeOK
    /\ \A d \in Machines : RecordExplains(machine[d], instance[d], d \in creating)
    /\ Cardinality(CountedMachines) <= MaxActive

LEMMA CountedIsFinite == IsFiniteSet(CountedMachines) /\ Cardinality(CountedMachines) \in Nat
  <1> QED BY MachinesAssumption, FS_Subset, FS_CardinalityType DEF CountedMachines, Made

\* A step on one machine whose record still explains its instance; it counts
\* only if it did, or below the limit.
LEMMA MachineMoves ==
    ASSUME DebugInv, NEW d \in Machines, NEW r \in MachineRecords,
           machine' = [machine EXCEPT ![d] = r],
           instance' \in [Machines -> {"none", "running", "stopped", "gone"}],
           creating' \subseteq Machines,
           \A x \in Machines \ {d} : instance'[x] = instance[x] /\ (x \in creating' <=> x \in creating),
           RecordExplains(r, instance'[d], d \in creating'),
           \/ ~r.exists \/ r.terminal \/ r.deleted
           \/ d \in CountedMachines \/ Cardinality(CountedMachines) < MaxActive
    PROVE  DebugInv'
  <1>1. DebugTypeOK' /\ machine'[d] = r /\ \A x \in Machines \ {d} : machine'[x] = machine[x]
    BY DEF DebugInv, DebugTypeOK
  <1>2. ASSUME NEW x \in Machines PROVE RecordExplains(machine'[x], instance'[x], x \in creating')
    <2>1. CASE x = d
      BY <1>1, <2>1
    <2>2. CASE x # d
      BY <1>1, <2>2 DEF DebugInv, RecordExplains
    <2> QED BY <2>1, <2>2
  <1>3. Cardinality(CountedMachines') <= MaxActive
    <2>1. CountedMachines' \subseteq CountedMachines \cup {d}
      BY <1>1 DEF CountedMachines, Made, Counted
    <2>2. CASE d \in CountedMachines' /\ d \notin CountedMachines
      <3>1. Cardinality(CountedMachines) < MaxActive
        BY <1>1, <2>2 DEF CountedMachines, Made, Counted
      <3>2. IsFiniteSet(CountedMachines \cup {d}) /\ Cardinality(CountedMachines \cup {d}) = Cardinality(CountedMachines) + 1
        BY <2>2, CountedIsFinite, FS_AddElement
      <3>4. Cardinality(CountedMachines') \in Nat
        BY <2>1, <3>2, FS_Subset, FS_CardinalityType
      <3> QED BY <3>1, <3>2, <2>1, FS_Subset, <3>4, CountedIsFinite, MachinesAssumption
    <2>3. CASE CountedMachines' \subseteq CountedMachines
      <3> QED BY <2>3, CountedIsFinite, FS_Subset, FS_CardinalityType, MachinesAssumption DEF DebugInv
    <2> QED BY <2>1, <2>2, <2>3
  <1> QED BY <1>1, <1>2, <1>3 DEF DebugInv

\* The provider moves: no record changes, so nothing else counts.
LEMMA InstanceMoves ==
    ASSUME DebugInv, NEW d \in Machines, machine' = machine,
           instance' \in [Machines -> {"none", "running", "stopped", "gone"}], creating' \subseteq Machines,
           \A x \in Machines \ {d} : instance'[x] = instance[x] /\ (x \in creating' <=> x \in creating),
           RecordExplains(machine[d], instance'[d], d \in creating')
    PROVE  DebugInv'
  <1>2. ASSUME NEW x \in Machines PROVE RecordExplains(machine'[x], instance'[x], x \in creating')
    <2>1. CASE x = d
      BY <2>1
    <2>2. CASE x # d
      BY <2>2 DEF DebugInv, RecordExplains
    <2> QED BY <2>1, <2>2
  <1>3. CountedMachines' = CountedMachines
    BY DEF CountedMachines, Made, Counted
  <1> QED BY <1>2, <1>3 DEF DebugInv, DebugTypeOK

LEMMA DebugInitInv == DebugInit => DebugInv
  <1> SUFFICES ASSUME DebugInit PROVE DebugInv
    OBVIOUS
  <1>1. Absent \in MachineRecords /\ ~Absent.exists /\ ~Absent.terminal /\ ~Absent.rejected /\ ~Absent.handle
        /\ ~Absent.delete /\ ~Absent.deleted /\ ~Absent.create
    BY DEF Absent, NewRecord, MachineRecords
  <1>2. \A d \in Machines : machine[d] = Absent /\ instance[d] = "none" /\ d \notin creating
    BY DEF DebugInit
  <1>3. DebugTypeOK
    BY <1>1 DEF DebugInit, DebugTypeOK
  <1>4. \A d \in Machines : RecordExplains(machine[d], instance[d], d \in creating)
    BY <1>1, <1>2 DEF RecordExplains
  <1>5. CountedMachines = {}
    BY <1>1, <1>2 DEF CountedMachines, Made
  <1> QED BY <1>3, <1>4, <1>5, FS_EmptySet, MachinesAssumption DEF DebugInv

LEMMA AskedActions ==
    ASSUME DebugInv, NEW d \in Machines,
           Create(d) \/ Expire(d) \/ (\E delete \in BOOLEAN : Stop(d, delete)) \/ CreateExecuted(d) \/ InstanceStops(d)
    PROVE  DebugInv'
  <1>0. DebugTypeOK /\ machine[d] \in MachineRecords /\ RecordExplains(machine[d], instance[d], d \in creating)
    BY DEF DebugInv, DebugTypeOK
  <1>1. ASSUME Create(d) PROVE DebugInv'
    <2>1. NewRecord \in MachineRecords /\ RecordExplains(NewRecord, instance'[d], d \in creating')
      BY <1>0, <1>1 DEF Create, Made, NewRecord, MachineRecords, RecordExplains, DebugTypeOK
    <2> QED BY <1>0, <1>1, <2>1, MachineMoves DEF Create, Keeps, CountedMachines, DebugTypeOK
  <1>2. ASSUME Expire(d) PROVE DebugInv'
    BY <1>0, <1>2, InstanceMoves DEF Expire, DebugTypeOK
  <1>3. ASSUME NEW delete \in BOOLEAN, Stop(d, delete) PROVE DebugInv'
    <2> DEFINE r == [machine[d] EXCEPT !.stopping = TRUE, !.deleting = @ \/ delete]
    <2>1. r \in MachineRecords /\ RecordExplains(r, instance'[d], d \in creating')
      BY <1>0, <1>3 DEF Stop, MachineRecords, RecordExplains
    <2>2. r.terminal = machine[d].terminal /\ r.deleted = machine[d].deleted
      BY <1>0 DEF MachineRecords
    <2> HIDE DEF r
    <2>3. r.terminal \/ r.deleted \/ d \in CountedMachines
      BY <1>3, <2>2 DEF Stop, CountedMachines, Counted
    <2> QED BY <1>0, <1>3, <2>1, <2>3, MachineMoves DEF Stop, Keeps, DebugTypeOK, r
  <1>4. ASSUME CreateExecuted(d) PROVE DebugInv'
    <2> QED BY <1>0, <1>4, InstanceMoves DEF CreateExecuted, DebugTypeOK, RecordExplains
  <1>5. ASSUME InstanceStops(d) PROVE DebugInv'
    <2> QED BY <1>0, <1>5, InstanceMoves DEF InstanceStops, DebugTypeOK, RecordExplains
  <1> QED BY <1>1, <1>2, <1>3, <1>4, <1>5

LEMMA RefreshActions == ASSUME DebugInv, NEW d \in Machines, Refresh(d) PROVE DebugInv'
  <1> DEFINE e == Expiring(d)
  <1>0. /\ DebugTypeOK /\ machine[d] \in MachineRecords /\ RecordExplains(machine[d], instance[d], d \in creating)
        /\ instance[d] \in {"none", "running", "stopped", "gone"}
    BY DEF DebugInv, DebugTypeOK
  <1>1. /\ e \in MachineRecords /\ e.exists = machine[d].exists /\ e.handle = machine[d].handle
        /\ e.create = machine[d].create /\ e.delete = machine[d].delete /\ e.deleting = machine[d].deleting
        /\ e.terminal = machine[d].terminal /\ e.deleted = machine[d].deleted /\ e.rejected = machine[d].rejected
        /\ machine[d].stopping => e.stopping
    BY <1>0 DEF Expiring, MachineRecords
  <1> HIDE DEF e
  <1>2. RecordExplains(e, instance[d], d \in creating)
    BY <1>0, <1>1 DEF RecordExplains
  <1>3. Refreshable(d) /\ ~e.terminal => d \in CountedMachines
    BY <1>1 DEF Refreshable, CountedMachines, Counted
  <1>4. ASSUME RefreshRejected(d) PROVE DebugInv'
    <2> DEFINE r == [machine[d] EXCEPT !.deleted = TRUE]
    <2>1. r \in MachineRecords /\ r.deleted /\ RecordExplains(r, instance'[d], d \in creating')
      BY <1>0, <1>4 DEF RefreshRejected, MachineRecords, RecordExplains
    <2> HIDE DEF r
    <2> QED BY <1>0, <1>4, <2>1, MachineMoves DEF RefreshRejected, Keeps, DebugTypeOK, r
  <1>5. ASSUME RefreshUnclaimed(d) PROVE DebugInv'
    <2>0. Refreshable(d) /\ ~e.rejected /\ instance[d] = "none" /\ ~e.handle /\ ~e.create /\ d \notin creating
          /\ machine[d].exists
      BY <1>0, <1>1, <1>5 DEF RefreshUnclaimed, e, RecordExplains, Refreshable, Made
    <2>1. CASE e.stopping
      <3> DEFINE r == [e EXCEPT !.terminal = TRUE]
      <3>1. r \in MachineRecords /\ r.terminal /\ RecordExplains(r, instance[d], d \in creating)
        BY <1>1, <1>2, <2>0, <2>1 DEF MachineRecords, RecordExplains
      <3>2. Keeps(d, r) /\ UNCHANGED <<instance, creating>>
        BY <1>5, <2>1 DEF RefreshUnclaimed, e
      <3> HIDE DEF r
      <3> QED BY <1>0, <3>1, <3>2, MachineMoves DEF Keeps, DebugTypeOK
    <2>2. CASE ~e.stopping
      <3>0. d \in CountedMachines
        BY <1>1, <1>2, <1>3, <2>0, <2>2 DEF RecordExplains
      <3>1. CASE /\ Keeps(d, [e EXCEPT !.create = TRUE])
                 /\ creating' \in {creating, creating \cup {d}} /\ UNCHANGED instance
        <4> DEFINE r == [e EXCEPT !.create = TRUE]
        <4>1. r \in MachineRecords /\ RecordExplains(r, instance'[d], d \in creating')
          BY <1>1, <1>2, <2>0, <2>2, <3>1 DEF MachineRecords, RecordExplains
        <4> HIDE DEF r
        <4> QED BY <1>0, <3>0, <3>1, <4>1, MachineMoves DEF Keeps, DebugTypeOK, r
      <3>2. CASE /\ Keeps(d, [e EXCEPT !.create = TRUE, !.rejected = TRUE, !.terminal = TRUE])
                 /\ UNCHANGED <<creating, instance>>
        <4> DEFINE r == [e EXCEPT !.create = TRUE, !.rejected = TRUE, !.terminal = TRUE]
        <4>1. r \in MachineRecords /\ RecordExplains(r, instance'[d], d \in creating')
          BY <1>1, <1>2, <2>0, <2>2, <3>2 DEF MachineRecords, RecordExplains
        <4> HIDE DEF r
        <4> QED BY <1>0, <3>0, <3>2, <4>1, MachineMoves DEF Keeps, DebugTypeOK, r
      <3> QED BY <1>5, <2>2, <3>1, <3>2 DEF RefreshUnclaimed, e
    <2> QED BY <2>1, <2>2
  <1>6. ASSUME RefreshMissing(d) PROVE DebugInv'
    <2>1. /\ Refreshable(d) /\ instance[d] \in {"none", "gone"} /\ UNCHANGED <<instance, creating>>
          /\ Keeps(d, IF Gone(e) THEN [e EXCEPT !.deleted = TRUE] ELSE e)
      BY <1>6 DEF RefreshMissing, e
    <2>2. CASE Gone(e)
      <3> DEFINE r == [e EXCEPT !.deleted = TRUE]
      <3>1. r \in MachineRecords /\ r.deleted /\ RecordExplains(r, instance[d], d \in creating)
        BY <1>1, <1>2, <2>1, <2>2 DEF Gone, MachineRecords, RecordExplains
      <3>2. Keeps(d, r)
        BY <2>1, <2>2
      <3> HIDE DEF r
      <3> QED BY <1>0, <2>1, <3>1, <3>2, MachineMoves DEF Keeps, DebugTypeOK
    <2>3. CASE ~Gone(e)
      BY <1>0, <1>1, <1>2, <1>3, <2>1, <2>3, MachineMoves DEF Keeps, DebugTypeOK
    <2> QED BY <2>2, <2>3
  <1>7. ASSUME RefreshFound(d) PROVE DebugInv'
    <2> DEFINE ended == instance[d] = "stopped"
               r == [e EXCEPT !.handle = TRUE, !.terminal = ended]
    <2>0. /\ Refreshable(d) /\ instance[d] \in {"running", "stopped"} /\ ~e.rejected /\ d \notin creating /\ e.create
          /\ UNCHANGED creating /\ ended \in BOOLEAN
      BY <1>2, <1>7 DEF RefreshFound, e, RecordExplains
    <2>1. /\ r \in MachineRecords /\ r.exists = e.exists /\ r.handle /\ r.create = e.create /\ r.delete = e.delete
          /\ r.terminal = ended /\ r.deleted = e.deleted /\ r.rejected = e.rejected
          /\ r.stopping = e.stopping /\ r.deleting = e.deleting
      BY <1>1, <2>0 DEF MachineRecords
    <2>2. \/ Keeps(d, r) /\ instance' \in {instance, [instance EXCEPT ![d] = "stopped"]}
          \/ /\ ended
             /\ instance' \in {instance, [instance EXCEPT ![d] = "gone"]}
             /\ \/ Keeps(d, [r EXCEPT !.delete = TRUE])
                \/ Keeps(d, [r EXCEPT !.delete = TRUE, !.deleted = instance'[d] = "gone"])
      BY <1>7 DEF RefreshFound, e, Keeps
    <2> HIDE DEF r
    <2>3. ended \/ d \in CountedMachines
      BY <1>2, <1>3, <2>0 DEF RecordExplains
    <2>4. CASE Keeps(d, r) /\ instance' \in {instance, [instance EXCEPT ![d] = "stopped"]}
      <3>1. /\ instance' \in [Machines -> {"none", "running", "stopped", "gone"}]
            /\ instance'[d] \in {instance[d], "stopped"}
            /\ \A x \in Machines \ {d} : instance'[x] = instance[x]
        BY <1>0, <2>4 DEF DebugTypeOK
      <3>2. RecordExplains(r, instance'[d], d \in creating')
        BY <1>2, <2>0, <2>1, <3>1 DEF RecordExplains
      <3> HIDE DEF ended
      <3> QED BY <1>0, <2>0, <2>1, <2>3, <2>4, <3>1, <3>2, MachineMoves DEF Keeps, DebugTypeOK
    <2>5. CASE ended /\ instance' \in {instance, [instance EXCEPT ![d] = "gone"]}
      <3>1. /\ instance' \in [Machines -> {"none", "running", "stopped", "gone"}]
            /\ instance'[d] \in {"stopped", "gone"}
            /\ \A x \in Machines \ {d} : instance'[x] = instance[x]
        BY <1>0, <2>5 DEF DebugTypeOK
      <3>2. CASE Keeps(d, [r EXCEPT !.delete = TRUE])
        <4> DEFINE q == [r EXCEPT !.delete = TRUE]
        <4>1. q \in MachineRecords /\ q.terminal /\ RecordExplains(q, instance'[d], d \in creating')
          BY <1>2, <2>0, <2>1, <2>5, <3>1 DEF MachineRecords, RecordExplains
        <4>2. Keeps(d, q)
          BY <3>2
        <4> HIDE DEF q, ended
        <4> QED BY <1>0, <2>0, <3>1, <4>1, <4>2, MachineMoves DEF Keeps, DebugTypeOK
      <3>3. CASE Keeps(d, [r EXCEPT !.delete = TRUE, !.deleted = instance'[d] = "gone"])
        <4> DEFINE q == [r EXCEPT !.delete = TRUE, !.deleted = instance'[d] = "gone"]
        <4>1. q \in MachineRecords /\ q.terminal /\ RecordExplains(q, instance'[d], d \in creating')
          BY <1>2, <2>0, <2>1, <2>5, <3>1 DEF MachineRecords, RecordExplains
        <4>2. Keeps(d, q)
          BY <3>3
        <4> HIDE DEF q, ended
        <4> QED BY <1>0, <2>0, <3>1, <4>1, <4>2, MachineMoves DEF Keeps, DebugTypeOK
      <3> QED BY <2>2, <2>4, <2>5, <3>2, <3>3
    <2> QED BY <2>2, <2>4, <2>5
  <1> QED BY <1>4, <1>5, <1>6, <1>7 DEF Refresh

LEMMA DebugInvariant == DebugSpec => []DebugInv
  <1>1. ASSUME DebugInv, [DebugNext]_debugVars PROVE DebugInv'
    <2>1. CASE UNCHANGED debugVars
      BY <1>1, <2>1 DEF debugVars, DebugInv, DebugTypeOK, RecordExplains, CountedMachines, Made, Counted
    <2>2. CASE DebugNext
      BY <1>1, <2>2, AskedActions, RefreshActions DEF DebugNext
    <2> QED BY <1>1, <2>1, <2>2
  <1> QED BY <1>1, DebugInitInv, PTL DEF DebugSpec

(* debug_create counts before it asks, and refresh claims a create before
   it sends it: for every number of machines and every limit, what runs or
   may still come to run stays within max_active, whatever answer was
   lost, and a machine that is DELETED never runs again. *)
THEOREM MachinesStayWithinLimit == DebugSpec => []MachinesAreHeld
  <1>1. ASSUME DebugInv PROVE MachinesAreHeld
    <2> DEFINE Running == {d \in Machines : instance[d] = "running" \/ d \in creating}
    <2>1. Running \subseteq CountedMachines
      BY <1>1 DEF DebugInv, DebugTypeOK, RecordExplains, CountedMachines, Made, Counted
    <2>2. Cardinality(Running) <= Cardinality(CountedMachines) /\ Cardinality(Running) \in Nat
      BY <2>1, CountedIsFinite, FS_Subset, FS_CardinalityType
    <2>3. MachinesWithinLimit
      BY <1>1, <2>2, CountedIsFinite, MachinesAssumption DEF DebugInv, MachinesWithinLimit
    <2> QED BY <2>3, <1>1 DEF MachinesAreHeld, DebugInv, RecordExplains, DeletedIsGone, Made
  <1> QED BY <1>1, DebugInvariant, PTL

------------
(* The collector jobs of an Attempt.  A recovery is saved once its reasons
   are proven, and they stay true; the slot of a recovery or a diagnostic
   is used only after what was saved for it, with the limits saved there. *)
SlotStates == [entry : {"none", "prepared", "started"}, limits : Nat]

SyncTypeOK ==
    /\ slot \in [Slots -> SlotStates]
    /\ pjob \in [Slots -> {"none", "running"} \cup Final]
    /\ limit \in Nat
    /\ recovery \in [SyncRequests -> [saved : BOOLEAN, limits : Nat]]
    /\ diagnosis \in [SyncRequests -> [saved : BOOLEAN, of : Slots, limits : Nat, report : {{}, Own}]]
    /\ printed \in [SyncRequests -> SUBSET (Own \cup Foreign)]

RecoveryIsDue(r) == recovery[r].saved => pjob[Original(r)] = "failed" /\ pjob[TrainingJob] \in Final
RecoveryIsSaved(r) ==
    /\ ~recovery[r].saved => slot[Recovery(r)] = NoSlot
    /\ slot[Recovery(r)].limits \in {Unrecorded, recovery[r].limits}
DiagnosisIsDue(r) == diagnosis[r].saved => pjob[Original(r)] \in Final \/ pjob[Recovery(r)] \in Final
DiagnosisIsSaved(r) ==
    /\ ~diagnosis[r].saved => slot[Diagnosis(r)] = NoSlot
    /\ slot[Diagnosis(r)].limits \in {Unrecorded, diagnosis[r].limits}

SyncInv ==
    /\ SyncTypeOK
    /\ \A r \in SyncRequests : RecoveryIsDue(r) /\ RecoveryIsSaved(r) /\ DiagnosisIsDue(r) /\ DiagnosisIsSaved(r)
    /\ NeverOrphaned

LEMMA SyncInitInv == JobsInit /\ SyncInit => SyncInv
  <1> SUFFICES ASSUME JobsInit, SyncInit PROVE SyncInv
    OBVIOUS
  <1>1. NoSlot \in SlotStates /\ NoSlot.limits = Unrecorded
    BY DEF NoSlot, SlotStates, Unrecorded
  <1>2. SyncTypeOK
    <2>2. recovery \in [SyncRequests -> [saved : BOOLEAN, limits : Nat]]
      BY DEF SyncInit, NoRecovery
    <2>3. diagnosis \in [SyncRequests -> [saved : BOOLEAN, of : Slots, limits : Nat, report : {{}, Own}]]
      BY SyncAssumption DEF SyncInit, NoDiagnosis
    <2>4. printed \in [SyncRequests -> SUBSET (Own \cup Foreign)]
      BY DEF SyncInit
    <2> QED BY <1>1, SyncAssumption, <2>2, <2>3, <2>4 DEF SyncTypeOK, JobsInit
  <1>3. ASSUME NEW r \in SyncRequests
        PROVE  RecoveryIsDue(r) /\ RecoveryIsSaved(r) /\ DiagnosisIsDue(r) /\ DiagnosisIsSaved(r)
    <2>1. slot[Recovery(r)] = NoSlot /\ slot[Diagnosis(r)] = NoSlot /\ ~recovery[r].saved /\ ~diagnosis[r].saved
      BY SyncAssumption DEF JobsInit, SyncInit, NoRecovery, NoDiagnosis
    <2> QED BY <1>1, <2>1 DEF RecoveryIsDue, RecoveryIsSaved, DiagnosisIsDue, DiagnosisIsSaved
  <1> QED BY <1>2, <1>3 DEF SyncInv, SyncInit, NeverOrphaned

\* A job that is sent with the limits of its record.
LEMMA Sent ==
    ASSUME SyncTypeOK, NEW s \in Slots, NEW limits \in Nat, SameLimits(s, limits), Send(s, limits)
    PROVE  /\ slot' \in [Slots -> SlotStates] /\ slot'[s].limits = limits
           /\ \A t \in Slots \ {s} : slot'[t] = slot[t]
           /\ orphaned' = orphaned
  <1>1. PICK entry_ \in {"prepared", "started"} : slot' = [slot EXCEPT ![s] = [entry |-> entry_, limits |-> limits]]
    BY DEF Send, Submitted, OnlyPrepared
  <1> QED BY <1>1 DEF Send, SyncTypeOK, SlotStates

LEMMA LimitsStay ==
    ASSUME SyncTypeOK, NEW s \in Slots
    PROVE  LimitsFor(s) \in Nat /\ SameLimits(s, LimitsFor(s)) /\ slot[s] \in SlotStates
  BY DEF SyncTypeOK, SlotStates, LimitsFor, SameLimits, Unrecorded

\* The slots of one request: what another one sends leaves them alone.
LEMMA SlotsApart ==
    ASSUME NEW r \in SyncRequests
    PROVE  /\ Original(r) \in Slots /\ Recovery(r) \in Slots /\ Diagnosis(r) \in Slots
           /\ \A q \in SyncRequests : Recovery(q) # Original(r) /\ Diagnosis(q) # Original(r) /\ Diagnosis(q) # Recovery(r)
           /\ \A q \in SyncRequests : Recovery(q) # TrainingJob /\ Diagnosis(q) # TrainingJob /\ Recovery(q) # Diagnosis(r)
           /\ \A q \in SyncRequests \ {r} : Recovery(q) # Recovery(r) /\ Diagnosis(q) # Diagnosis(r)
  BY SyncAssumption

\* What a call for one request saves and sends leaves the others alone.
LEMMA RequestMoves ==
    ASSUME SyncInv, NEW r \in SyncRequests, UNCHANGED <<pjob, limit, printed, orphaned>>, SyncTypeOK',
           (RecoveryIsDue(r) /\ RecoveryIsSaved(r) /\ DiagnosisIsDue(r) /\ DiagnosisIsSaved(r))',
           \A q \in SyncRequests \ {r} :
              /\ recovery'[q] = recovery[q] /\ diagnosis'[q] = diagnosis[q]
              /\ slot'[Recovery(q)] = slot[Recovery(q)] /\ slot'[Diagnosis(q)] = slot[Diagnosis(q)]
    PROVE  SyncInv'
  <1>1. ASSUME NEW q \in SyncRequests \ {r}
        PROVE  (RecoveryIsDue(q) /\ RecoveryIsSaved(q) /\ DiagnosisIsDue(q) /\ DiagnosisIsSaved(q))'
    BY DEF SyncInv, RecoveryIsDue, RecoveryIsSaved, DiagnosisIsDue, DiagnosisIsSaved
  <1> QED BY <1>1 DEF SyncInv, NeverOrphaned

LEMMA JobsMove == ASSUME SyncInv, JobsNext, UNCHANGED syncVars PROVE SyncInv'
  <1>1. /\ slot' = slot \/ (\E s \in Slots : Accept(s) \/ EndJob(s)) \/ Reconfigure
        /\ slot' = slot /\ limit' \in Nat
    BY SyncAssumption DEF JobsNext, Accept, EndJob, Reconfigure, SyncInv, SyncTypeOK
  <1>2. pjob' \in [Slots -> {"none", "running"} \cup Final] /\ \A s \in Slots : pjob[s] \in Final => pjob'[s] = pjob[s]
    BY DEF JobsNext, Accept, EndJob, Reconfigure, SyncInv, SyncTypeOK, Final
  <1>4. ASSUME NEW r \in SyncRequests
        PROVE  (RecoveryIsDue(r) /\ RecoveryIsSaved(r) /\ DiagnosisIsDue(r) /\ DiagnosisIsSaved(r))'
    <2>1. RecoveryIsDue(r) /\ RecoveryIsSaved(r) /\ DiagnosisIsDue(r) /\ DiagnosisIsSaved(r)
      BY DEF SyncInv
    <2>2. "failed" \in Final
      BY DEF Final
    <2> QED BY <1>1, <1>2, <2>1, <2>2, SyncAssumption, SlotsApart
            DEF RecoveryIsDue, RecoveryIsSaved, DiagnosisIsDue, DiagnosisIsSaved, syncVars
  <1> QED BY <1>1, <1>2, <1>4 DEF SyncInv, NeverOrphaned, syncVars, SyncTypeOK

LEMMA TrainingMoves == ASSUME SyncInv, SubmitTraining PROVE SyncInv'
  <1>1. SyncTypeOK /\ TrainingJob \in Slots /\ [entry |-> "started", limits |-> limit] \in SlotStates
    BY SyncAssumption DEF SyncInv, SyncTypeOK, SlotStates
  <1>2. slot' \in [Slots -> SlotStates] /\ \A t \in Slots \ {TrainingJob} : slot'[t] = slot[t]
    BY <1>1 DEF SubmitTraining, Submitted, SyncTypeOK
  <1>3. SyncTypeOK'
    BY <1>1, <1>2 DEF SubmitTraining, SyncTypeOK, syncVars
  <1>4. ASSUME NEW r \in SyncRequests
        PROVE  (RecoveryIsDue(r) /\ RecoveryIsSaved(r) /\ DiagnosisIsDue(r) /\ DiagnosisIsSaved(r))'
    <2>1. RecoveryIsDue(r) /\ RecoveryIsSaved(r) /\ DiagnosisIsDue(r) /\ DiagnosisIsSaved(r)
      BY DEF SyncInv
    <2> QED BY <1>2, <2>1, SlotsApart
            DEF SubmitTraining, RecoveryIsDue, RecoveryIsSaved, DiagnosisIsDue, DiagnosisIsSaved, syncVars
  <1> QED BY <1>3, <1>4 DEF SyncInv, NeverOrphaned, SubmitTraining, syncVars

LEMMA SynchronizeMoves == ASSUME SyncInv, NEW r \in SyncRequests, Synchronize(r) PROVE SyncInv'
  <1>0. SyncTypeOK /\ RecoveryIsDue(r) /\ RecoveryIsSaved(r) /\ DiagnosisIsDue(r) /\ DiagnosisIsSaved(r)
    BY DEF SyncInv
  <1>1. /\ slot' \in [Slots -> SlotStates] /\ orphaned' = orphaned
        /\ \A t \in Slots \ {Original(r)} : slot'[t] = slot[t]
    BY <1>0, SlotsApart, LimitsStay, Sent DEF Synchronize
  <1>3. \A q \in SyncRequests : slot'[Recovery(q)] = slot[Recovery(q)] /\ slot'[Diagnosis(q)] = slot[Diagnosis(q)]
    BY <1>1, SlotsApart
  <1>4. (RecoveryIsDue(r) /\ RecoveryIsSaved(r) /\ DiagnosisIsDue(r) /\ DiagnosisIsSaved(r))'
    BY <1>0, <1>3 DEF Synchronize, RecoveryIsDue, RecoveryIsSaved, DiagnosisIsDue, DiagnosisIsSaved
  <1> QED BY <1>1, <1>0, <1>3, <1>4, RequestMoves DEF Synchronize, SyncTypeOK

LEMMA RecoveryMoves == ASSUME SyncInv, NEW r \in SyncRequests, RetrySync(r) \/ DriveRecovery(r) PROVE SyncInv'
  <1>0. SyncTypeOK /\ RecoveryIsDue(r) /\ RecoveryIsSaved(r) /\ DiagnosisIsDue(r) /\ DiagnosisIsSaved(r)
    BY DEF SyncInv
  <1>1. PICK limits \in Nat :
           /\ recovery' = [recovery EXCEPT ![r] = [saved |-> TRUE, limits |-> limits]]
           /\ SameLimits(Recovery(r), limits)
           /\ UNCHANGED <<slot, orphaned>> \/ Send(Recovery(r), limits)
    <2>1. CASE RetrySync(r)
      BY <1>0, <2>1, SlotsApart, LimitsStay DEF RetrySync
    <2>2. CASE DriveRecovery(r)
      <3>1. recovery[r] \in [saved : BOOLEAN, limits : Nat] /\ recovery[r].saved
        BY <1>0, <2>2 DEF DriveRecovery, SyncTypeOK
      <3> QED BY <1>0, <2>2, <3>1 DEF DriveRecovery, RecoveryIsSaved, SameLimits, SyncTypeOK
    <2> QED BY <2>1, <2>2
  <1>2. /\ slot' \in [Slots -> SlotStates] /\ orphaned' = orphaned
        /\ \A t \in Slots \ {Recovery(r)} : slot'[t] = slot[t]
        /\ slot'[Recovery(r)].limits \in {Unrecorded, limits}
    <2>1. CASE UNCHANGED <<slot, orphaned>>
      BY <1>0, <1>1, <2>1 DEF SameLimits, SyncTypeOK
    <2>2. CASE Send(Recovery(r), limits)
      BY <1>0, <1>1, <2>2, SlotsApart, Sent
    <2> QED BY <1>1, <2>1, <2>2
  <1>3. UNCHANGED <<pjob, limit, diagnosis, printed>>
    BY DEF RetrySync, DriveRecovery
  <1>4. recovery' \in [SyncRequests -> [saved : BOOLEAN, limits : Nat]] /\ recovery'[r].saved
        /\ recovery'[r].limits = limits /\ \A q \in SyncRequests \ {r} : recovery'[q] = recovery[q]
    BY <1>0, <1>1 DEF SyncTypeOK
  <1>5. SyncTypeOK'
    BY <1>0, <1>2, <1>3, <1>4 DEF SyncTypeOK
  <1>6. pjob[Original(r)] = "failed" /\ pjob[TrainingJob] \in Final
    BY <1>0 DEF RetrySync, Replaceable, Proven, DriveRecovery, RecoveryIsDue, Final
  <1>7. slot'[Diagnosis(r)] = slot[Diagnosis(r)]
    BY <1>2, SlotsApart
  <1>8. (RecoveryIsDue(r) /\ RecoveryIsSaved(r) /\ DiagnosisIsDue(r) /\ DiagnosisIsSaved(r))'
    BY <1>0, <1>2, <1>3, <1>4, <1>6, <1>7 DEF RecoveryIsDue, RecoveryIsSaved, DiagnosisIsDue, DiagnosisIsSaved
  <1> QED BY <1>2, <1>3, <1>4, <1>5, <1>8, SlotsApart, RequestMoves

LEMMA DiagnosisMoves == ASSUME SyncInv, NEW r \in SyncRequests, BeginDiagnosis(r) \/ Diagnose(r) PROVE SyncInv'
  <1>0. SyncTypeOK /\ RecoveryIsDue(r) /\ RecoveryIsSaved(r) /\ DiagnosisIsDue(r) /\ DiagnosisIsSaved(r)
    BY DEF SyncInv
  <1>1. PICK limits \in Nat, of \in Slots, report \in {{}, Own} :
           /\ diagnosis' = [diagnosis EXCEPT ![r] = [saved |-> TRUE, of |-> of, limits |-> limits, report |-> report]]
           /\ SameLimits(Diagnosis(r), limits)
           /\ UNCHANGED <<slot, orphaned>> \/ Send(Diagnosis(r), limits)
    <2>1. CASE BeginDiagnosis(r)
      <3>1. Subject(r) \in Slots /\ slot[Subject(r)].limits \in Nat
        BY <1>0, SlotsApart DEF Subject, SyncTypeOK, SlotStates
      <3>2. SameLimits(Diagnosis(r), slot[Subject(r)].limits)
        BY <1>0, <2>1 DEF BeginDiagnosis, DiagnosisIsSaved, SameLimits, NoSlot
      <3> QED BY <2>1, <3>1, <3>2 DEF BeginDiagnosis
    <2>2. CASE Diagnose(r)
      <3>1. diagnosis[r] \in [saved : BOOLEAN, of : Slots, limits : Nat, report : {{}, Own}] /\ diagnosis[r].saved
        BY <1>0, <2>2 DEF Diagnose, SyncTypeOK
      <3>2. PICK report \in {{}, Own} : diagnosis' = [diagnosis EXCEPT ![r].report = report]
        <4>1. diagnosis = [diagnosis EXCEPT ![r].report = diagnosis[r].report]
          BY <1>0, <3>1 DEF SyncTypeOK
        <4>2. CompleteReport(printed[r]) \in {{}, Own}
          BY DEF CompleteReport
        <4> QED BY <2>2, <3>1, <4>1, <4>2 DEF Diagnose
      <3>3. diagnosis' = [diagnosis EXCEPT ![r] = [saved |-> TRUE, of |-> diagnosis[r].of,
                                                   limits |-> diagnosis[r].limits, report |-> report]]
        <4>1. [diagnosis[r] EXCEPT !.report = report]
                = [saved |-> TRUE, of |-> diagnosis[r].of, limits |-> diagnosis[r].limits, report |-> report]
          <5>1. \A d \in [saved : BOOLEAN, of : Slots, limits : Nat, report : {{}, Own}] :
                   [d EXCEPT !.report = report]
                     = [saved |-> d.saved, of |-> d.of, limits |-> d.limits, report |-> report]
            OBVIOUS
          <5>2. diagnosis[r].saved = TRUE
            BY <3>1
          <5> QED BY <3>1, <5>1, <5>2
        <4> QED BY <4>1, <3>2
      <3> QED BY <3>1, <3>3, <1>0, <2>2 DEF Diagnose, DiagnosisIsSaved, SameLimits
    <2> QED BY <2>1, <2>2
  <1>2. /\ slot' \in [Slots -> SlotStates] /\ orphaned' = orphaned
        /\ \A t \in Slots \ {Diagnosis(r)} : slot'[t] = slot[t]
        /\ slot'[Diagnosis(r)].limits \in {Unrecorded, limits}
    <2>1. CASE UNCHANGED <<slot, orphaned>>
      BY <1>0, <1>1, <2>1 DEF SameLimits, SyncTypeOK
    <2>2. CASE Send(Diagnosis(r), limits)
      BY <1>0, <1>1, <2>2, SlotsApart, Sent
    <2> QED BY <1>1, <2>1, <2>2
  <1>3. UNCHANGED <<pjob, limit, recovery, printed>>
    BY DEF BeginDiagnosis, Diagnose
  <1>4. /\ diagnosis' \in [SyncRequests -> [saved : BOOLEAN, of : Slots, limits : Nat, report : {{}, Own}]]
        /\ diagnosis'[r].saved /\ diagnosis'[r].limits = limits
        /\ \A q \in SyncRequests \ {r} : diagnosis'[q] = diagnosis[q]
    BY <1>0, <1>1 DEF SyncTypeOK
  <1>5. SyncTypeOK'
    BY <1>0, <1>2, <1>3, <1>4 DEF SyncTypeOK
  <1>6. pjob[Original(r)] \in Final \/ pjob[Recovery(r)] \in Final
    BY <1>0 DEF BeginDiagnosis, Diagnose, Subject, Proven, DiagnosisIsDue
  <1>7. slot'[Recovery(r)] = slot[Recovery(r)]
    BY <1>2, SlotsApart
  <1>8. (RecoveryIsDue(r) /\ RecoveryIsSaved(r) /\ DiagnosisIsDue(r) /\ DiagnosisIsSaved(r))'
    BY <1>0, <1>2, <1>3, <1>4, <1>6, <1>7 DEF RecoveryIsDue, RecoveryIsSaved, DiagnosisIsDue, DiagnosisIsSaved
  <1> QED BY <1>2, <1>3, <1>4, <1>5, <1>8, SlotsApart, RequestMoves

LEMMA PartPrinted == ASSUME SyncInv, NEW r \in SyncRequests, PrintPart(r) PROVE SyncInv'
  <1>1. SyncTypeOK'
    BY DEF PrintPart, jobVars, SyncInv, SyncTypeOK
  <1> QED BY <1>1 DEF PrintPart, jobVars, SyncInv, NeverOrphaned, RecoveryIsDue, RecoveryIsSaved, DiagnosisIsDue,
                      DiagnosisIsSaved

LEMMA SyncInvariant == SyncSpec => []SyncInv
  <1>1. ASSUME SyncInv, [SyncNext \/ (JobsNext /\ UNCHANGED syncVars)]_<<jobVars, syncVars>> PROVE SyncInv'
    <2>1. CASE UNCHANGED <<jobVars, syncVars>>
      BY <1>1, <2>1 DEF jobVars, syncVars, SyncInv, SyncTypeOK, NeverOrphaned, RecoveryIsDue, RecoveryIsSaved,
                        DiagnosisIsDue, DiagnosisIsSaved
    <2>2. CASE SyncNext
      BY <1>1, <2>2, TrainingMoves, SynchronizeMoves, RecoveryMoves, DiagnosisMoves, PartPrinted DEF SyncNext
    <2>3. CASE JobsNext /\ UNCHANGED syncVars
      BY <1>1, <2>3, JobsMove
    <2> QED BY <1>1, <2>1, <2>2, <2>3
  <1> QED BY <1>1, SyncInitInv, PTL DEF SyncSpec

(* synchronize, retry_sync and diagnostic, for every number of requests
   and whatever the configuration is changed to: a recovery replaces a
   collector that failed after its training had ended, a diagnostic reads
   one that ended and reports all of it or nothing, and no call asks for a
   job under other limits than its record has. *)
THEOREM CollectorsStayWhole == SyncSpec => []CollectorsAreWhole
  <1>1. ASSUME SyncInv PROVE CollectorsAreWhole
    <2>1. RecoveryReplacesFailure
      BY <1>1 DEF SyncInv, RecoveryReplacesFailure, RecoveryIsDue, RecoveryIsSaved, NoSlot
    <2>2. DiagnosisIsWhole
      BY <1>1 DEF SyncInv, SyncTypeOK, DiagnosisIsWhole, DiagnosisIsDue, DiagnosisIsSaved, NoSlot
    <2> QED BY <1>1, <2>1, <2>2 DEF SyncInv, CollectorsAreWhole
  <1> QED BY <1>1, SyncInvariant, PTL

------------
(* Removal of what an Attempt left.  A plan that was started once has all
   its markers, or is at work on them, or stopped before them, or was
   refused for the marker of another plan and then never removes a byte.
   The markers are final, so a checkpoint that is gone was withdrawn by
   the plan that removed it, or was registered after that plan. *)
PlanRecords == [saved : BOOLEAN, saves : SUBSET Saves, started : BOOLEAN, receipt : BOOLEAN, cursor : 0..MostParts,
                complete : BOOLEAN]
Executions == [plan : Selections \cup {Nil}, at : {"idle", "withdraw", "remove", "finish"}]

AdministrationTypeOK ==
    /\ onCloud \in BOOLEAN /\ outputs \in BOOLEAN
    /\ bytes \subseteq Saves /\ registry \subseteq Saves /\ interrupted \subseteq Saves
    /\ followers \subseteq registry /\ authoring \in registry \cup {Nil}
    /\ markers \in [Saves -> Selections \cup {Nil}]
    /\ plans \in [Selections -> PlanRecords]
    /\ executing \in Executions /\ (executing.at = "idle" => executing = NotExecuting)
    /\ ledger \subseteq Selections /\ removalJobs \subseteq Selections /\ removing \in Selections \cup {Nil}

Refused(p) == \E c \in plans[p].saves : markers[c] \notin {Nil, p}
Removable(p) == plans[p].saved /\ plans[p].started /\ AllWithdrawn(p)

PlanIsFixed(p) ==
    /\ plans[p].saves \subseteq Targets(p)
    /\ plans[p].saved /\ p \notin {"outputs", "state"} => plans[p].saves = {p}
    /\ plans[p].started => plans[p].saved
StartedIsSettled(p) ==
    plans[p].started => \/ AllWithdrawn(p) \/ Refused(p) \/ plans[p].saves \subseteq interrupted
                        \/ executing.at = "withdraw" /\ executing.plan = p
StartedIsLooked(p) ==
    plans[p].started =>
        Refused(p) \/ plans[p].saves \cap (followers \cup {authoring}) \subseteq interrupted
RemovalIsDue(p) ==
    /\ (p = removing \/ p \in removalJobs \/ p \in ledger) => Removable(p)
    /\ p \in ledger => RemovedAll(p)
    /\ plans[p].receipt => p \in ledger
MarkerIsOfPlan(c) == markers[c] # Nil => plans[markers[c]].started /\ c \in plans[markers[c]].saves
FollowedIsNoticed(c) == c \in followers /\ markers[c] # Nil => c \in interrupted \/ Refused(markers[c])
GoneIsRemoved(c) == c \notin bytes => \E p \in Selections : Removable(p) /\ c \in Targets(p)
ExecutionIsStarted ==
    executing.at # "idle" =>
        /\ executing.plan \in Selections /\ plans[executing.plan].started
        /\ executing.at \in {"remove", "finish"} => AllWithdrawn(executing.plan)
        /\ executing.at = "withdraw" => authoring = Nil
ObjectsFollow ==
    "outputs" \in Selections =>
        /\ objects = MostParts - plans["outputs"].cursor
        /\ ~plans["outputs"].saved => plans["outputs"].cursor = 0
        /\ plans["outputs"].saved /\ plans["outputs"].complete /\ onCloud => plans["outputs"].cursor = MostParts

AdministrationInv ==
    /\ AdministrationTypeOK
    /\ \A p \in Selections : PlanIsFixed(p) /\ StartedIsSettled(p) /\ StartedIsLooked(p) /\ RemovalIsDue(p)
    /\ \A c \in Saves : MarkerIsOfPlan(c) /\ FollowedIsNoticed(c) /\ GoneIsRemoved(c)
    /\ ExecutionIsStarted /\ ObjectsFollow

LEMMA AdministrationInitInv == AdministrationInit => AdministrationInv
  <1> SUFFICES ASSUME AdministrationInit PROVE AdministrationInv
    OBVIOUS
  <1>1. NoMaintenance \in PlanRecords /\ NotExecuting \in Executions /\ NotExecuting.at = "idle"
    BY AdministrationAssumption DEF NoMaintenance, PlanRecords, NotExecuting, Executions
  <1>3. \A p \in Selections : plans[p] = NoMaintenance
    BY DEF AdministrationInit
  <1>4. \A p \in Selections : PlanIsFixed(p) /\ StartedIsSettled(p) /\ StartedIsLooked(p) /\ RemovalIsDue(p)
    BY <1>3, AdministrationAssumption
       DEF NoMaintenance, PlanIsFixed, StartedIsSettled, StartedIsLooked, RemovalIsDue, AdministrationInit
  <1>5. \A c \in Saves : MarkerIsOfPlan(c) /\ FollowedIsNoticed(c) /\ GoneIsRemoved(c)
    BY DEF AdministrationInit, MarkerIsOfPlan, FollowedIsNoticed, GoneIsRemoved
  <1>6. ExecutionIsStarted /\ ObjectsFollow
    BY <1>1, <1>3, AdministrationAssumption DEF AdministrationInit, ExecutionIsStarted, ObjectsFollow, NoMaintenance
  <1> QED BY <1>1, <1>4, <1>5, <1>6 DEF AdministrationInv, AdministrationInit, AdministrationTypeOK

\* A step that writes no marker and starts no plan.
LEMMA MarkersStay ==
    ASSUME AdministrationInv, AdministrationTypeOK', markers' = markers,
           \A p \in Selections : /\ plans'[p].saves = plans[p].saves /\ plans'[p].saved = plans[p].saved
                                 /\ plans'[p].started = plans[p].started,
           \A c \in followers' \ followers : c = authoring, authoring' \in {authoring, Nil},
           interrupted \subseteq interrupted',
           \A p \in Selections :
              executing = [plan |-> p, at |-> "withdraw"] =>
                 \/ executing' = executing \/ AllWithdrawn(p) \/ Refused(p) \/ plans[p].saves \subseteq interrupted',
           \A p \in Selections : RemovalIsDue(p)',
           \A c \in Saves : c \notin bytes' => c \notin bytes \/ (removing # Nil /\ c \in Targets(removing)),
           ExecutionIsStarted', ObjectsFollow'
    PROVE  AdministrationInv'
  <1>1. \A p \in Selections : /\ Refused(p)' <=> Refused(p)
                              /\ AllWithdrawn(p)' <=> AllWithdrawn(p)
                              /\ Removable(p)' <=> Removable(p)
    BY DEF Refused, AllWithdrawn, Removable
  <1>2. ASSUME NEW p \in Selections PROVE (PlanIsFixed(p) /\ StartedIsSettled(p) /\ StartedIsLooked(p) /\ RemovalIsDue(p))'
    <2>1. PlanIsFixed(p) /\ StartedIsSettled(p) /\ StartedIsLooked(p) /\ plans[p] \in PlanRecords /\ executing \in Executions
      BY DEF AdministrationInv, AdministrationTypeOK
    <2>4. StartedIsSettled(p)' BY <1>1, <2>1 DEF StartedIsSettled, Executions
    <2>6. StartedIsLooked(p)' BY <1>1, <2>1, AdministrationAssumption DEF StartedIsLooked, PlanRecords
    <2> QED BY <2>1, <2>4, <2>6 DEF PlanIsFixed, Targets
  <1>3. ASSUME NEW c \in Saves PROVE (MarkerIsOfPlan(c) /\ FollowedIsNoticed(c) /\ GoneIsRemoved(c))'
    <2>1. MarkerIsOfPlan(c) /\ FollowedIsNoticed(c) /\ GoneIsRemoved(c) /\ markers[c] \in Selections \cup {Nil}
      BY DEF AdministrationInv, AdministrationTypeOK
    <2>3. FollowedIsNoticed(c)'
      <3>1. CASE c \in followers
        BY <1>1, <2>1, <3>1 DEF FollowedIsNoticed
      <3>2. CASE c \in followers' \ followers /\ markers[c] # Nil
        <4> QED BY <1>1, <2>1, <3>2 DEF FollowedIsNoticed, StartedIsLooked, AdministrationInv, MarkerIsOfPlan
      <3> QED BY <3>1, <3>2 DEF FollowedIsNoticed
    <2>4. GoneIsRemoved(c)'
      <3>1. CASE c \notin bytes
        BY <1>1, <2>1, <3>1 DEF GoneIsRemoved, Targets
      <3>2. CASE removing # Nil /\ c \in Targets(removing)
        <4> QED BY <1>1, <3>2 DEF GoneIsRemoved, Targets, AdministrationInv, AdministrationTypeOK, RemovalIsDue
      <3> QED BY <3>1, <3>2 DEF GoneIsRemoved
    <2> QED BY <2>1, <2>3, <2>4 DEF MarkerIsOfPlan
  <1> QED BY <1>2, <1>3 DEF AdministrationInv

LEMMA AuthoringActions ==
    ASSUME AdministrationInv,
           AttemptEnds \/ Retire \/ PublishRun \/ (\E c \in Saves : RegisterSave(c)) \/ UNCHANGED administrationVars
    PROVE  AdministrationInv'
  <1>1. /\ UNCHANGED <<onCloud, storageVars, objects, markers, plans, executing, removalJobs, interrupted>>
        /\ registry \subseteq registry' /\ registry' \subseteq Saves /\ authoring' \in {authoring, Nil}
        /\ followers' = followers \/ (authoring # Nil /\ followers' = followers \cup {authoring})
    BY DEF AttemptEnds, Retire, PublishRun, RegisterSave, administrationVars, registryVars, storageVars,
           AdministrationInv, AdministrationTypeOK
  <1>3. ExecutionIsStarted' /\ ObjectsFollow' /\ \A p \in Selections : RemovalIsDue(p)'
    BY <1>1 DEF AdministrationInv, ExecutionIsStarted, ObjectsFollow, RemovalIsDue, Removable, RemovedAll, AllWithdrawn,
                storageVars, Targets
  <1> QED BY <1>1, <1>3, MarkersStay DEF storageVars, AdministrationInv, AdministrationTypeOK

LEMMA AuthorBegins == ASSUME AdministrationInv, NEW c \in Saves, BeginAuthor(c) PROVE AdministrationInv'
  <1>1. /\ UNCHANGED <<onCloud, storageVars, objects, markers, plans, executing, removalJobs, interrupted, registry, followers>>
        /\ authoring' = c /\ c \in registry /\ markers[c] = Nil /\ executing.at # "withdraw"
    BY DEF BeginAuthor, Usable, Exclusive
  <1>3. ExecutionIsStarted' /\ ObjectsFollow'
    BY <1>1 DEF AdministrationInv, ExecutionIsStarted, ObjectsFollow, AllWithdrawn
  <1>4. ASSUME NEW p \in Selections PROVE (PlanIsFixed(p) /\ StartedIsSettled(p) /\ StartedIsLooked(p) /\ RemovalIsDue(p))'
    <2>1. PlanIsFixed(p) /\ StartedIsSettled(p) /\ StartedIsLooked(p) /\ RemovalIsDue(p) /\ p # Nil
      BY AdministrationAssumption DEF AdministrationInv
    <2>2. (PlanIsFixed(p) /\ StartedIsSettled(p) /\ RemovalIsDue(p))'
      BY <1>1, <2>1 DEF PlanIsFixed, StartedIsSettled, RemovalIsDue, Removable, RemovedAll, AllWithdrawn, Refused,
                        storageVars, Targets
    <2> QED BY <2>2, <1>1, <2>1 DEF StartedIsLooked, StartedIsSettled, AllWithdrawn, Refused
  <1>5. \A x \in Saves : (MarkerIsOfPlan(x) /\ FollowedIsNoticed(x) /\ GoneIsRemoved(x))'
    BY <1>1 DEF AdministrationInv, MarkerIsOfPlan, FollowedIsNoticed, GoneIsRemoved, Refused, Removable, AllWithdrawn,
                storageVars, Targets
  <1> QED BY <1>1, <1>3, <1>4, <1>5 DEF AdministrationInv, AdministrationTypeOK, storageVars

\* A plan that is prepared, or prepared again, has not been started.
LEMMA PlanPrepared == ASSUME AdministrationInv, NEW p \in Selections, PreparePlan(p) PROVE AdministrationInv'
  <1> DEFINE new == [saved |-> TRUE, saves |-> Covered(p), started |-> FALSE,
                     receipt |-> FALSE, cursor |-> 0, complete |-> ~onCloud]
  <1>1. /\ UNCHANGED <<onCloud, storageVars, objects, registryVars, executing, removalJobs, interrupted>>
        /\ plans' = [plans EXCEPT ![p] = new] /\ ~plans[p].saved
        /\ p \in Saves => p \in Usable
    BY DEF PreparePlan
  <1>2. /\ new \in PlanRecords /\ new.saved /\ ~new.started /\ ~new.receipt /\ new.cursor = 0 /\ new.saves = Covered(p)
        /\ new.complete = ~onCloud
    <2> QED
      BY AdministrationAssumption DEF PlanRecords, AdministrationInv, AdministrationTypeOK, Covered, Usable
  <1> HIDE DEF new
  <1>3. /\ AdministrationTypeOK' /\ plans'[p] = new
        /\ \A q \in Selections \ {p} : plans'[q] = plans[q]
    BY <1>1, <1>2 DEF AdministrationInv, AdministrationTypeOK, storageVars, registryVars
  <1>4. ~plans[p].started /\ \A c \in Saves : markers[c] # p
    BY <1>1, AdministrationAssumption DEF AdministrationInv, PlanIsFixed, MarkerIsOfPlan
  <1>5. ASSUME NEW q \in Selections PROVE (PlanIsFixed(q) /\ StartedIsSettled(q) /\ StartedIsLooked(q) /\ RemovalIsDue(q))'
    <2>1. PlanIsFixed(q) /\ StartedIsSettled(q) /\ StartedIsLooked(q) /\ RemovalIsDue(q)
      BY DEF AdministrationInv
    <2>2. CASE q # p
      BY <1>1, <1>3, <2>1, <2>2
         DEF PlanIsFixed, StartedIsSettled, StartedIsLooked, RemovalIsDue, Removable, RemovedAll, AllWithdrawn, Refused,
             storageVars, registryVars, Targets
    <2>3. CASE q = p
      <3>1. Covered(p) \subseteq Targets(p) /\ (p \notin {"outputs", "state"} => Covered(p) = {p})
        BY DEF Covered, Targets, Usable, AdministrationInv, AdministrationTypeOK
      <3>3. (StartedIsSettled(p) /\ StartedIsLooked(p) /\ RemovalIsDue(p))'
        BY <1>1, <1>2, <1>3, <1>4, <2>1, <2>3
           DEF StartedIsSettled, StartedIsLooked, RemovalIsDue, Removable, storageVars
      <3> QED BY <2>3, <1>2, <1>3, <3>1, <3>3 DEF PlanIsFixed, Targets
    <2> QED BY <2>2, <2>3
  <1>6. ASSUME NEW c \in Saves PROVE (MarkerIsOfPlan(c) /\ FollowedIsNoticed(c) /\ GoneIsRemoved(c))'
    <2>1. MarkerIsOfPlan(c) /\ FollowedIsNoticed(c) /\ GoneIsRemoved(c) /\ markers[c] \in Selections \cup {Nil} /\ markers[c] # p
      BY <1>4 DEF AdministrationInv, AdministrationTypeOK
    <2>2. (MarkerIsOfPlan(c) /\ FollowedIsNoticed(c))'
      BY <1>1, <1>3, <2>1 DEF MarkerIsOfPlan, FollowedIsNoticed, Refused, registryVars
    <2>3. GoneIsRemoved(c)'
      BY <1>1, <1>3, <1>4, <2>1 DEF GoneIsRemoved, Removable, AllWithdrawn, Targets, storageVars, registryVars
    <2> QED BY <2>2, <2>3
  <1>7. ExecutionIsStarted'
    BY <1>1, <1>3, <1>4 DEF AdministrationInv, ExecutionIsStarted, AllWithdrawn, registryVars
  <1>8. ObjectsFollow'
    <2>1. plans[p] \in PlanRecords
      BY DEF AdministrationInv, AdministrationTypeOK
    <2>2. CASE p = "outputs"
      <3> QED BY <1>1, <1>2, <1>3, <2>2 DEF AdministrationInv, ObjectsFollow
    <2>3. CASE p # "outputs"
      BY <1>1, <1>3, <2>3 DEF AdministrationInv, ObjectsFollow
    <2> QED BY <2>2, <2>3
  <1> QED BY <1>3, <1>5, <1>6, <1>7, <1>8 DEF AdministrationInv

LEMMA ExecutionBegins == ASSUME AdministrationInv, NEW p \in Selections, BeginExecution(p) PROVE AdministrationInv'
  <1>1. /\ UNCHANGED <<onCloud, storageVars, objects, registryVars, removalJobs, interrupted>>
        /\ plans' = [plans EXCEPT ![p].started = TRUE] /\ plans[p].saved
        /\ executing.at = "idle" /\ authoring = Nil /\ (plans[p].started \/ Independent(plans[p].saves))
        /\ executing' = [plan |-> p, at |-> "withdraw"]
    BY DEF BeginExecution, NotExecuting
  <1>2. /\ plans' \in [Selections -> PlanRecords] /\ plans'[p].started
        /\ \A q \in Selections : /\ plans'[q].saves = plans[q].saves /\ plans'[q].saved = plans[q].saved
                                 /\ plans'[q].receipt = plans[q].receipt /\ plans'[q].cursor = plans[q].cursor
                                 /\ plans'[q].complete = plans[q].complete
                                 /\ plans[q].started => plans'[q].started
        /\ \A q \in Selections \ {p} : plans'[q].started = plans[q].started
    BY <1>1 DEF AdministrationInv, AdministrationTypeOK, PlanRecords
  <1>3. AdministrationTypeOK'
    BY <1>1, <1>2 DEF AdministrationInv, AdministrationTypeOK, storageVars, registryVars, Executions
  <1>4. \A q \in Selections : /\ Refused(q)' <=> Refused(q)
                              /\ AllWithdrawn(q)' <=> AllWithdrawn(q)
                              /\ Removable(q) => Removable(q)'
    BY <1>1, <1>2 DEF Refused, AllWithdrawn, Removable, registryVars
  <1>5. ASSUME NEW q \in Selections PROVE (PlanIsFixed(q) /\ StartedIsSettled(q) /\ StartedIsLooked(q) /\ RemovalIsDue(q))'
    <2>1. PlanIsFixed(q) /\ StartedIsSettled(q) /\ StartedIsLooked(q) /\ RemovalIsDue(q) /\ plans[q] \in PlanRecords
      BY DEF AdministrationInv, AdministrationTypeOK
    <2>2. PlanIsFixed(q)'
      BY <1>1, <1>2, <2>1 DEF PlanIsFixed, Targets
    <2>3. StartedIsSettled(q)'
      BY <1>1, <1>2, <1>4, <2>1 DEF StartedIsSettled
    <2>4. StartedIsLooked(q)'
      <3>1. CASE plans[q].started
        BY <1>1, <1>2, <1>4, <2>1, <3>1 DEF StartedIsLooked, registryVars
      <3>2. CASE q = p /\ ~plans[p].started
        <4>1. Nil \notin plans[p].saves /\ plans[p].saves \cap followers = {}
          BY <1>1, <2>1, <3>2, AdministrationAssumption DEF PlanRecords, Independent
        <4> QED BY <1>1, <1>2, <3>2, <4>1 DEF StartedIsLooked, registryVars
      <3> QED BY <1>2, <3>1, <3>2 DEF StartedIsLooked
    <2>5. RemovalIsDue(q)'
      BY <1>1, <1>2, <1>4, <2>1 DEF RemovalIsDue, RemovedAll, storageVars, Targets
    <2> QED BY <2>2, <2>3, <2>4, <2>5
  <1>6. ASSUME NEW c \in Saves PROVE (MarkerIsOfPlan(c) /\ FollowedIsNoticed(c) /\ GoneIsRemoved(c))'
    <2>1. MarkerIsOfPlan(c) /\ FollowedIsNoticed(c) /\ GoneIsRemoved(c) /\ markers[c] \in Selections \cup {Nil}
      BY DEF AdministrationInv, AdministrationTypeOK
    <2>2. (MarkerIsOfPlan(c) /\ FollowedIsNoticed(c))'
      BY <1>1, <1>2, <1>4, <2>1 DEF MarkerIsOfPlan, FollowedIsNoticed, registryVars
    <2> QED BY <2>2, <1>1, <1>4, <2>1 DEF GoneIsRemoved, storageVars, Targets
  <1>7. ExecutionIsStarted' /\ ObjectsFollow'
    BY <1>1, <1>2 DEF AdministrationInv, ExecutionIsStarted, ObjectsFollow, registryVars
  <1> QED BY <1>3, <1>5, <1>6, <1>7 DEF AdministrationInv

LEMMA MarkerWritten == ASSUME AdministrationInv, NEW c \in Saves, Withdraw(c) PROVE AdministrationInv'
  <1> DEFINE p == executing.plan
  <1>1. /\ UNCHANGED <<onCloud, storageVars, objects, registry, followers, authoring, plans, executing, removalJobs, interrupted>>
        /\ executing.at = "withdraw" /\ p \in Selections /\ plans[p].started /\ c \in plans[p].saves
        /\ markers[c] = Nil /\ markers' = [markers EXCEPT ![c] = p] /\ p # Nil /\ authoring = Nil
    BY AdministrationAssumption DEF Withdraw, AdministrationInv, ExecutionIsStarted
  <1> HIDE DEF p
  <1>2. markers' \in [Saves -> Selections \cup {Nil}] /\ markers'[c] = p /\ \A x \in Saves \ {c} : markers'[x] = markers[x]
    BY <1>1 DEF AdministrationInv, AdministrationTypeOK
  <1>3. AdministrationTypeOK'
    BY <1>1, <1>2 DEF AdministrationInv, AdministrationTypeOK, storageVars
  <1>4. ASSUME NEW q \in Selections
        PROVE  /\ Refused(q) => Refused(q)'
               /\ AllWithdrawn(q) => AllWithdrawn(q)'
               /\ Removable(q) => Removable(q)'
    <2>1. plans[q] \in PlanRecords /\ plans[q].saves \subseteq Saves /\ q # Nil
      BY AdministrationAssumption DEF AdministrationInv, AdministrationTypeOK, PlanRecords
    <2>3. AllWithdrawn(q) => AllWithdrawn(q)'
      BY <1>1, <1>2, <2>1 DEF AllWithdrawn
    <2> QED BY <1>1, <1>2, <2>1, <2>3 DEF Removable, Refused
  <1>5. ASSUME NEW q \in Selections PROVE (PlanIsFixed(q) /\ StartedIsSettled(q) /\ StartedIsLooked(q) /\ RemovalIsDue(q))'
    <2>1. PlanIsFixed(q) /\ StartedIsSettled(q) /\ StartedIsLooked(q) /\ RemovalIsDue(q)
      BY DEF AdministrationInv
    <2> QED BY <1>1, <1>4, <2>1
            DEF PlanIsFixed, StartedIsSettled, StartedIsLooked, RemovalIsDue, RemovedAll, storageVars, Targets
  <1>6. ASSUME NEW x \in Saves PROVE (MarkerIsOfPlan(x) /\ FollowedIsNoticed(x) /\ GoneIsRemoved(x))'
    <2>1. MarkerIsOfPlan(x) /\ FollowedIsNoticed(x) /\ GoneIsRemoved(x) /\ markers[x] \in Selections \cup {Nil}
      BY DEF AdministrationInv, AdministrationTypeOK
    <2>3. FollowedIsNoticed(x)'
      <3>1. CASE x = c /\ c \in followers
        <4> QED BY <1>1, <1>2, <1>4, <3>1 DEF FollowedIsNoticed, AdministrationInv, StartedIsLooked
      <3>2. CASE x # c
        BY <1>1, <1>2, <1>4, <2>1, <3>2 DEF FollowedIsNoticed
      <3> QED BY <1>1, <3>1, <3>2 DEF FollowedIsNoticed
    <2>4. GoneIsRemoved(x)'
      BY <1>1, <1>4, <2>1 DEF GoneIsRemoved, storageVars, Targets
    <2> QED BY <1>1, <1>2, <2>1, <2>3, <2>4 DEF MarkerIsOfPlan
  <1>7. ExecutionIsStarted' /\ ObjectsFollow'
    BY <1>1, <1>4 DEF AdministrationInv, ExecutionIsStarted, ObjectsFollow
  <1> QED BY <1>3, <1>5, <1>6, <1>7 DEF AdministrationInv

\* An execution goes on, is refused, stops, or is done.
LEMMA ExecutionActions ==
    ASSUME AdministrationInv, EndWithdraw \/ RefuseExecution \/ StopExecution
    PROVE  AdministrationInv'
  <1> DEFINE p == executing.plan
  <1>1. /\ UNCHANGED <<onCloud, storageVars, objects, registryVars, plans, removalJobs>>
        /\ p \in Selections /\ plans[p].started
    BY DEF EndWithdraw, RefuseExecution, StopExecution, AdministrationInv, AdministrationTypeOK, ExecutionIsStarted
  <1>2. /\ interrupted \subseteq interrupted' /\ interrupted' \subseteq Saves
        /\ executing.at = "withdraw" => AllWithdrawn(p) \/ Refused(p) \/ plans[p].saves \subseteq interrupted'
    <2>1. plans[p].saves \subseteq Saves /\ interrupted \subseteq Saves
      BY <1>1 DEF AdministrationInv, AdministrationTypeOK, PlanRecords
    <2> QED BY <2>1 DEF EndWithdraw, RefuseExecution, StopExecution, Refused
  <1>3. /\ executing' \in Executions /\ (executing'.at = "idle" => executing' = NotExecuting)
        /\ executing'.at # "idle" => executing'.plan = p /\ executing'.at \in {"remove", "finish"} /\ AllWithdrawn(p)
    <2>2. CASE EndWithdraw
      BY <2>2 DEF EndWithdraw, AdministrationInv, AdministrationTypeOK, Executions
    <2>3. CASE RefuseExecution \/ StopExecution
      BY <2>3 DEF RefuseExecution, StopExecution, NotExecuting, Executions
    <2> QED BY <2>2, <2>3
  <1>4. AdministrationTypeOK'
    BY <1>1, <1>2, <1>3 DEF AdministrationInv, AdministrationTypeOK, storageVars, registryVars
  <1>5. ExecutionIsStarted'
    BY <1>1, <1>3 DEF ExecutionIsStarted, AllWithdrawn, registryVars
  <1>6. ObjectsFollow' /\ \A q \in Selections : RemovalIsDue(q)'
    BY <1>1 DEF AdministrationInv, ObjectsFollow, RemovalIsDue, Removable, RemovedAll, AllWithdrawn, storageVars,
                registryVars, Targets
  <1>7. \A q \in Selections : executing = [plan |-> q, at |-> "withdraw"] =>
                                 AllWithdrawn(q) \/ Refused(q) \/ plans[q].saves \subseteq interrupted'
    BY <1>2
  <1> QED BY <1>1, <1>2, <1>4, <1>5, <1>6, <1>7, MarkersStay DEF storageVars, registryVars

\* The worker removes what its plan withdrew, and says so when all of it is gone.
LEMMA RemovalActions ==
    ASSUME AdministrationInv,
           SubmitRemoval \/ (\E p \in Selections : BeginRemoval(p)) \/ RemoveBytes \/ EndRemoval \/ StopRemoval
    PROVE  AdministrationInv'
  <1>0. Executions # {} /\ executing \in Executions /\ outputs \in BOOLEAN /\ bytes \subseteq Saves
    BY DEF AdministrationInv, AdministrationTypeOK
  <1>1. /\ UNCHANGED <<onCloud, objects, registryVars, plans, interrupted>>
        /\ bytes' \subseteq bytes /\ outputs' \in BOOLEAN /\ (outputs' => outputs)
        /\ \A c \in bytes \ bytes' : removing # Nil /\ c \in Targets(removing)
        /\ executing' \in Executions /\ executing'.plan = executing.plan
        /\ executing' = executing \/ (executing.at = "remove" /\ executing'.at = "finish")
    <2>1. CASE SubmitRemoval BY <1>0, <2>1 DEF SubmitRemoval, storageVars, Executions
    <2>2. CASE \E p \in Selections : BeginRemoval(p)
      BY <1>0, <2>2 DEF BeginRemoval
    <2>3. CASE RemoveBytes
      <3>1. /\ bytes' \subseteq bytes /\ outputs' \in BOOLEAN /\ (outputs' => outputs)
            /\ \A c \in bytes \ bytes' : removing # Nil /\ c \in Targets(removing)
        <4>2. CASE \E c \in bytes \cap Targets(removing) : bytes' = bytes \ {c} /\ UNCHANGED outputs
          BY <1>0, <2>3, <4>2 DEF RemoveBytes
        <4>3. CASE outputs' = FALSE /\ UNCHANGED bytes
          BY <4>3
        <4> QED BY <2>3, <4>2, <4>3 DEF RemoveBytes
      <3> QED BY <1>0, <3>1, <2>3 DEF RemoveBytes
    <2>4. CASE EndRemoval \/ StopRemoval
      BY <1>0, <2>4 DEF EndRemoval, StopRemoval
    <2> QED BY <2>1, <2>2, <2>3, <2>4
  <1>2. /\ removing' \in {removing, Nil} \/ (removing' \in Selections /\ Asked(removing'))
        /\ removalJobs' = removalJobs \/ (executing.at = "remove" /\ removalJobs' = removalJobs \cup {executing.plan})
        /\ ledger' = ledger \/ (removing # Nil /\ RemovedAll(removing) /\ ledger' = ledger \cup {removing})
    BY DEF SubmitRemoval, BeginRemoval, RemoveBytes, EndRemoval, StopRemoval, storageVars
  <1>3. executing.at = "remove" => executing.plan \in Selections /\ Removable(executing.plan)
    BY DEF AdministrationInv, ExecutionIsStarted, Removable, PlanIsFixed
  <1>4. AdministrationTypeOK'
    BY <1>1, <1>2, <1>3 DEF AdministrationInv, AdministrationTypeOK, registryVars
  <1>5. ExecutionIsStarted' /\ ObjectsFollow'
    BY <1>1 DEF AdministrationInv, ExecutionIsStarted, ObjectsFollow, AllWithdrawn, registryVars
  <1>6. ASSUME NEW q \in Selections PROVE RemovalIsDue(q)'
    <2>1. RemovalIsDue(q) /\ (Removable(q)' <=> Removable(q)) /\ (RemovedAll(q) => RemovedAll(q)')
      BY <1>1 DEF AdministrationInv, Removable, AllWithdrawn, RemovedAll, registryVars, Targets
    <2>3. q # Nil
      BY AdministrationAssumption
    <2>4. q \in ledger' /\ q \notin ledger => q = removing /\ RemovedAll(q)
      BY <1>2
    <2>5. (q = removing' \/ q \in removalJobs' \/ q \in ledger') => Removable(q)
      BY <1>2, <1>3, <2>1, <2>3, <2>4 DEF RemovalIsDue, Asked
    <2>7. plans'[q].receipt => q \in ledger'
      BY <1>1, <1>2, <2>1 DEF RemovalIsDue
    <2> QED BY <2>1, <2>5, <2>4, <2>7 DEF RemovalIsDue
  <1>8. \A p \in Selections : executing = [plan |-> p, at |-> "withdraw"] => executing' = executing
    BY <1>1
  <1> QED BY <1>1, <1>4, <1>5, <1>6, <1>8, MarkersStay DEF registryVars

\* What a receipt starts: the release of the archive, part by part.
LEMMA ReceiptActions ==
    ASSUME AdministrationInv, (\E p \in Selections : ReceiveReceipt(p)) \/ ReleaseArchivePart \/ FinishExecution
    PROVE  AdministrationInv'
  <1>0. /\ UNCHANGED <<onCloud, storageVars, registryVars, removalJobs, interrupted>>
        /\ plans \in [Selections -> PlanRecords] /\ MostParts \in Nat
    BY AdministrationAssumption
       DEF ReceiveReceipt, ReleaseArchivePart, FinishExecution, AdministrationInv, AdministrationTypeOK
  <1>1. /\ plans' \in [Selections -> PlanRecords]
        /\ \A q \in Selections : /\ plans'[q].saves = plans[q].saves /\ plans'[q].saved = plans[q].saved
                                 /\ plans'[q].started = plans[q].started
                                 /\ plans'[q].receipt => plans[q].receipt \/ q \in ledger
        /\ ObjectsFollow'
    <2>1. ASSUME NEW p \in Selections, ReceiveReceipt(p)
          PROVE  /\ plans' \in [Selections -> PlanRecords]
                 /\ \A q \in Selections : /\ plans'[q].saves = plans[q].saves /\ plans'[q].saved = plans[q].saved
                                          /\ plans'[q].started = plans[q].started
                                          /\ plans'[q].receipt => plans[q].receipt \/ q \in ledger
                 /\ ObjectsFollow'
      <3>1. /\ plans' = [plans EXCEPT ![p].receipt = TRUE] /\ p \in ledger /\ UNCHANGED objects
        BY <2>1 DEF ReceiveReceipt
      <3> QED BY <1>0, <3>1 DEF AdministrationInv, ObjectsFollow, PlanRecords
    <2>2. ASSUME ReleaseArchivePart
          PROVE  /\ plans' \in [Selections -> PlanRecords]
                 /\ \A q \in Selections : /\ plans'[q].saves = plans[q].saves /\ plans'[q].saved = plans[q].saved
                                          /\ plans'[q].started = plans[q].started
                                          /\ plans'[q].receipt => plans[q].receipt \/ q \in ledger
                 /\ ObjectsFollow'
      <3> DEFINE old == plans["outputs"]
                 new == [old EXCEPT !.cursor = old.cursor + 1, !.complete = old.cursor + 1 = MostParts]
      <3>1. /\ "outputs" \in Selections /\ old \in PlanRecords /\ old.cursor < MostParts
            /\ old.saved
        BY <1>0, <2>2 DEF ReleaseArchivePart, AdministrationInv, ExecutionIsStarted, PlanIsFixed
      <3>2. plans' = [plans EXCEPT !["outputs"] = new] /\ objects' = MostParts - old.cursor - 1
        BY <1>0, <2>2 DEF ReleaseArchivePart
      <3>a. /\ old.cursor \in Nat /\ old.cursor + 1 \in 0..MostParts
            /\ new = [saved |-> old.saved, saves |-> old.saves, started |-> old.started, receipt |-> old.receipt,
                      cursor |-> old.cursor + 1, complete |-> old.cursor + 1 = MostParts]
        <4> DEFINE step == [old EXCEPT !.cursor = old.cursor + 1]
        <4>1. new = [step EXCEPT !.complete = old.cursor + 1 = MostParts]
          OBVIOUS
        <4>2. old.cursor \in Nat /\ old.cursor \in 0..MostParts
          BY <1>0, <3>1 DEF PlanRecords
        <4>3. old.cursor + 1 \in 0..MostParts
          BY <1>0, <3>1, <4>2
        <4>4. step = [saved |-> old.saved, saves |-> old.saves, started |-> old.started, receipt |-> old.receipt,
                      cursor |-> old.cursor + 1, complete |-> old.complete] /\ step \in PlanRecords
          <5> HIDE DEF old
          <5>3. step \in PlanRecords BY <3>1, <4>3 DEF PlanRecords
          <5> DEFINE n == old.cursor + 1
          <5>5. n \in Int /\ old \in PlanRecords /\ step = [old EXCEPT !.cursor = n] BY <3>1, <4>2
          <5> HIDE DEF n
          <5>6. step = [saved |-> old.saved, saves |-> old.saves, started |-> old.started, receipt |-> old.receipt,
                        cursor |-> n, complete |-> old.complete] BY <5>5 DEF PlanRecords
          <5> QED BY <5>3, <5>6 DEF n
        <4>5. \A d \in PlanRecords : \A b \in BOOLEAN :
                [d EXCEPT !.complete = b]
                  = [saved |-> d.saved, saves |-> d.saves, started |-> d.started, receipt |-> d.receipt,
                     cursor |-> d.cursor, complete |-> b]
          BY DEF PlanRecords
        <4>6. step.saved = old.saved /\ step.saves = old.saves /\ step.started = old.started
              /\ step.receipt = old.receipt /\ step.cursor = old.cursor + 1
          BY <4>4
        <4> HIDE DEF step
        <4> QED BY <4>1, <4>2, <4>3, <4>4, <4>5, <4>6
      <3>3. /\ new \in PlanRecords /\ new.saves = old.saves /\ new.saved = old.saved /\ new.started = old.started
            /\ new.receipt = old.receipt /\ new.cursor = old.cursor + 1
            /\ (new.complete => old.cursor + 1 = MostParts)
        BY <1>0, <3>1, <3>a DEF PlanRecords
      <3> HIDE DEF new
      <3>4. plans' \in [Selections -> PlanRecords] /\ plans'["outputs"] = new
            /\ \A q \in Selections \ {"outputs"} : plans'[q] = plans[q]
        BY <1>0, <3>1, <3>2, <3>3
      <3>5. ObjectsFollow'
        BY <1>0, <3>1, <3>2, <3>3, <3>4, <3>a DEF ObjectsFollow
      <3> QED BY <3>3, <3>4, <3>5
    <2>3. ASSUME FinishExecution
          PROVE  /\ plans' \in [Selections -> PlanRecords]
                 /\ \A q \in Selections : /\ plans'[q].saves = plans[q].saves /\ plans'[q].saved = plans[q].saved
                                          /\ plans'[q].started = plans[q].started
                                          /\ plans'[q].receipt => plans[q].receipt \/ q \in ledger
                 /\ ObjectsFollow'
      <3> DEFINE p == executing.plan
      <3>1. p \in Selections /\ UNCHANGED objects
        BY <2>3 DEF FinishExecution, AdministrationInv, ExecutionIsStarted
      <3>3. CASE plans' = plans
        BY <1>0, <3>1, <3>3 DEF AdministrationInv, ObjectsFollow
      <3>4. CASE /\ plans' = [plans EXCEPT ![p].complete = TRUE]
                 /\ p = "outputs" => plans[p].cursor = MostParts
        <4> HIDE DEF p
        <4> QED BY <1>0, <3>1, <3>4 DEF AdministrationInv, ObjectsFollow, PlanRecords
      <3> QED BY <2>3, <3>3, <3>4 DEF FinishExecution
    <2> QED BY <2>1, <2>2, <2>3
  <1>2. /\ executing' \in Executions /\ (executing'.at = "idle" => executing' = NotExecuting)
        /\ executing'.at # "idle" => executing'.plan = executing.plan /\ executing.at # "idle"
        /\ executing'.at # "idle" /\ executing' # executing => executing.at = "remove" /\ executing'.at = "finish"
        /\ executing.at = "withdraw" => executing' = executing
    <2>2. executing \in Executions /\ (executing.at = "idle" => executing = NotExecuting)
      BY DEF AdministrationInv, AdministrationTypeOK
    <2>3. ASSUME NEW p \in Selections, ReceiveReceipt(p)
          PROVE  executing' = executing \/ (executing.at = "remove" /\ executing' = [executing EXCEPT !.at = "finish"])
      BY <2>3 DEF ReceiveReceipt, Asked
    <2>4. ReleaseArchivePart => executing' = executing
      BY DEF ReleaseArchivePart
    <2>5. FinishExecution => executing' = NotExecuting /\ executing.at = "finish"
      BY DEF FinishExecution
    <2> QED BY <2>2, <2>3, <2>4, <2>5 DEF Executions, NotExecuting
  <1>3. AdministrationTypeOK'
    BY <1>0, <1>1, <1>2 DEF AdministrationInv, AdministrationTypeOK, storageVars, registryVars
  <1>4. ExecutionIsStarted'
    BY <1>0, <1>1, <1>2 DEF AdministrationInv, ExecutionIsStarted, AllWithdrawn, registryVars, Executions
  <1>5. ASSUME NEW q \in Selections PROVE RemovalIsDue(q)'
    BY <1>0, <1>1 DEF AdministrationInv, RemovalIsDue, Removable, RemovedAll, AllWithdrawn, storageVars, registryVars,
                      Targets
  <1>6. \A p \in Selections : executing = [plan |-> p, at |-> "withdraw"] => executing' = executing
    BY <1>2
  <1> QED BY <1>0, <1>1, <1>3, <1>4, <1>5, <1>6, MarkersStay DEF storageVars, registryVars

LEMMA AdministrationInvariant == AdministrationSpec => []AdministrationInv
  <1>1. ASSUME AdministrationInv, [AdministrationNext]_administrationVars PROVE AdministrationInv'
    BY <1>1, AuthoringActions, AuthorBegins, PlanPrepared, ExecutionBegins, MarkerWritten, ExecutionActions,
       RemovalActions, ReceiptActions DEF AdministrationNext
  <1> QED BY <1>1, AdministrationInitInv, PTL DEF AdministrationSpec

(* The deletion fence and the maintenance of storage, for every set of
   checkpoints and plans, whatever is interrupted: what a Run resumes from
   and what can still be read is stored, but for the two gaps that are
   named, and a receipt is of bytes, outputs and objects that are gone. *)
THEOREM RemovalStaysSafe == AdministrationSpec => []RemovalIsSafe
  <1>1. ASSUME AdministrationInv PROVE RemovalIsSafe
    <2>1. ASSUME NEW c \in registry, c \notin bytes
          PROVE  \/ c \in Late
                 \/ markers[c] # Nil /\ (c \in followers => c \in interrupted)
      <3>1. c \in Saves /\ MarkerIsOfPlan(c) /\ FollowedIsNoticed(c) /\ GoneIsRemoved(c) /\ markers[c] \in Selections \cup {Nil}
        BY <1>1, <2>1 DEF AdministrationInv, AdministrationTypeOK
      <3>2. PICK p \in Selections : Removable(p) /\ c \in Targets(p)
        BY <2>1, <3>1 DEF GoneIsRemoved
      <3>3. CASE markers[c] = Nil
        BY <3>1, <3>2, <3>3, AdministrationAssumption DEF Removable, AllWithdrawn, Late, Usable
      <3>4. CASE markers[c] # Nil
        <4> DEFINE q == markers[c]
        <4>1. q \in Selections /\ plans[q].started /\ c \in plans[q].saves /\ PlanIsFixed(q) /\ PlanIsFixed(p)
          BY <1>1, <3>1, <3>4 DEF MarkerIsOfPlan, AdministrationInv
        <4>2. ~Refused(q)
          <5>1. CASE q = p
            BY <3>2, <5>1 DEF Removable, AllWithdrawn, Refused
          <5>2. CASE q # p
            <6>1. c \in plans[q].saves /\ c \in Targets(q) /\ plans[q].saved
              BY <4>1 DEF PlanIsFixed
            <6>2. CASE q \notin {"outputs", "state"}
              BY <4>1, <6>1, <6>2 DEF PlanIsFixed, Refused
            <6>3. CASE q \in {"outputs", "state"}
              <7>1. q = "state" /\ p \notin {"outputs", "state"}
                BY <3>2, <5>2, <6>1, <6>3 DEF Targets
              <7>2. plans[p].saves = {p} /\ c = p /\ markers[c] = p
                BY <3>2, <4>1, <7>1 DEF PlanIsFixed, Removable, Targets, AllWithdrawn
              <7> QED BY <5>2, <7>2
            <6> QED BY <6>2, <6>3
          <5> QED BY <5>1, <5>2
        <4> QED BY <3>1, <3>4, <4>2 DEF FollowedIsNoticed
      <3> QED BY <3>3, <3>4
    <2>2. NoRunLosesItsCheckpoint
      BY <1>1, <2>1 DEF NoRunLosesItsCheckpoint, AdministrationInv, AdministrationTypeOK
    <2>4. CompletedIsGone
      BY <1>1, AdministrationAssumption
         DEF CompletedIsGone, AdministrationInv, RemovalIsDue, RemovedAll, ObjectsFollow
    <2> QED BY <2>2, <2>1, <2>4 DEF RemovalIsSafe, ReadableIsStored, Usable
  <1> QED BY <1>1, AdministrationInvariant, PTL

------------
(* The observer of a backend.  What keeps a wait: the time since a failure
   and the time until the key is due are together its backoff.  What keeps
   a turn: the keys that overtook one are those from it up to the key that
   was picked last, around the circle of the keys. *)
Entries == [due : Int, failures : Nat, phase : Phases]

PollingTypeOK ==
    /\ candidates \subseteq Keys
    /\ kept \in [Keys -> Entries]
    /\ after \in Keys \cup {0} /\ sampling \in Keys \cup {0}
    /\ sinceFailed \in [Keys -> Int]
    /\ overtaken \in [Keys -> Nat]

BackoffPasses ==
    \A k \in Keys : kept[k].failures > 0 =>
       \/ sinceFailed[k] >= Backoff(kept[k].failures)
       \/ sinceFailed[k] + kept[k].due >= Backoff(kept[k].failures)

SampledIsDue == sampling # 0 => kept[sampling].due = 0

\* The keys after k and up to the key that was picked last.
Between(k, last) ==
    IF last < k THEN {j \in Keys : j > k \/ j <= last} ELSE {j \in Keys : j > k /\ j <= last}

TurnComes == \A k \in Keys : overtaken[k] <= Cardinality(Between(k, after))

PollingInv == PollingTypeOK /\ BackoffPasses /\ SampledIsDue /\ TurnComes

LEMMA SmallestIsThere ==
    ASSUME NEW S \in SUBSET Nat, S # {}
    PROVE  Smallest(S) \in S /\ \A other \in S : Smallest(S) <= other
  <1> DEFINE T == {0..k : k \in S}
  <1>1. T \subseteq FiniteSubsetsOf(Nat) /\ T # {}
    <2>1. \A k \in S : 0..k \in SUBSET Nat /\ IsFiniteSet(0..k)
      BY FS_Interval
    <2> QED BY <2>1 DEF FiniteSubsetsOf
  <1>2. \E x \in T : \A y \in T : ~(<<y, x>> \in StrictSubsetOrdering(Nat))
    <2> HIDE DEF T
    <2> QED BY <1>1, FS_StrictSubsetOrderingWellFounded, WFMin
  <1>3. PICK x \in T : \A y \in T : ~(<<y, x>> \in StrictSubsetOrdering(Nat))
    BY <1>2
  <1>4. PICK k \in S : x = 0..k
    BY <1>3
  <1>5. \A j \in S : k <= j
    <2> SUFFICES ASSUME NEW j \in S, j < k PROVE FALSE
      OBVIOUS
    <2>2. <<0..j, 0..k>> \in StrictSubsetOrdering(Nat) BY DEF StrictSubsetOrdering
    <2> QED BY <1>3, <1>4, <2>2
  <1> QED BY <1>5 DEF Smallest

\* A backoff is a number of seconds, and at most the longest.
LEMMA BackoffIsBounded == \A n \in Nat : Backoff(n) \in Int /\ Backoff(n) <= LongestWait
  <1>2. LongestWait \in Nat /\ Interval \in Nat
    BY PollingAssumption
  <1> QED BY <1>2 DEF Backoff, Smaller

LEMMA BetweenIsFinite ==
    ASSUME NEW k \in Keys, NEW last \in Keys \cup {0}
    PROVE  /\ IsFiniteSet(Between(k, last)) /\ Cardinality(Between(k, last)) \in Nat
           /\ Cardinality(Between(k, last)) < Cardinality(Keys)
  <1>1. IsFiniteSet(Keys) /\ Keys \subseteq Nat /\ Cardinality(Keys) \in Nat
    BY PollingAssumption, FS_CardinalityType
  <1>3. IsFiniteSet(Between(k, last)) /\ Cardinality(Between(k, last)) <= Cardinality(Keys)
        /\ Cardinality(Between(k, last)) # Cardinality(Keys) BY <1>1, PollingAssumption, FS_Subset DEF Between
  <1> QED BY <1>1, <1>3, FS_CardinalityType

FirstAfter(S, last) ==
    IF {k \in S : k > last} # {} THEN Smallest({k \in S : k > last}) ELSE IF S # {} THEN Smallest(S) ELSE 0

\* The next pick is due, and whoever is due and not picked was not passed by it before.
LEMMA PickPassesOnce ==
    ASSUME NEW S \in SUBSET Keys, NEW last \in Keys \cup {0}, NEW picked,
           picked = FirstAfter(S, last)
    PROVE  /\ picked \in S \cup {0} /\ (picked = 0 => S = {})
           /\ \A k \in S : k # picked => /\ picked \in Between(k, picked) /\ picked \notin Between(k, last)
                                         /\ Between(k, last) \subseteq Between(k, picked)
  <1> DEFINE later == {k \in S : k > last}
  <1>1. Keys \subseteq Nat \ {0} /\ S \in SUBSET Nat /\ later \in SUBSET Nat
    BY PollingAssumption
  <1>2. CASE later # {}
    <2>1. picked \in later /\ \A other \in later : picked <= other
      BY <1>1, <1>2, SmallestIsThere DEF FirstAfter
    <2>2. picked \in S /\ picked \in Nat /\ picked > last /\ last \in Nat
      BY <1>1, <2>1
    <2>3. ASSUME NEW k \in S, k # picked
          PROVE  /\ picked \in Between(k, picked) /\ picked \notin Between(k, last)
                 /\ Between(k, last) \subseteq Between(k, picked)
      <3>1. k \in Nat /\ k \in Keys /\ picked \in Keys
        BY <1>1, <2>2
      <3>2. CASE k > last
        <4>1. picked < k
          BY <2>1, <2>2, <2>3, <3>1, <3>2
        <4>3. \A j \in Keys : j <= last => j <= picked
          BY <1>1, <2>2
        <4>4. ~(picked > k) /\ ~(picked <= last) /\ picked <= picked
          BY <2>2, <3>1, <4>1
        <4> QED BY <3>1, <3>2, <4>1, <4>3, <4>4 DEF Between
      <3>3. CASE k <= last
        <4>1. k < picked /\ ~(last < k) /\ ~(picked < k) /\ ~(picked <= last) /\ picked <= picked
          BY <2>2, <3>1, <3>3
        <4>3. \A j \in Keys : j <= last => j <= picked
          BY <1>1, <2>2
        <4> QED BY <3>1, <4>1, <4>3 DEF Between
      <3> QED BY <2>2, <3>1, <3>2, <3>3
    <2> HIDE DEF later
    <2> QED BY <1>1, <2>2, <2>3
  <1>3. CASE later = {} /\ S # {}
    <2>1. picked \in S /\ \A other \in S : picked <= other
      BY <1>1, <1>3, SmallestIsThere DEF FirstAfter
    <2> QED BY <1>1, <1>3, <2>1 DEF Between
  <1>4. CASE S = {}
    BY <1>4 DEF FirstAfter
  <1> QED BY <1>2, <1>3, <1>4

LEMMA PollingStarts == PollingInit => PollingInv
  <1> SUFFICES ASSUME PollingInit PROVE PollingInv
    OBVIOUS
  <1>1. PollingTypeOK
    BY PollingAssumption DEF PollingInit, PollingTypeOK, Entries, NewEntry, Phases
  <1>2. \A k \in Keys : Cardinality(Between(k, 0)) \in Nat
    BY BetweenIsFinite
  <1> QED BY <1>1, <1>2 DEF PollingInit, PollingInv, BackoffPasses, SampledIsDue, TurnComes, NewEntry

LEMMA ObserverPicks == ASSUME PollingInv, ObserverStep PROVE PollingInv'
  <1>1. PollingTypeOK /\ candidates' \subseteq Keys /\ sinceFailed' = sinceFailed
    BY DEF PollingInv, PollingTypeOK, ObserverStep
  <1>2. /\ kept' \in [Keys -> Entries]
        /\ \A k \in Keys : kept'[k] = kept[k] \/ kept'[k] = NewEntry
    BY <1>1 DEF ObserverStep, Retained, PollingTypeOK, Entries, NewEntry, Phases
  <1> DEFINE S == Due(kept', candidates')
  <1>3. S \subseteq Keys
    BY <1>1 DEF Due
  <1>5. after \in Keys \cup {0}
    BY <1>1 DEF PollingTypeOK
  <1>6. /\ sampling' \in S \cup {0} /\ (sampling' = 0 => S = {})
        /\ \A k \in S : k # sampling' => /\ sampling' \in Between(k, sampling') /\ sampling' \notin Between(k, after)
                                         /\ Between(k, after) \subseteq Between(k, sampling')
    <2> DEFINE p == sampling'
    <2>1. p = FirstAfter(S, after) BY DEF ObserverStep, Picks, FirstAfter
    <2> HIDE DEF S, p
    <2> QED BY <1>3, <1>5, <2>1, PickPassesOnce DEF p
  <1>7. after' = (IF sampling' = 0 THEN after ELSE sampling') /\ after' \in Keys \cup {0}
    BY <1>3, <1>5, <1>6 DEF ObserverStep
  <1>8. /\ overtaken' \in [Keys -> Nat]
        /\ \A k \in Keys : overtaken'[k] = IF k \notin S \/ k = sampling' THEN 0 ELSE overtaken[k] + 1
    BY <1>1 DEF ObserverStep, PollingTypeOK
  <1>9. PollingTypeOK'
    BY <1>1, <1>2, <1>3, <1>6, <1>7, <1>8 DEF PollingTypeOK
  <1>10. BackoffPasses'
    BY <1>1, <1>2 DEF PollingInv, BackoffPasses, NewEntry
  <1>11. SampledIsDue'
    BY <1>3, <1>6 DEF SampledIsDue, Due
  <1>12. TurnComes'
    <2> SUFFICES ASSUME NEW k \in Keys PROVE overtaken'[k] <= Cardinality(Between(k, after'))
      BY DEF TurnComes
    <2>1. Cardinality(Between(k, after')) \in Nat
      BY <1>7, BetweenIsFinite
    <2>2. CASE k \notin S \/ k = sampling'
      BY <1>8, <2>1, <2>2
    <2>3. CASE k \in S /\ k # sampling'
      <3>1. sampling' # 0 /\ after' = sampling' /\ overtaken'[k] = overtaken[k] + 1
        BY <1>6, <1>7, <1>8, <2>3
      <3>2. /\ IsFiniteSet(Between(k, after)) /\ Cardinality(Between(k, after)) \in Nat
            /\ IsFiniteSet(Between(k, after'))
        BY <1>5, <1>7, BetweenIsFinite
      <3>3. /\ Cardinality(Between(k, after)) <= Cardinality(Between(k, after'))
            /\ Cardinality(Between(k, after)) # Cardinality(Between(k, after'))
        <4> QED BY <3>2, <1>6, <2>3, <3>1, FS_Subset
      <3>4. overtaken[k] <= Cardinality(Between(k, after)) /\ overtaken[k] \in Nat
        BY <1>1 DEF PollingInv, TurnComes, PollingTypeOK
      <3> QED BY <2>1, <3>1, <3>2, <3>3, <3>4
    <2> QED BY <2>2, <2>3
  <1> QED BY <1>9, <1>10, <1>11, <1>12 DEF PollingInv

\* A sample that is over schedules its key again, and touches no other.
LEMMA SampleEnds ==
    ASSUME PollingInv, sampling # 0, NEW next \in Entries, Scheduled(next),
           \/ UNCHANGED sinceFailed /\ (next.failures > 0 => next.failures = kept[sampling].failures)
           \/ sinceFailed' = [sinceFailed EXCEPT ![sampling] = 0] /\ next.due = Backoff(next.failures)
    PROVE  PollingInv'
  <1>1. PollingTypeOK /\ sampling \in Keys /\ SampledIsDue /\ UNCHANGED <<candidates, after, overtaken>>
    BY DEF PollingInv, PollingTypeOK, Scheduled
  <1>2. kept' \in [Keys -> Entries] /\ kept'[sampling] = next /\ \A k \in Keys \ {sampling} : kept'[k] = kept[k]
    BY <1>1 DEF Scheduled, PollingTypeOK
  <1>3. sinceFailed' \in [Keys -> Int] /\ \A k \in Keys \ {sampling} : sinceFailed'[k] = sinceFailed[k]
    BY <1>1 DEF PollingTypeOK
  <1>4. PollingTypeOK' /\ SampledIsDue' /\ TurnComes'
    BY <1>1, <1>2, <1>3 DEF PollingInv, PollingTypeOK, SampledIsDue, TurnComes, Scheduled
  <1>5. BackoffPasses'
    <2> SUFFICES ASSUME NEW k \in Keys, kept'[k].failures > 0
                 PROVE  \/ sinceFailed'[k] >= Backoff(kept'[k].failures)
                        \/ sinceFailed'[k] + kept'[k].due >= Backoff(kept'[k].failures)
      BY DEF BackoffPasses
    <2>1. CASE k # sampling
      BY <1>2, <1>3, <2>1 DEF PollingInv, BackoffPasses
    <2>2. CASE k = sampling /\ UNCHANGED sinceFailed /\ next.failures = kept[sampling].failures
      <3>1. kept[k].due = 0 /\ sinceFailed[k] \in Int /\ kept[k].failures \in Nat
        BY <1>1, <2>2 DEF SampledIsDue, PollingTypeOK, Entries
      <3> QED BY <1>2, <2>2, <3>1 DEF PollingInv, BackoffPasses
    <2>3. CASE k = sampling /\ sinceFailed' = [sinceFailed EXCEPT ![sampling] = 0] /\ next.due = Backoff(next.failures)
      <3> QED BY <2>3, <1>1, <1>2, BackoffIsBounded DEF PollingTypeOK, Entries
    <2> QED BY <1>2, <2>1, <2>2, <2>3
  <1> QED BY <1>4, <1>5 DEF PollingInv

LEMMA SampleActions == ASSUME PollingInv, Succeed \/ Fail \/ FindBusy \/ Skip PROVE PollingInv'
  <1> DEFINE e == kept[sampling]
  <1>1. sampling # 0 /\ e \in Entries /\ Interval \in Nat /\ MostFailures \in Nat
    BY PollingAssumption DEF PollingInv, PollingTypeOK, Succeed, Fail, FindBusy, Skip
  <1>2. \A p \in Phases : NextPhase(p) \in Phases
    BY DEF Phases, NextPhase
  <1>3. \A d \in Entries : d = [due |-> d.due, failures |-> d.failures, phase |-> d.phase]
                           /\ d.failures \in Nat /\ d.phase \in Phases
    BY DEF Entries
  <1>4. CASE Succeed
    <2> DEFINE next == [due |-> IF NextPhase(e.phase) = "Scheduler" THEN Backoff(0) ELSE 1, failures |-> 0,
                        phase |-> NextPhase(e.phase)]
    <2>1. next \in Entries /\ Scheduled(next) /\ UNCHANGED sinceFailed /\ ~(next.failures > 0)
      BY <1>1, <1>2, <1>3, <1>4, BackoffIsBounded DEF Succeed, Entries
    <2> HIDE DEF next
    <2> QED BY <1>1, <2>1, SampleEnds
  <1>5. CASE Fail
    <2> DEFINE n == Smaller(e.failures + 1, MostFailures)
               next == [due |-> Backoff(n), failures |-> n, phase |-> NextPhase(e.phase)]
    <2>1. n \in Nat
      BY <1>1, <1>3 DEF Smaller
    <2>2. next \in Entries /\ Scheduled(next) /\ next.due = Backoff(next.failures)
          /\ sinceFailed' = [sinceFailed EXCEPT ![sampling] = 0]
      <3> HIDE DEF n
      <3>1. next \in Entries /\ next.due = Backoff(next.failures)
        BY <1>1, <1>2, <1>3, <2>1, BackoffIsBounded DEF Entries
      <3> QED BY <3>1, <1>5 DEF Fail, n
    <2> HIDE DEF next, n
    <2> QED BY <1>1, <2>2, SampleEnds
  <1>6. CASE FindBusy
    <2> DEFINE next == [e EXCEPT !.due = 1]
    <2>1. next \in Entries /\ next.failures = e.failures
      BY <1>1 DEF Entries
    <2>2. Scheduled(next) /\ UNCHANGED sinceFailed
      BY <1>6 DEF FindBusy
    <2> HIDE DEF next
    <2> QED BY <1>1, <2>1, <2>2, SampleEnds
  <1>7. CASE Skip
    <2> DEFINE phase == NextPhase(e.phase)
               due == IF phase = "Scheduler" /\ e.failures = 0 THEN Interval ELSE 1
               next == [e EXCEPT !.phase = phase, !.due = due]
    <2>1. phase \in Phases /\ due \in Int
      BY <1>1, <1>2, <1>3
    <2>2. Scheduled(next) /\ UNCHANGED sinceFailed
      BY <1>7 DEF Skip
    <2> HIDE DEF phase, due
    <2>3. next = [[e EXCEPT !.phase = phase] EXCEPT !.due = due]
      OBVIOUS
    <2>4. next \in Entries /\ next.failures = e.failures
      BY <1>1, <2>1, <2>3 DEF Entries
    <2> HIDE DEF next
    <2> QED BY <1>1, <2>2, <2>4, SampleEnds
  <1> QED BY <1>4, <1>5, <1>6, <1>7

LEMMA SecondPasses == ASSUME PollingInv, Tick PROVE PollingInv'
  <1>1. PollingTypeOK /\ UNCHANGED <<candidates, after, sampling, overtaken>> /\ LongestWait \in Nat
    BY PollingAssumption DEF PollingInv, Tick
  <1>2. \A k \in Keys : /\ kept'[k] \in Entries /\ kept'[k].failures = kept[k].failures
                        /\ kept'[k].due = IF kept[k].due = 0 THEN 0 ELSE kept[k].due - 1
    <2>2. \A k \in Keys : kept[k] \in Entries /\ kept[k].due \in Int
      BY <1>1 DEF PollingTypeOK, Entries
    <2>4. \A k \in Keys : (IF kept[k].due = 0 THEN 0 ELSE kept[k].due - 1) \in Int
      BY <2>2
    <2> QED
      <3> TAKE k \in Keys
      <3> DEFINE n == IF kept[k].due = 0 THEN 0 ELSE kept[k].due - 1
      <3>1. n \in Int /\ kept[k] \in Entries /\ kept'[k] = [kept[k] EXCEPT !.due = n] BY <2>2, <2>4 DEF Tick
      <3> HIDE DEF n
      <3>2. kept'[k] \in Entries /\ kept'[k].failures = kept[k].failures /\ kept'[k].due = n BY <3>1 DEF Entries
      <3> QED BY <3>2 DEF n
  <1>3. kept' \in [Keys -> Entries]
    BY <1>2 DEF Tick
  <1>4. \A k \in Keys : sinceFailed'[k] = Smaller(sinceFailed[k] + 1, LongestWait)
    BY DEF Tick
  <1>5. sinceFailed' \in [Keys -> Int]
    BY <1>1, <1>4 DEF Tick, PollingTypeOK, Smaller
  <1>6. PollingTypeOK' /\ TurnComes' /\ SampledIsDue'
    BY <1>1, <1>2, <1>3, <1>5 DEF PollingInv, PollingTypeOK, TurnComes, SampledIsDue
  <1>7. BackoffPasses'
    <2> SUFFICES ASSUME NEW k \in Keys, kept'[k].failures > 0
                 PROVE  \/ sinceFailed'[k] >= Backoff(kept'[k].failures)
                        \/ sinceFailed'[k] + kept'[k].due >= Backoff(kept'[k].failures)
      BY DEF BackoffPasses
    <2> DEFINE b == Backoff(kept[k].failures)
    <2>1. kept[k].failures \in Nat /\ kept[k].due \in Int /\ sinceFailed[k] \in Int /\ kept[k].failures > 0
      BY <1>1, <1>2 DEF PollingTypeOK, Entries
    <2>2. b \in Int /\ b <= LongestWait
      BY <2>1, BackoffIsBounded
    <2>3. sinceFailed[k] >= b \/ sinceFailed[k] + kept[k].due >= b
      BY <2>1 DEF PollingInv, BackoffPasses
    <2> HIDE DEF b
    <2>4. sinceFailed'[k] >= b \/ sinceFailed'[k] + kept'[k].due >= b
      BY <1>1, <1>2, <1>4, <2>1, <2>2, <2>3 DEF Smaller
    <2> QED BY <1>2, <2>4 DEF b
  <1> QED BY <1>6, <1>7 DEF PollingInv

(* A key that failed is left alone for as long as its failures say, and
   before a key that is due is sampled each other one is sampled at most
   once, for every number of keys, interval and cap: the schedule of the
   background threads (polling.rs select, outcome and skipped). *)
THEOREM SamplingIsFair == PollingSpec => []PollingIsFair
  <1>1. PollingInv /\ [PollingNext]_pollingVars => PollingInv'
    <2> SUFFICES ASSUME PollingInv, [PollingNext]_pollingVars PROVE PollingInv'
      OBVIOUS
    <2>1. CASE UNCHANGED pollingVars
      BY <2>1 DEF pollingVars, PollingInv, PollingTypeOK, BackoffPasses, SampledIsDue, TurnComes
    <2> QED BY <2>1, ObserverPicks, SampleActions, SecondPasses DEF PollingNext
  <1>2. PollingInv => PollingIsFair
    <2> SUFFICES ASSUME PollingInv PROVE BackoffIsWaited /\ NoneIsStarved
      BY DEF PollingIsFair
    <2>1. BackoffIsWaited
      <3> SUFFICES ASSUME sampling # 0, kept[sampling].failures > 0
                   PROVE  sinceFailed[sampling] >= Backoff(kept[sampling].failures)
        BY DEF BackoffIsWaited
      <3> QED BY DEF PollingInv, BackoffPasses, PollingTypeOK, SampledIsDue
    <2>2. NoneIsStarved
      <3> SUFFICES ASSUME NEW k \in Keys PROVE overtaken[k] < Cardinality(Keys)
        BY DEF NoneIsStarved
      <3>1. overtaken[k] \in Nat /\ overtaken[k] <= Cardinality(Between(k, after)) /\ after \in Keys \cup {0}
        BY DEF PollingInv, PollingTypeOK, TurnComes
      <3>3. Cardinality(Keys) \in Nat
        BY PollingAssumption, FS_CardinalityType
      <3> QED BY <3>1, BetweenIsFinite, <3>3
    <2> QED BY <2>1, <2>2
  <1> QED BY <1>1, <1>2, PollingStarts, PTL DEF PollingSpec


------------
(* The Worker of an Attempt.  What keeps one training: whoever began it
   left something that stops every later one: the line STARTED on disk,
   where locks exclude, and else the output directory. *)
Places == {"prepare", "initialize", "append P", "sync P", "deliver", "code", "tree", "fill", "publish", "run",
           "append S", "sync S", "output", "spawn", "wait", "receipt", "append F", "sync F", "done", "stopped"}
Roots == [made : BOOLEAN, tree : {"none", "partial", "whole"}, listing : BOOLEAN, output : BOOLEAN,
          kept : BOOLEAN, doubt : BOOLEAN, receipt : BOOLEAN]
LineTexts == {"P", "S", "F"}
LaunchLedgers == [lines : Seq(LineTexts), synced : Nat, torn : BOOLEAN]

\* Where a Worker has begun the training or is about to, and where it holds the lock.
Began == {"spawn", "wait", "receipt", "append F", "sync F"}
Delivers == {"code", "tree", "fill", "publish"}
Begins == {"append S", "sync S", "output"}
Holds == {"append P", "sync P"} \cup Delivers \cup Begins \cup Began

LinesWritten == Len(launchLedger.lines)

StartTypeOK ==
    /\ excludes \in BOOLEAN
    /\ launchLedger \in LaunchLedgers /\ launchLedger.synced <= LinesWritten
    /\ root \in Roots
    /\ holder \subseteq Nodes
    /\ node \in [Nodes -> Places]
    /\ training \in [alive : BOOLEAN, started : Nat]
    /\ stops \in Nat

\* Where locks exclude, the one that holds it is the only one.
HeldByOne ==
    excludes => /\ \A n, m \in holder : n = m
                /\ \A n \in Nodes : node[n] \in Holds => n \in holder

\* Nobody comes beyond the start before the directory is prepared.
PreparedByOne ==
    /\ \A n \in Nodes : node[n] \in {"initialize", "append P"} =>
          root.made /\ LinesWritten = 0 /\ \A m \in Nodes \ {n} : node[m] \in {"prepare", "stopped"}
    /\ \A n \in Nodes : node[n] = "initialize" => holder = {}
    /\ ~root.made => LinesWritten = 0 /\ holder = {} /\ \A n \in Nodes : node[n] \in {"prepare", "stopped"}

\* What stops every later Worker from a second training.
Barred == IF excludes THEN launchLedger.synced >= 2 ELSE root.output
Untouched == training.started = 0 /\ ~root.kept /\ ~root.doubt

BegunByOne ==
    /\ \A n, m \in Nodes : node[n] \in Began /\ node[m] \in Began => n = m
    /\ \A n \in Nodes : node[n] \in Began => Barred
    /\ ~Untouched => Barred
    /\ \A n \in Nodes : node[n] = "spawn" => Untouched
    /\ training.started <= 1
    /\ training.alive => training.started = 1

\* Where locks exclude, the line STARTED is on disk before the training begins.
BeginsWritten(n) ==
    /\ node[n] \in Begins => Untouched
    /\ node[n] = "append S" => LinesWritten = 1
    /\ node[n] = "sync S" => LinesWritten = 2
    /\ node[n] = "output" => launchLedger.synced >= 2

StartedIsWritten == excludes => \A n \in Nodes : BeginsWritten(n)

\* The receipt comes after the end, and FINISHED after the receipt.
EndsInOrder(n) ==
    /\ node[n] \in {"spawn", "wait"} => ~root.kept /\ ~root.doubt
    /\ node[n] \in {"receipt", "append F", "sync F"} => root.kept \/ root.doubt
    /\ node[n] \in {"append F", "sync F"} => root.receipt

EndIsKnown ==
    /\ \A n \in Nodes : EndsInOrder(n)
    /\ root.kept \/ root.doubt => ~training.alive
    /\ root.receipt => root.kept \/ root.doubt
    /\ \A i \in 1..LinesWritten : launchLedger.lines[i] = "F" => root.receipt
    /\ "FINISHED" \in sampled => root.receipt

\* What is published is whole, and is published before it is used.
CodeInOrder(n) ==
    /\ node[n] \in {"tree", "fill", "publish"} => ~root.listing
    /\ node[n] \in Begins \cup {"spawn"} => root.listing

CodeStays ==
    excludes => /\ \A n \in Nodes : CodeInOrder(n)
                /\ root.listing => root.tree = "whole"
                /\ training.alive => root.listing

StartInv == /\ StartTypeOK /\ HeldByOne /\ PreparedByOne /\ BegunByOne /\ StartedIsWritten
            /\ EndIsKnown /\ CodeStays

\* The others stay where they are.
OnlyMoves(n) == /\ excludes' = excludes /\ node' \in [Nodes -> Places]
                /\ \A m \in Nodes \ {n} : node'[m] = node[m]

LEMMA WorkerGoes ==
    ASSUME StartTypeOK, NEW n \in Nodes, NEW at \in Places, NodeGoes(n, at), excludes' = excludes
    PROVE  OnlyMoves(n) /\ node'[n] = at
  BY DEF StartTypeOK, NodeGoes, OnlyMoves

LEMMA HeldKept ==
    ASSUME StartInv, NEW n \in Nodes, OnlyMoves(n),
           \/ holder' = holder \ {n} /\ node'[n] \notin Holds
           \/ holder' = holder /\ (node'[n] \in Holds => node[n] \in Holds)
           \/ holder' = holder \cup {n} /\ MayLock(n)
    PROVE  HeldByOne'
  <1> DEFINE here == node[n] \in Holds
             there == node'[n] \in Holds
  <1>1. \A m \in Nodes \ {n} : node'[m] \in Holds <=> node[m] \in Holds  BY DEF OnlyMoves
  <1>2. excludes' = excludes  BY DEF OnlyMoves
  <1>3. HeldByOne /\ holder \subseteq Nodes  BY DEF StartInv, StartTypeOK
  <1>4. CASE holder' = holder \ {n} /\ ~there  BY <1>1, <1>2, <1>3, <1>4 DEF HeldByOne
  <1>5. CASE holder' = holder /\ (there => here)  BY <1>1, <1>2, <1>3, <1>5 DEF HeldByOne
  <1>6. CASE holder' = holder \cup {n} /\ MayLock(n)  BY <1>1, <1>2, <1>3, <1>6 DEF HeldByOne, MayLock
  <1> QED  BY <1>4, <1>5, <1>6

LEMMA HolderAlone ==
    ASSUME StartInv, excludes, NEW n \in Nodes, node[n] \in Holds, NEW m \in Nodes, node[m] \in Holds
    PROVE  n = m
  BY DEF StartInv, HeldByOne

LEMMA PreparedKept ==
    ASSUME StartInv, NEW n \in Nodes, OnlyMoves(n), root'.made = root.made,
           \/ /\ node'[n] \in {"prepare", "stopped"} /\ holder' \subseteq holder
              /\ LinesWritten = 0 => LinesWritten' = 0
           \/ /\ node[n] \notin {"prepare", "stopped"} /\ node'[n] \notin {"initialize", "append P"}
    PROVE  PreparedByOne'
  <1>1. \A m \in Nodes \ {n} : node'[m] = node[m]  BY DEF OnlyMoves
  <1>2. PreparedByOne  BY DEF StartInv
  <1>3. CASE node'[n] \in {"prepare", "stopped"} /\ holder' \subseteq holder /\ (LinesWritten = 0 => LinesWritten' = 0)
    BY <1>1, <1>2, <1>3 DEF PreparedByOne
  <1>4. CASE node[n] \notin {"prepare", "stopped"} /\ node'[n] \notin {"initialize", "append P"}
    <2>2. root'.made  BY <1>2, <1>4 DEF PreparedByOne
    <2> QED BY <1>1, <1>2, <1>4, <2>2 DEF PreparedByOne
  <1> QED  BY <1>3, <1>4

LEMMA BegunKept ==
    ASSUME StartInv, NEW n \in Nodes, OnlyMoves(n), Barred => Barred',
           training'.started = training.started, training'.alive => training.alive,
           root'.kept = root.kept, root'.doubt = root.doubt,
           node'[n] \in Began => node[n] \in Began, node'[n] = "spawn" => node[n] = "spawn"
    PROVE  BegunByOne'
  <1>2. Untouched' <=> Untouched  BY DEF Untouched
  <1> QED BY <1>2 DEF StartInv, BegunByOne, OnlyMoves

LEMMA WrittenKept ==
    ASSUME StartInv, NEW n \in Nodes, OnlyMoves(n),
           \/ /\ LinesWritten' = LinesWritten /\ (Untouched => Untouched')
              /\ launchLedger.synced >= 2 => launchLedger'.synced >= 2
           \/ node[n] \in Holds,
           excludes => BeginsWritten(n)'
    PROVE  StartedIsWritten'
  <1> SUFFICES ASSUME excludes', NEW m \in Nodes \ {n} PROVE BeginsWritten(m)'
    BY DEF StartedIsWritten, OnlyMoves
  <1>1. excludes /\ node'[m] = node[m]  BY DEF OnlyMoves
  <1>2. CASE node[n] \in Holds
    <2> QED BY <1>1, <1>2, HolderAlone DEF BeginsWritten, Holds, Begins
  <1>3. CASE /\ LinesWritten' = LinesWritten /\ (Untouched => Untouched')
             /\ launchLedger.synced >= 2 => launchLedger'.synced >= 2
    <2> QED BY <1>1, <1>3 DEF BeginsWritten, StartInv, StartedIsWritten
  <1> QED  BY <1>2, <1>3

LEMMA EndKept ==
    ASSUME StartInv, NEW n \in Nodes, OnlyMoves(n), EndsInOrder(n)',
           root'.kept = root.kept, root'.doubt = root.doubt, root.receipt => root'.receipt,
           root'.receipt => root.kept \/ root.doubt, training'.alive => training.alive,
           \A i \in 1..LinesWritten' : launchLedger'.lines[i] = "F" => root'.receipt,
           "FINISHED" \in sampled' => root'.receipt
    PROVE  EndIsKnown'
  <1> QED BY DEF StartInv, EndIsKnown, OnlyMoves, EndsInOrder

LEMMA CodeKept ==
    ASSUME StartInv, NEW n \in Nodes, OnlyMoves(n),
           root'.listing = root.listing \/ node[n] \in Holds,
           excludes => CodeInOrder(n)' /\ (root'.listing => root'.tree = "whole") /\ (training'.alive => root'.listing)
    PROVE  CodeStays'
  <1> SUFFICES ASSUME excludes', NEW m \in Nodes \ {n} PROVE CodeInOrder(m)'
    BY DEF CodeStays, OnlyMoves
  <1>1. excludes /\ node'[m] = node[m]  BY DEF OnlyMoves
  <1>2. CASE node[n] \in Holds
    <2>1. node[m] \notin Holds  BY <1>1, <1>2, HolderAlone
    <2> QED  BY <1>1, <2>1 DEF CodeInOrder, Holds, Begins, Delivers, Began
  <1>3. CASE root'.listing = root.listing
    BY <1>1, <1>3 DEF StartInv, CodeStays, CodeInOrder
  <1> QED  BY <1>2, <1>3

RootOf(m, t, l, o, k, d, r) == [made |-> m, tree |-> t, listing |-> l, output |-> o, kept |-> k, doubt |-> d, receipt |-> r]

LEMMA RootChanges ==
    ASSUME NEW r \in Roots, NEW b \in BOOLEAN, NEW t \in {"none", "partial", "whole"}
    PROVE  /\ [r EXCEPT !.made = b] = RootOf(b, r.tree, r.listing, r.output, r.kept, r.doubt, r.receipt)
           /\ [r EXCEPT !.tree = t] = RootOf(r.made, t, r.listing, r.output, r.kept, r.doubt, r.receipt)
           /\ [r EXCEPT !.listing = b] = RootOf(r.made, r.tree, b, r.output, r.kept, r.doubt, r.receipt)
           /\ [r EXCEPT !.output = b] = RootOf(r.made, r.tree, r.listing, b, r.kept, r.doubt, r.receipt)
           /\ [r EXCEPT !.kept = b] = RootOf(r.made, r.tree, r.listing, r.output, b, r.doubt, r.receipt)
           /\ [r EXCEPT !.doubt = b] = RootOf(r.made, r.tree, r.listing, r.output, r.kept, b, r.receipt)
           /\ [r EXCEPT !.receipt = b] = RootOf(r.made, r.tree, r.listing, r.output, r.kept, r.doubt, b)
  BY DEF Roots, RootOf

LEMMA RootTypes ==
    ASSUME StartInv
    PROVE  /\ root \in Roots /\ root.made \in BOOLEAN /\ root.tree \in {"none", "partial", "whole"}
           /\ root.listing \in BOOLEAN /\ root.output \in BOOLEAN /\ root.kept \in BOOLEAN
           /\ root.doubt \in BOOLEAN /\ root.receipt \in BOOLEAN
  BY DEF StartInv, StartTypeOK, Roots

LEMMA CreateRootKeeps == ASSUME StartInv, NEW n \in Nodes, CreateRoot(n) PROVE StartInv'
  <1>1. OnlyMoves(n) /\ node'[n] = "initialize"  BY WorkerGoes DEF StartInv, CreateRoot, Places
  <1>4. /\ root' \in Roots /\ root'.made /\ root'.tree = root.tree /\ root'.listing = root.listing
        /\ root'.output = root.output /\ root'.kept = root.kept /\ root'.doubt = root.doubt
        /\ root'.receipt = root.receipt BY RootTypes, RootChanges DEF Roots, RootOf, CreateRoot
  <1>5. /\ launchLedger' = launchLedger /\ holder' = holder /\ training' = training /\ sampled' = sampled
        /\ stops' = stops
    BY DEF CreateRoot
  <1>6. LinesWritten' = LinesWritten /\ (Untouched' <=> Untouched) /\ (Barred' <=> Barred)
    BY <1>1, <1>4, <1>5 DEF LinesWritten, Untouched, Barred, OnlyMoves
  <1>7. StartTypeOK'  BY <1>1, <1>4, <1>5, <1>6 DEF StartInv, StartTypeOK, OnlyMoves
  <1>8. HeldByOne'
    <2> QED BY <1>1, <1>5, HeldKept DEF Holds, Delivers, Begins, Began
  <1>9. PreparedByOne'
    <2>1. LinesWritten = 0 /\ holder = {} /\ \A m \in Nodes : node[m] \in {"prepare", "stopped"}
      BY DEF StartInv, PreparedByOne, CreateRoot, NodeAt
    <2> QED BY <1>1, <1>4, <1>5, <1>6, <2>1 DEF PreparedByOne, OnlyMoves
  <1>10. BegunByOne'
    <2> QED BY <1>1, <1>4, <1>5, <1>6, BegunKept DEF Began
  <1>11. StartedIsWritten'
    <2>2. launchLedger.synced >= 2 => launchLedger'.synced >= 2  BY <1>5
    <2> QED BY <1>1, <1>6, <2>2, WrittenKept DEF BeginsWritten, Begins
  <1>12. EndIsKnown'
    <2>1. EndsInOrder(n)'  BY <1>1 DEF EndsInOrder
    <2> QED  BY <1>1, <1>4, <1>5, <1>6, <2>1, EndKept DEF StartInv, EndIsKnown
  <1>13. CodeStays'
    <2>1. CodeInOrder(n)'  BY <1>1 DEF CodeInOrder, Begins
    <2> QED  BY <1>1, <1>4, <1>5, <2>1, CodeKept DEF StartInv, CodeStays
  <1> QED  BY <1>7, <1>8, <1>9, <1>10, <1>11, <1>12, <1>13 DEF StartInv

LEMMA StepsInTheDirectory ==
    ASSUME StartInv, NEW n \in Nodes, OnlyMoves(n), node'[n] \notin Began,
           launchLedger' = launchLedger, training' = training, sampled' = sampled, stops' = stops,
           root' \in Roots, root'.made = root.made, root'.output = root.output, root'.kept = root.kept,
           root'.doubt = root.doubt, root'.receipt = root.receipt,
           \/ holder' = holder \ {n} /\ node'[n] \notin Holds
           \/ holder' = holder /\ (node'[n] \in Holds => node[n] \in Holds)
           \/ holder' = holder \cup {n} /\ MayLock(n),
           PreparedByOne',
           excludes => BeginsWritten(n)',
           root'.listing = root.listing \/ node[n] \in Holds,
           excludes => /\ CodeInOrder(n)'
                       /\ root'.listing => root'.tree = "whole"
                       /\ root.listing => root'.listing
    PROVE  StartInv'
  <1>1. excludes' = excludes /\ LinesWritten' = LinesWritten /\ (Untouched' <=> Untouched) /\ (Barred' <=> Barred)
    BY DEF LinesWritten, Untouched, Barred, OnlyMoves
  <1>2. StartTypeOK'  BY <1>1 DEF StartInv, StartTypeOK, OnlyMoves
  <1>4. node'[n] # "spawn" /\ node'[n] \notin {"spawn", "wait", "receipt", "append F", "sync F"}  BY DEF Began
  <1>5. BegunByOne'  BY <1>1, <1>4, BegunKept
  <1>6. StartedIsWritten'
    <2> QED BY <1>1, WrittenKept
  <1>7. EndIsKnown'
    <2> QED BY <1>1, <1>4, EndKept DEF StartInv, EndIsKnown, EndsInOrder
  <1>8. CodeStays'
    <2> QED BY CodeKept DEF StartInv, CodeStays
  <1> QED BY <1>2, HeldKept, <1>5, <1>6, <1>7, <1>8 DEF StartInv

LEMMA InitializeKeeps == ASSUME StartInv, NEW n \in Nodes, Initialize(n) PROVE StartInv'
  <1>1. OnlyMoves(n) /\ node'[n] = "append P"  BY WorkerGoes DEF StartInv, Initialize, Places
  <1>3. /\ launchLedger' = launchLedger /\ holder' = holder \cup {n} /\ training' = training
        /\ sampled' = sampled /\ stops' = stops /\ root' = root
    BY DEF Initialize
  <1>4. /\ root.made /\ LinesWritten = 0 /\ holder = {}
        /\ \A m \in Nodes \ {n} : node[m] \in {"prepare", "stopped"}
    BY DEF StartInv, PreparedByOne, Initialize, NodeAt
  <1>5. PreparedByOne'
    <2>2. root'.made /\ LinesWritten' = 0  BY <1>3, <1>4 DEF LinesWritten
    <2> QED BY <1>1, <1>4, <2>2 DEF PreparedByOne, OnlyMoves
  <1>6. MayLock(n)  BY <1>4 DEF MayLock
  <1>7. node'[n] \notin Began /\ BeginsWritten(n)' /\ CodeInOrder(n)'
    BY <1>1 DEF Began, BeginsWritten, Begins, CodeInOrder
  <1>8. root' \in Roots  BY <1>3, RootTypes
  <1>9. excludes => (root.listing => root.tree = "whole")  BY DEF StartInv, CodeStays
  <1> QED  BY <1>1, <1>3, <1>5, <1>6, <1>7, <1>8, <1>9, StepsInTheDirectory

LEMMA PhaseKnows ==
    ASSUME StartInv, Phase # "?"
    PROVE  /\ LinesWritten # 0
           /\ Phase = "PREPARED" => LinesWritten = 1
           /\ Phase = "FINISHED" => root.receipt
           /\ Phase \in {"PREPARED", "STARTED", "FINISHED"}
  <1>1. Phase = LedgerPhase /\ (Phase = "FINISHED" => root.receipt)  BY DEF Phase
  <1>3. CASE Phase = "PREPARED" /\ launchLedger.lines = <<"P">>
    <2> QED BY <1>1, <1>3 DEF LinesWritten
  <1>4. CASE Phase = "STARTED" /\ launchLedger.lines = <<"P", "S">>
    <2> QED BY <1>1, <1>4 DEF LinesWritten
  <1>5. CASE Phase = "FINISHED" /\ launchLedger.lines = <<"P", "S", "F">>
    <2> QED BY <1>1, <1>5 DEF LinesWritten
  <1> QED BY <1>1, <1>3, <1>4, <1>5 DEF LedgerPhase

LEMMA InspectKeeps == ASSUME StartInv, NEW n \in Nodes, Inspect(n) PROVE StartInv'
  <1> DEFINE at == IF ~MayLock(n) THEN "stopped"
                   ELSE CASE Phase = "FINISHED" -> "done" [] Phase = "PREPARED" -> "deliver"
                          [] Phase = "STARTED" -> "run" [] OTHER -> "stopped"
  <1>1. at \in {"stopped", "done", "deliver", "run"} /\ (Phase = "?" => at = "stopped")  OBVIOUS
  <1>2. node[n] = "prepare" /\ root.made /\ NodeGoes(n, at)  BY DEF Inspect, NodeAt
  <1>3. /\ launchLedger' = launchLedger /\ holder' = holder /\ training' = training
        /\ sampled' = sampled /\ stops' = stops /\ root' = root /\ excludes' = excludes
    BY DEF Inspect
  <1> HIDE DEF at
  <1>4. OnlyMoves(n) /\ node'[n] = at  BY <1>1, <1>2, <1>3, WorkerGoes DEF StartInv, Places
  <1>5. PreparedByOne'
    <2>2. root'.made /\ LinesWritten' = LinesWritten  BY <1>2, <1>3 DEF LinesWritten
    <2>3. CASE Phase = "?"  BY <1>1, <1>2, <1>3, <1>4, <2>3, PreparedKept, <2>2
    <2>4. CASE Phase # "?"
      <3>2. \A m \in Nodes : node[m] \notin {"initialize", "append P"}
        BY <2>4, PhaseKnows DEF StartInv, PreparedByOne
      <3>3. \A m \in Nodes : node'[m] \notin {"initialize", "append P"} BY <1>1, <1>4, <3>2 DEF OnlyMoves
      <3> QED  BY <2>2, <3>3 DEF PreparedByOne
    <2> QED  BY <2>3, <2>4
  <1>6. node'[n] \notin Began /\ node'[n] \notin Holds /\ BeginsWritten(n)' /\ CodeInOrder(n)'
    BY <1>1, <1>4 DEF Began, Holds, Delivers, BeginsWritten, Begins, CodeInOrder
  <1>8. excludes => (root.listing => root.tree = "whole")  BY DEF StartInv, CodeStays
  <1> QED BY <1>3, <1>4, <1>5, <1>6, RootTypes, <1>8, StepsInTheDirectory

LEMMA Stays ==
    ASSUME StartInv, NEW n \in Nodes, NEW at \in {"stopped", "run", "done"}, OnlyMoves(n), node'[n] = at,
           launchLedger' = launchLedger, training' = training, sampled' = sampled, stops' = stops,
           root' = root, holder' \in {holder, holder \ {n}},
           node[n] \notin {"prepare", "stopped", "initialize", "append P"}
    PROVE  StartInv'
  <1>1. PreparedByOne'
    <2> QED BY PreparedKept
  <1>2. node'[n] \notin Began /\ node'[n] \notin Holds /\ BeginsWritten(n)' /\ CodeInOrder(n)'
    BY DEF Began, Holds, Delivers, BeginsWritten, Begins, CodeInOrder
  <1> QED BY <1>1, <1>2, RootTypes, StepsInTheDirectory DEF StartInv, CodeStays

LEMMA Delivered ==
    ASSUME StartInv, NEW n \in Nodes, NEW at \in Delivers \cup {"stopped", "run"}, OnlyMoves(n), node'[n] = at,
           NEW tree \in {"none", "partial", "whole"}, NEW listing \in BOOLEAN,
           root' = RootOf(root.made, tree, listing, root.output, root.kept, root.doubt, root.receipt),
           launchLedger' = launchLedger, training' = training, sampled' = sampled, stops' = stops,
           node[n] \in Delivers,
           \/ holder' = holder \ {n} /\ at \notin Delivers
           \/ holder' = holder /\ at \in Delivers,
           excludes => /\ listing => tree = "whole"
                       /\ root.listing => listing
                       /\ at \in {"tree", "fill", "publish"} => ~listing
    PROVE  StartInv'
  <1>1. /\ root' \in Roots /\ root'.made = root.made /\ root'.output = root.output /\ root'.kept = root.kept
        /\ root'.doubt = root.doubt /\ root'.receipt = root.receipt /\ root'.listing = listing /\ root'.tree = tree
    BY RootTypes DEF Roots, RootOf
  <1>2. PreparedByOne'
    <2> QED BY <1>1, PreparedKept DEF Delivers
  <1>3. node'[n] \notin Began /\ BeginsWritten(n)' /\ (at \notin Delivers => node'[n] \notin Holds)
    BY DEF Began, Holds, Delivers, BeginsWritten, Begins
  <1>5. excludes => CodeInOrder(n)'  BY <1>1 DEF CodeInOrder, Delivers, Begins
  <1> QED BY <1>1, <1>2, <1>3, <1>5, StepsInTheDirectory DEF Holds

LEMMA LookForCodeKeeps == ASSUME StartInv, NEW n \in Nodes, LookForCode(n) PROVE StartInv'
  <1>1. /\ launchLedger' = launchLedger /\ training' = training /\ sampled' = sampled /\ stops' = stops
        /\ excludes' = excludes /\ node[n] = "code"
    BY DEF LookForCode, NodeAt
  <1>2. CASE root.listing
    <2> DEFINE at == IF root.tree = "whole" THEN "run" ELSE "stopped"
    <2>1. at \in {"run", "stopped"} /\ NodeLeaves(n, at) /\ root' = root  BY <1>2 DEF LookForCode
    <2> HIDE DEF at
    <2> QED BY <1>1, <2>1, WorkerGoes, Stays DEF StartInv, Places, NodeLeaves
  <1>3. CASE ~root.listing
    <2>1. root' = [root EXCEPT !.tree = "none"] /\ NodeGoes(n, "tree") /\ holder' = holder
      BY <1>3 DEF LookForCode
    <2>2. root' = RootOf(root.made, "none", root.listing, root.output, root.kept, root.doubt, root.receipt)
      BY <2>1, RootTypes, RootChanges
    <2>3. OnlyMoves(n) /\ node'[n] = "tree"  BY <1>1, <2>1, WorkerGoes DEF StartInv, Places
    <2>4. root.listing \in BOOLEAN /\ "tree" \in Delivers /\ node[n] \in Delivers
      BY <1>1, RootTypes DEF Delivers
    <2> QED  BY <1>1, <1>3, <2>1, <2>2, <2>3, <2>4, Delivered
  <1> QED  BY <1>2, <1>3

LEMMA CreateTreeKeeps == ASSUME StartInv, NEW n \in Nodes, CreateTree(n) PROVE StartInv'
  <1>1. /\ launchLedger' = launchLedger /\ training' = training /\ sampled' = sampled /\ stops' = stops
        /\ excludes' = excludes /\ node[n] = "tree"
    BY DEF CreateTree, NodeAt
  <1>2. CASE root.tree = "none"
    <2>1. root' = [root EXCEPT !.tree = "partial"] /\ NodeGoes(n, "fill") /\ holder' = holder
      BY <1>2 DEF CreateTree
    <2>2. root' = RootOf(root.made, "partial", root.listing, root.output, root.kept, root.doubt, root.receipt)
      BY <2>1, RootTypes, RootChanges
    <2>3. OnlyMoves(n) /\ node'[n] = "fill"  BY <1>1, <2>1, WorkerGoes DEF StartInv, Places
    <2>4. root.listing \in BOOLEAN /\ "fill" \in Delivers /\ node[n] \in Delivers
      BY <1>1, RootTypes DEF Delivers
    <2>5. excludes => ~root.listing  BY <1>1 DEF StartInv, CodeStays, CodeInOrder
    <2> QED  BY <1>1, <2>1, <2>2, <2>3, <2>4, <2>5, Delivered
  <1>3. CASE root.tree # "none"
    <2>1. root' = root /\ NodeLeaves(n, "stopped")  BY <1>3 DEF CreateTree
    <2> QED BY <1>1, <2>1, WorkerGoes, Stays DEF StartInv, Places, NodeLeaves
  <1> QED  BY <1>2, <1>3

LEMMA FillTreeKeeps == ASSUME StartInv, NEW n \in Nodes, FillTree(n) PROVE StartInv'
  <1>1. /\ launchLedger' = launchLedger /\ training' = training /\ sampled' = sampled /\ stops' = stops
        /\ excludes' = excludes /\ node[n] = "fill"
    BY DEF FillTree, NodeAt
  <1>2. PICK tree \in {"none", "whole"}, at \in {"publish", "tree", "stopped"} :
           /\ root' = [root EXCEPT !.tree = tree] /\ NodeGoes(n, at)
           /\ IF at = "stopped" THEN holder' = holder \ {n} ELSE holder' = holder
    BY DEF FillTree, NodeLeaves
  <1>3. root' = RootOf(root.made, tree, root.listing, root.output, root.kept, root.doubt, root.receipt)
    BY <1>2, RootTypes, RootChanges
  <1>4. OnlyMoves(n) /\ node'[n] = at
    <2> QED BY <1>1, <1>2, WorkerGoes DEF StartInv, Places
  <1>5. /\ root.listing \in BOOLEAN /\ at \in Delivers \cup {"stopped", "run"} /\ node[n] \in Delivers
        /\ (at \in Delivers <=> at # "stopped")
    BY <1>1, RootTypes DEF Delivers
  <1>6. excludes => ~root.listing  BY <1>1 DEF StartInv, CodeStays, CodeInOrder
  <1> QED  BY <1>1, <1>2, <1>3, <1>4, <1>5, <1>6, Delivered

LEMMA PublishListingKeeps == ASSUME StartInv, NEW n \in Nodes, PublishListing(n) PROVE StartInv'
  <1>1. /\ launchLedger' = launchLedger /\ training' = training /\ sampled' = sampled /\ stops' = stops
        /\ excludes' = excludes /\ node[n] = "publish"
    BY DEF PublishListing, NodeAt
  <1>2. CASE root.tree = "whole" /\ ~root.listing
    <2>1. root' = [root EXCEPT !.listing = TRUE] /\ NodeLeaves(n, "run")  BY <1>2 DEF PublishListing
    <2>2. root' = RootOf(root.made, root.tree, TRUE, root.output, root.kept, root.doubt, root.receipt)
      BY <2>1, RootTypes, RootChanges
    <2>3. OnlyMoves(n) /\ node'[n] = "run" /\ holder' = holder \ {n}
      BY <1>1, <2>1, WorkerGoes DEF StartInv, Places, NodeLeaves
    <2> QED BY <1>1, <1>2, <2>2, <2>3, RootTypes, Delivered DEF Delivers
  <1>3. CASE ~(root.tree = "whole" /\ ~root.listing)
    <2>1. root' = root /\ NodeLeaves(n, "stopped")  BY <1>3 DEF PublishListing
    <2> QED BY <1>1, <2>1, WorkerGoes, Stays DEF StartInv, Places, NodeLeaves
  <1> QED  BY <1>2, <1>3

LEMMA HoldUnstartedKeeps == ASSUME StartInv, NEW n \in Nodes, HoldUnstarted(n) PROVE StartInv'
  <1>1. /\ launchLedger' = launchLedger /\ training' = training /\ sampled' = sampled /\ stops' = stops
        /\ excludes' = excludes /\ root' = root /\ node[n] = "deliver"
    BY DEF HoldUnstarted, NodeAt
  <1>2. CASE MayLock(n) /\ Phase = "PREPARED"
    <2>1. NodeGoes(n, "code") /\ holder' = holder \cup {n}  BY <1>2 DEF HoldUnstarted, KeepHold
    <2>2. OnlyMoves(n) /\ node'[n] = "code"  BY <1>1, <2>1, WorkerGoes DEF StartInv, Places
    <2>3. PreparedByOne'
      <3> QED BY <1>1, <2>2, PreparedKept
    <2>4. node'[n] \notin Began /\ BeginsWritten(n)' /\ CodeInOrder(n)'
      BY <2>2 DEF Began, BeginsWritten, Begins, CodeInOrder
    <2>5. root' \in Roots /\ (excludes => (root.listing => root.tree = "whole"))
      BY <1>1, RootTypes DEF StartInv, CodeStays
    <2> QED  BY <1>1, <1>2, <2>1, <2>2, <2>3, <2>4, <2>5, StepsInTheDirectory
  <1>3. CASE ~(MayLock(n) /\ Phase = "PREPARED")
    <2>1. NodeGoes(n, "stopped") /\ holder' = holder  BY <1>3 DEF HoldUnstarted
    <2> QED BY <1>1, <2>1, WorkerGoes, Stays DEF StartInv, Places
  <1> QED  BY <1>2, <1>3

LEMMA BeginRunKeeps == ASSUME StartInv, NEW n \in Nodes, BeginRun(n) PROVE StartInv'
  <1> DEFINE free == /\ MayLock(n) /\ Phase = "PREPARED" /\ ~root.output /\ ~root.receipt
                     /\ root.listing /\ root.tree = "whole"
  <1>1. /\ launchLedger' = launchLedger /\ training' = training /\ sampled' = sampled /\ stops' = stops
        /\ excludes' = excludes /\ root' = root /\ node[n] = "run"
    BY DEF BeginRun, NodeAt
  <1>2. CASE free
    <2>1. NodeGoes(n, "append S") /\ holder' = holder \cup {n} /\ MayLock(n)  BY <1>2 DEF BeginRun
    <2>2. OnlyMoves(n) /\ node'[n] = "append S"  BY <1>1, <2>1, WorkerGoes DEF StartInv, Places
    <2>3. PreparedByOne'
      <3> QED BY <1>1, <2>2, PreparedKept
    <2>4. node'[n] \notin Began  BY <2>2 DEF Began
    <2>5. ASSUME excludes PROVE BeginsWritten(n)'
      <3>1. LinesWritten = 1  BY <1>2, PhaseKnows
      <3>3. ~Barred BY <2>5, <3>1 DEF Barred, StartInv, StartTypeOK, LaunchLedgers
      <3>5. Untouched' /\ LinesWritten' = 1
        BY <1>1, <3>1, <3>3 DEF Untouched, LinesWritten, StartInv, BegunByOne
      <3> QED  BY <2>2, <3>5 DEF BeginsWritten
    <2>6. CodeInOrder(n)' /\ root' \in Roots /\ root.tree = "whole"
      BY <1>1, <1>2, <2>2, RootTypes DEF CodeInOrder
    <2> HIDE DEF free
    <2> QED  BY <1>1, <2>1, <2>2, <2>3, <2>4, <2>5, <2>6, StepsInTheDirectory
  <1>3. CASE ~free
    <2> DEFINE at == IF MayLock(n) /\ Phase = "FINISHED" THEN "done" ELSE "stopped"
    <2>1. at \in {"done", "stopped"} /\ NodeGoes(n, at) /\ holder' = holder  BY <1>3 DEF BeginRun
    <2> HIDE DEF at
    <2> HIDE DEF free
    <2> QED BY <1>1, <2>1, WorkerGoes, Stays DEF StartInv, Places
  <1> QED  BY <1>2, <1>3

LEMMA TwoStay == \A i, j \in Nat : i <= j /\ i >= 2 => j >= 2
  OBVIOUS

LEMMA LedgerGrows ==
    ASSUME StartInv, NEW n \in Nodes, NEW at \in Places \ {"initialize", "append P"}, OnlyMoves(n), node'[n] = at,
           node[n] \in Holds, root' = root, training' = training, sampled' = sampled, stops' = stops,
           launchLedger' \in LaunchLedgers, launchLedger'.synced <= LinesWritten',
           launchLedger.synced <= launchLedger'.synced,
           \A i \in 1..LinesWritten' : launchLedger'.lines[i] = "F" => root.receipt,
           (holder' = holder \ {n} /\ at \notin Holds) \/ holder' = holder,
           at \in Began => node[n] \in Began, at # "spawn",
           excludes => BeginsWritten(n)' /\ CodeInOrder(n)', EndsInOrder(n)'
    PROVE  StartInv'
  <1>1. excludes' = excludes /\ (Untouched' <=> Untouched)  BY DEF Untouched, OnlyMoves
  <1>3. Barred => Barred'
    <2>1. launchLedger.synced >= 2 => launchLedger'.synced >= 2
      BY TwoStay DEF StartInv, StartTypeOK, LaunchLedgers
    <2> QED  BY <1>1, <2>1 DEF Barred
  <1>4. StartTypeOK'  BY <1>1 DEF StartInv, StartTypeOK, OnlyMoves
  <1>5. HeldByOne'  BY HeldKept
  <1>6. PreparedByOne'
    <2> QED BY PreparedKept DEF Holds, Delivers, Begins, Began
  <1>7. BegunByOne'  BY <1>3, BegunKept
  <1>8. StartedIsWritten'  BY WrittenKept
  <1>9. EndIsKnown'  BY EndKept DEF StartInv, EndIsKnown
  <1>10. CodeStays'
    <2> QED BY CodeKept DEF StartInv, CodeStays
  <1> QED  BY <1>4, <1>5, <1>6, <1>7, <1>8, <1>9, <1>10 DEF StartInv

LEMMA LedgerFields ==
    ASSUME NEW l \in LaunchLedgers
    PROVE  l.lines \in Seq(LineTexts) /\ l.synced \in Nat /\ l.torn \in BOOLEAN
  BY DEF LaunchLedgers

LEMMA LineAppends ==
    ASSUME NEW s \in Seq(LineTexts), NEW x \in LineTexts
    PROVE  /\ Append(s, x) \in Seq(LineTexts) /\ Len(s) \in Nat /\ Len(Append(s, x)) = Len(s) + 1
           /\ Append(s, x)[Len(s) + 1] = x
           /\ \A i \in 1..Len(s) : Append(s, x)[i] = s[i]
  OBVIOUS

LEMMA LedgerAppends ==
    ASSUME NEW l \in LaunchLedgers, NEW s \in Seq(LineTexts)
    PROVE  [l EXCEPT !.lines = s] = [lines |-> s, synced |-> l.synced, torn |-> l.torn]
  BY DEF LaunchLedgers

LEMMA AppendLineKeeps == ASSUME StartInv, NEW n \in Nodes, AppendLine(n) PROVE StartInv'
  <1>1. /\ training' = training /\ sampled' = sampled /\ stops' = stops /\ excludes' = excludes /\ root' = root
        /\ node[n] \in {"append P", "append S", "append F"}
    BY DEF AppendLine
  <1>2. launchLedger \in LaunchLedgers /\ launchLedger.synced <= LinesWritten  BY DEF StartInv, StartTypeOK
  <1>3. node[n] \in Holds  BY <1>1 DEF Holds, Begins, Began
  <1>4. \A i \in 1..LinesWritten : launchLedger.lines[i] = "F" => root.receipt  BY DEF StartInv, EndIsKnown
  <1>5. CASE /\ launchLedger' = [launchLedger EXCEPT !.lines = Append(@, Line(n))]
             /\ NodeGoes(n, Unsynced(n)) /\ holder' = holder
    <2>1. Line(n) \in {"P", "S", "F"} /\ (Line(n) = "F" => node[n] = "append F")  BY <1>1 DEF Line
    <2>2. /\ Unsynced(n) \in {"sync P", "sync S", "sync F"}
          /\ Unsynced(n) = "sync S" => node[n] = "append S"
          /\ Unsynced(n) = "sync F" => node[n] = "append F"
      BY <1>1 DEF Unsynced
    <2>3. OnlyMoves(n) /\ node'[n] = Unsynced(n)  BY <1>1, <1>5, <2>2, WorkerGoes DEF StartInv, Places
    <2>4. launchLedger.lines \in Seq(LineTexts) /\ launchLedger.synced \in Nat /\ launchLedger.torn \in BOOLEAN
      BY <1>2, LedgerFields
    <2> DEFINE lines == Append(launchLedger.lines, Line(n))
    <2>5. /\ lines \in Seq(LineTexts) /\ Len(lines) = Len(launchLedger.lines) + 1
          /\ lines[Len(launchLedger.lines) + 1] = Line(n)
          /\ \A i \in 1..Len(launchLedger.lines) : lines[i] = launchLedger.lines[i]
      BY <2>1, <2>4, LineAppends DEF LineTexts
    <2> HIDE DEF lines
    <2>6. launchLedger' = [lines |-> lines, synced |-> launchLedger.synced, torn |-> launchLedger.torn]
      <3> QED BY <1>2, <2>5, <1>5, LedgerAppends DEF lines
    <2>7. launchLedger'.lines = lines /\ launchLedger'.synced = launchLedger.synced  BY <2>6
    <2>8. launchLedger' \in LaunchLedgers  BY <2>4, <2>5, <2>6 DEF LaunchLedgers
    <2>9. LinesWritten \in Nat /\ LinesWritten' = LinesWritten + 1  BY <2>4, <2>5, <2>7 DEF LinesWritten
    <2>10. \A i \in 1..LinesWritten' : launchLedger'.lines[i] = "F" => root.receipt
      <3> TAKE i \in 1..LinesWritten'
      <3>1. CASE i = LinesWritten + 1
        <4>2. node[n] = "append F" => root.receipt  BY DEF StartInv, EndIsKnown, EndsInOrder
        <4> QED BY <2>1, <2>5, <2>7, <3>1, <4>2 DEF LinesWritten
      <3>2. CASE i # LinesWritten + 1
        <4>1. i \in 1..LinesWritten  BY <2>9, <3>2
        <4> QED BY <1>4, <4>1, <2>5, <2>7 DEF LinesWritten
      <3> QED  BY <3>1, <3>2
    <2>11. excludes => BeginsWritten(n)'
      <3>2. Untouched' <=> Untouched  BY <1>1 DEF Untouched
      <3>3. LinesWritten = 1 => LinesWritten' = 2  BY <2>9
      <3>4. node'[n] \in {"sync P", "sync S", "sync F"} /\ (node'[n] = "sync S" => node[n] = "append S")
        BY <2>2, <2>3
      <3> QED BY <3>2, <3>3, <3>4 DEF BeginsWritten, Begins, StartInv, StartedIsWritten
    <2>12. excludes => CodeInOrder(n)'
      <3>4. node'[n] \in {"sync P", "sync S", "sync F"} /\ (node'[n] = "sync S" => node[n] = "append S")
        BY <2>2, <2>3
      <3> QED BY <1>1, <3>4 DEF CodeInOrder, Begins, StartInv, CodeStays
    <2>13. EndsInOrder(n)'
      <3>2. node'[n] \in {"sync P", "sync S", "sync F"} /\ (node'[n] = "sync F" => node[n] = "append F")
        BY <2>2, <2>3
      <3> QED BY <1>1, <3>2 DEF EndsInOrder, StartInv, EndIsKnown
    <2>14. /\ Unsynced(n) \in Places \ {"initialize", "append P"} /\ Unsynced(n) # "spawn"
           /\ Unsynced(n) \in Began => node[n] \in Began
      BY <2>2 DEF Places, Began
    <2>15. launchLedger'.synced <= LinesWritten' /\ launchLedger.synced <= launchLedger'.synced
      BY <1>2, <2>4, <2>7, <2>9
    <2> QED  BY <1>1, <1>3, <1>5, <2>3, <2>8, <2>10, <2>11, <2>12, <2>13, <2>14, <2>15, LedgerGrows
  <1>6. ASSUME NEW torn \in BOOLEAN, launchLedger' = [launchLedger EXCEPT !.torn = @ \/ torn], NodeLeaves(n, "stopped")
        PROVE  StartInv'
    <2>1. OnlyMoves(n) /\ node'[n] = "stopped" /\ holder' = holder \ {n}
      BY <1>1, <1>6, WorkerGoes DEF StartInv, Places, NodeLeaves
    <2>2. /\ launchLedger' \in LaunchLedgers /\ launchLedger'.lines = launchLedger.lines
          /\ launchLedger'.synced = launchLedger.synced /\ launchLedger.synced \in Nat
      BY <1>2, <1>6 DEF LaunchLedgers
    <2>3. LinesWritten' = LinesWritten /\ LinesWritten \in Nat  BY <1>2, <2>2 DEF LinesWritten, LaunchLedgers
    <2>4. BeginsWritten(n)' /\ CodeInOrder(n)' /\ EndsInOrder(n)' /\ "stopped" \notin Holds /\ "stopped" \notin Began
      BY <2>1 DEF BeginsWritten, Begins, CodeInOrder, EndsInOrder, Holds, Delivers, Began
    <2>5. "stopped" \in Places \ {"initialize", "append P"}  BY DEF Places
    <2>6. launchLedger'.synced <= LinesWritten' /\ launchLedger.synced <= launchLedger'.synced  BY <1>2, <2>2, <2>3
    <2>7. \A i \in 1..LinesWritten' : launchLedger'.lines[i] = "F" => root.receipt  BY <1>4, <2>2, <2>3
    <2> QED  BY <1>1, <1>3, <2>1, <2>2, <2>4, <2>5, <2>6, <2>7, LedgerGrows
  <1> QED  BY <1>5, <1>6 DEF AppendLine

LEMMA SyncLineKeeps == ASSUME StartInv, NEW n \in Nodes, SyncLine(n) PROVE StartInv'
  <1>1. /\ training' = training /\ sampled' = sampled /\ stops' = stops /\ excludes' = excludes /\ root' = root
        /\ node[n] \in {"sync P", "sync S", "sync F"}
    BY DEF SyncLine
  <1>2. launchLedger \in LaunchLedgers /\ launchLedger.synced <= LinesWritten  BY DEF StartInv, StartTypeOK
  <1>3. node[n] \in Holds  BY <1>1 DEF Holds, Begins, Began
  <1>5. PICK at \in {"output", "prepare", "done", "stopped"} :
           /\ NodeGoes(n, at)
           /\ at = "output" => node[n] = "sync S" /\ launchLedger'.synced = Len(launchLedger.lines)
           /\ IF at = "output" THEN holder' = holder ELSE holder' = holder \ {n}
    <2>1. CASE launchLedger' = launchLedger /\ NodeLeaves(n, "stopped")  BY <2>1 DEF NodeLeaves
    <2>2. CASE launchLedger' = [launchLedger EXCEPT !.synced = Len(launchLedger.lines)]
      <3>2. CASE node[n] = "sync S"
        <4>1. (NodeGoes(n, "output") /\ holder' = holder) \/ NodeLeaves(n, "stopped")
          BY <3>2 DEF SyncLine, NodeAt
        <4> QED BY <1>2, <2>2, <3>2, <4>1 DEF NodeLeaves, LaunchLedgers
      <3>3. CASE node[n] # "sync S"
        <4> QED BY <3>3 DEF NodeLeaves, SyncLine, NodeAt
      <3> QED  BY <3>2, <3>3
    <2> QED  BY <2>1, <2>2 DEF SyncLine
  <1>6. OnlyMoves(n) /\ node'[n] = at  BY <1>1, <1>5, WorkerGoes DEF StartInv, Places
  <1>7. /\ launchLedger' \in LaunchLedgers /\ launchLedger'.lines = launchLedger.lines
        /\ launchLedger'.synced \in {launchLedger.synced, Len(launchLedger.lines)}
    <2>2. CASE launchLedger' = launchLedger  BY <1>2, <2>2
    <2>3. CASE launchLedger' = [launchLedger EXCEPT !.synced = Len(launchLedger.lines)]
      BY <1>2, LedgerFields, <2>3 DEF LaunchLedgers
    <2> QED  BY <2>2, <2>3 DEF SyncLine
  <1>8. LinesWritten' = LinesWritten /\ LinesWritten \in Nat /\ launchLedger.synced \in Nat
    BY <1>2, <1>7, LedgerFields DEF LinesWritten
  <1>9. launchLedger'.synced <= LinesWritten' /\ launchLedger.synced <= launchLedger'.synced
    BY <1>2, <1>7, <1>8 DEF LinesWritten
  <1>10. \A i \in 1..LinesWritten' : launchLedger'.lines[i] = "F" => root.receipt
    BY <1>7, <1>8 DEF StartInv, EndIsKnown
  <1>11. excludes => BeginsWritten(n)'
    <2>1. excludes /\ node[n] = "sync S" => Untouched /\ LinesWritten = 2
      BY DEF StartInv, StartedIsWritten, BeginsWritten, Begins
    <2>2. Untouched' <=> Untouched  BY <1>1 DEF Untouched
    <2>3. excludes /\ at = "output" => launchLedger'.synced >= 2
      <3>1. excludes /\ at = "output" => launchLedger'.synced = 2  BY <1>5, <2>1 DEF LinesWritten
      <3> QED  BY <3>1
    <2> QED  BY <1>5, <1>6, <2>1, <2>2, <2>3 DEF BeginsWritten, Begins
  <1>12. excludes => CodeInOrder(n)'
    <2> QED BY <1>1, <1>5, <1>6 DEF CodeInOrder, Begins, StartInv, CodeStays
  <1>13. EndsInOrder(n)'  BY <1>6 DEF EndsInOrder
  <1>14. /\ at \in Places \ {"initialize", "append P"} /\ at # "spawn" /\ at \notin Began
         /\ at # "output" => at \notin Holds
    BY DEF Places, Began, Holds, Delivers, Begins
  <1>15. (holder' = holder \ {n} /\ at \notin Holds) \/ holder' = holder
    <2>1. CASE at = "output"  BY <1>5, <2>1
    <2>2. CASE at # "output"  BY <1>5, <1>14, <2>2
    <2> QED  BY <2>1, <2>2
  <1>16. at \in Began => node[n] \in Began  BY <1>14
  <1> QED  BY <1>1, <1>3, <1>6, <1>7, <1>9, <1>10, <1>11, <1>12, <1>13, <1>14, <1>15, <1>16, LedgerGrows

LEMMA BegunAlone ==
    ASSUME StartInv, NEW n \in Nodes, node[n] \in Began, NEW m \in Nodes, node[m] \in Began
    PROVE  n = m
  BY DEF StartInv, BegunByOne

LEMMA CreateOutputKeeps == ASSUME StartInv, NEW n \in Nodes, CreateOutput(n) PROVE StartInv'
  <1>1. /\ launchLedger' = launchLedger /\ training' = training /\ sampled' = sampled /\ stops' = stops
        /\ excludes' = excludes /\ node[n] = "output"
    BY DEF CreateOutput, NodeAt
  <1>2. CASE root.output
    <2>1. root' = root /\ NodeLeaves(n, "stopped")  BY <1>2 DEF CreateOutput, OutputIsFree
    <2> QED BY <1>1, <2>1, WorkerGoes, Stays DEF StartInv, Places, NodeLeaves
  <1>3. CASE ~root.output
    <2>1. root' = [root EXCEPT !.output = TRUE] /\ NodeGoes(n, "spawn") /\ holder' = holder
      BY <1>3 DEF CreateOutput, OutputIsFree
    <2>3. /\ root' \in Roots /\ root'.made = root.made /\ root'.tree = root.tree /\ root'.listing = root.listing
          /\ root'.output /\ root'.kept = root.kept /\ root'.doubt = root.doubt /\ root'.receipt = root.receipt
      BY <2>1, RootTypes, RootChanges DEF Roots, RootOf
    <2>4. OnlyMoves(n) /\ node'[n] = "spawn"  BY <1>1, <2>1, WorkerGoes DEF StartInv, Places
    <2>5. node[n] \in Holds /\ node[n] \in Begins /\ node[n] \notin Began  BY <1>1 DEF Holds, Begins, Began
    <2>6. Barred'
      <3> QED BY <1>1, <2>3 DEF Barred, StartInv, StartedIsWritten, BeginsWritten
    <2>7. \A m \in Nodes : node[m] \notin Began
      <3> TAKE m \in Nodes
      <3>1. CASE excludes  BY <2>5, <3>1, HolderAlone DEF Holds
      <3>2. CASE ~excludes
        <4> QED BY <1>3, <3>2 DEF StartInv, BegunByOne, Barred
      <3> QED  BY <3>1, <3>2
    <2>8. Untouched /\ Untouched'
      <3>1. CASE excludes  BY <1>1, <2>3, <2>5, <3>1 DEF StartInv, StartedIsWritten, BeginsWritten, Untouched
      <3>2. CASE ~excludes
        <4>1. ~Barred  BY <1>3, <3>2 DEF Barred
        <4> QED  BY <1>1, <2>3, <4>1 DEF StartInv, BegunByOne, Untouched
      <3> QED  BY <3>1, <3>2
    <2>9. LinesWritten' = LinesWritten  BY <1>1 DEF LinesWritten
    <2>10. StartTypeOK'  BY <1>1, <2>1, <2>3, <2>4, <2>9 DEF StartInv, StartTypeOK, OnlyMoves
    <2>11. HeldByOne'  BY <2>1, <2>4, <2>5, HeldKept
    <2>12. PreparedByOne'
      <3> QED BY <2>3, <2>4, <1>1, PreparedKept
    <2>13. BegunByOne'
      <3>1. \A m \in Nodes : node'[m] \in Began => m = n  BY <2>4, <2>7 DEF OnlyMoves
      <3> QED  BY <1>1, <2>6, <2>8, <3>1 DEF StartInv, BegunByOne, Untouched
    <2>14. StartedIsWritten'
      <3> QED BY <2>4, <2>5, WrittenKept DEF BeginsWritten, Begins
    <2>15. EndIsKnown'
      <3>1. EndsInOrder(n)'  BY <2>3, <2>4, <2>8 DEF EndsInOrder, Untouched
      <3> QED  BY <1>1, <2>3, <2>4, <2>9, <3>1, EndKept DEF StartInv, EndIsKnown
    <2>16. CodeStays'
      <3>1. excludes => root.listing /\ root.tree = "whole"
        BY <2>5 DEF StartInv, CodeStays, CodeInOrder
      <3> QED BY <2>3, <2>4, <3>1, CodeKept DEF CodeInOrder
    <2> QED  BY <2>10, <2>11, <2>12, <2>13, <2>14, <2>15, <2>16 DEF StartInv
  <1> QED  BY <1>2, <1>3

LEMMA SpawnKeeps == ASSUME StartInv, NEW n \in Nodes, Spawn(n) PROVE StartInv'
  <1>1. /\ launchLedger' = launchLedger /\ sampled' = sampled /\ stops' = stops /\ holder' = holder
        /\ excludes' = excludes /\ root' = root /\ node[n] = "spawn" /\ NodeGoes(n, "wait")
    BY DEF Spawn, NodeAt
  <1>2. OnlyMoves(n) /\ node'[n] = "wait"  BY <1>1, WorkerGoes DEF StartInv, Places
  <1>3. node[n] \in Holds /\ node[n] \in Began  BY <1>1 DEF Holds, Began
  <1>4. Untouched /\ Barred  BY <1>1, <1>3 DEF StartInv, BegunByOne
  <1>6. /\ training' \in [alive : BOOLEAN, started : Nat] /\ training'.started <= 1
        /\ training'.alive => training'.started = 1
    <2>1. CASE training' = [alive |-> TRUE, started |-> training.started + 1]
      BY <1>4, <2>1 DEF Untouched
    <2>2. CASE training' = training BY <2>2 DEF StartInv, BegunByOne, StartTypeOK
    <2> QED  BY <2>1, <2>2 DEF Spawn
  <1>7. LinesWritten' = LinesWritten /\ Barred'  BY <1>1, <1>4 DEF LinesWritten, Barred
  <1>8. StartTypeOK'  BY <1>1, <1>2, <1>6, <1>7 DEF StartInv, StartTypeOK, OnlyMoves
  <1>9. HeldByOne'  BY <1>1, <1>2, <1>3, HeldKept
  <1>10. PreparedByOne'
    <2> QED BY <1>1, <1>2, PreparedKept
  <1>11. \A m \in Nodes : node'[m] \in Began => m = n
    <2> QED BY <1>3, <1>2, BegunAlone DEF OnlyMoves
  <1>12. BegunByOne'
    <2> QED BY <1>6, <1>7, <1>11, <1>2 DEF BegunByOne, Began
  <1>13. StartedIsWritten'
    <2> QED BY <1>2, <1>3, WrittenKept DEF BeginsWritten, Begins
  <1>14. EndIsKnown'
    <2>1. ~root.kept /\ ~root.doubt  BY <1>4 DEF Untouched
    <2>2. \A m \in Nodes : EndsInOrder(m)'
      <3> TAKE m \in Nodes
      <3>1. CASE m = n  BY <1>1, <1>2, <2>1, <3>1 DEF EndsInOrder
      <3>2. CASE m # n
        <4> QED BY <1>11, <3>2 DEF EndsInOrder, Began
      <3> QED  BY <3>1, <3>2
    <2> QED  BY <1>1, <1>7, <2>1, <2>2 DEF StartInv, EndIsKnown
  <1>15. CodeStays'
    <2>2. excludes => CodeInOrder(n)'  BY <1>2 DEF CodeInOrder, Begins
    <2> QED BY <1>1, <1>2, <2>2, CodeKept DEF StartInv, CodeStays, CodeInOrder
  <1> QED  BY <1>8, <1>9, <1>10, <1>12, <1>13, <1>14, <1>15 DEF StartInv

LEMMA ProcessEndsKeeps == ASSUME StartInv, NEW n \in Nodes, ProcessEnds(n) PROVE StartInv'
  <1>1. /\ launchLedger' = launchLedger /\ sampled' = sampled /\ stops' = stops /\ holder' = holder
        /\ excludes' = excludes /\ node[n] = "wait" /\ NodeGoes(n, "receipt")
        /\ training' = [training EXCEPT !.alive = FALSE]
    BY DEF ProcessEnds, NodeAt
  <1>2. OnlyMoves(n) /\ node'[n] = "receipt"  BY <1>1, WorkerGoes DEF StartInv, Places
  <1>3. node[n] \in Holds /\ node[n] \in Began  BY <1>1 DEF Holds, Began
  <1>5. /\ training' \in [alive : BOOLEAN, started : Nat] /\ training'.started = training.started
        /\ ~training'.alive
    BY <1>1 DEF StartInv, StartTypeOK
  <1>6. PICK onDisk \in BOOLEAN, unsure \in BOOLEAN :
           /\ root' = RootOf(root.made, root.tree, root.listing, root.output, onDisk, unsure, root.receipt)
           /\ onDisk \/ unsure
    <2>1. CASE root' = [root EXCEPT !.kept = TRUE]
      <3> QED BY <2>1, RootTypes, RootChanges
    <2>2. CASE root' = [root EXCEPT !.doubt = TRUE]
      <3> QED BY <2>2, RootTypes, RootChanges
    <2> QED  BY <2>1, <2>2 DEF ProcessEnds, SyncLogs
  <1>7. /\ root' \in Roots /\ root'.made = root.made /\ root'.tree = root.tree /\ root'.listing = root.listing
        /\ root'.output = root.output /\ root'.receipt = root.receipt /\ (root'.kept \/ root'.doubt)
    BY <1>6, RootTypes DEF Roots, RootOf
  <1>8. LinesWritten' = LinesWritten /\ Barred'
    BY <1>1, <1>3, <1>7 DEF LinesWritten, Barred, StartInv, BegunByOne
  <1>9. StartTypeOK'  BY <1>1, <1>2, <1>5, <1>7, <1>8 DEF StartInv, StartTypeOK, OnlyMoves
  <1>10. HeldByOne'  BY <1>1, <1>2, <1>3, HeldKept
  <1>11. PreparedByOne'
    <2> QED BY <1>2, <1>7, <1>1, PreparedKept
  <1>12. \A m \in Nodes : node'[m] \in Began => m = n
    <2> QED BY <1>3, <1>2, BegunAlone DEF OnlyMoves
  <1>13. BegunByOne'
    <2> QED BY <1>5, <1>8, <1>12, <1>2 DEF StartInv, BegunByOne, Began
  <1>14. StartedIsWritten'
    <2> QED BY <1>2, <1>3, WrittenKept DEF BeginsWritten, Begins
  <1>15. EndIsKnown'
    <2>1. \A m \in Nodes : EndsInOrder(m)'
      <3> TAKE m \in Nodes
      <3>1. CASE m = n  BY <1>2, <1>7, <3>1 DEF EndsInOrder
      <3>2. CASE m # n
        <4> QED BY <1>12, <3>2 DEF EndsInOrder, Began
      <3> QED  BY <3>1, <3>2
    <2> QED  BY <1>1, <1>5, <1>7, <1>8, <2>1 DEF StartInv, EndIsKnown
  <1>16. CodeStays'
    <2>2. CodeInOrder(n)'  BY <1>2 DEF CodeInOrder, Begins
    <2> QED BY <1>2, <1>5, <1>7, <2>2, CodeKept DEF StartInv, CodeStays
  <1> QED  BY <1>9, <1>10, <1>11, <1>13, <1>14, <1>15, <1>16 DEF StartInv

LEMMA PublishReceiptKeeps == ASSUME StartInv, NEW n \in Nodes, PublishReceipt(n) PROVE StartInv'
  <1>1. /\ launchLedger' = launchLedger /\ training' = training /\ sampled' = sampled /\ stops' = stops
        /\ excludes' = excludes /\ node[n] = "receipt"
    BY DEF PublishReceipt, NodeAt
  <1>2. CASE root' = root /\ NodeLeaves(n, "stopped")
    <2> QED BY <1>1, <1>2, WorkerGoes, Stays DEF StartInv, Places, NodeLeaves
  <1>3. CASE root' = [root EXCEPT !.receipt = TRUE] /\ NodeGoes(n, "append F") /\ holder' = holder
    <2>2. /\ root' \in Roots /\ root'.made = root.made /\ root'.tree = root.tree /\ root'.listing = root.listing
          /\ root'.output = root.output /\ root'.kept = root.kept /\ root'.doubt = root.doubt /\ root'.receipt
      BY <1>3, RootTypes, RootChanges DEF Roots, RootOf
    <2>3. OnlyMoves(n) /\ node'[n] = "append F"  BY <1>1, <1>3, WorkerGoes DEF StartInv, Places
    <2>4. node[n] \in Holds /\ node[n] \in Began /\ node'[n] # "spawn"  BY <1>1, <2>3 DEF Holds, Began
    <2>5. LinesWritten' = LinesWritten /\ (Barred => Barred')  BY <1>1, <2>2 DEF LinesWritten, Barred
    <2>6. root.kept \/ root.doubt  BY <1>1 DEF StartInv, EndIsKnown, EndsInOrder
    <2>7. StartTypeOK'  BY <1>1, <1>3, <2>2, <2>3, <2>5 DEF StartInv, StartTypeOK, OnlyMoves
    <2>8. HeldByOne'  BY <1>3, <2>3, <2>4, HeldKept
    <2>9. PreparedByOne'
      <3> QED BY <2>2, <2>3, <1>1, PreparedKept
    <2>10. BegunByOne'  BY <1>1, <2>2, <2>3, <2>4, <2>5, BegunKept
    <2>11. StartedIsWritten'
      <3> QED BY <2>3, <2>4, WrittenKept DEF BeginsWritten, Begins
    <2>12. EndIsKnown'
      <3>1. EndsInOrder(n)'  BY <2>2, <2>3, <2>6 DEF EndsInOrder
      <3> QED  BY <1>1, <2>2, <2>3, <2>5, <2>6, <3>1, EndKept DEF StartInv, EndIsKnown
    <2>13. CodeStays'
      <3>2. excludes => (root.listing => root.tree = "whole") /\ (training.alive => root.listing)
        BY DEF StartInv, CodeStays
      <3> QED BY <1>1, <2>2, <2>3, <3>2, CodeKept DEF CodeInOrder, Begins
    <2> QED  BY <2>7, <2>8, <2>9, <2>10, <2>11, <2>12, <2>13 DEF StartInv
  <1> QED  BY <1>2, <1>3 DEF PublishReceipt

LEMMA WorkerLost ==
    ASSUME StartInv, NEW n \in Nodes, OnlyMoves(n), node'[n] \in {"prepare", "stopped"}, holder' = holder \ {n},
           stops' \in Nat, sampled' = sampled,
           launchLedger' \in LaunchLedgers, launchLedger.synced <= launchLedger'.synced,
           launchLedger'.synced <= LinesWritten', LinesWritten' <= LinesWritten, LinesWritten' = LinesWritten \/ node[n] \in Holds,
           \A i \in 1..LinesWritten' : launchLedger'.lines[i] = launchLedger.lines[i],
           training' \in [alive : BOOLEAN, started : Nat], training'.started = training.started,
           training'.alive => training.alive,
           NEW output \in BOOLEAN, ~excludes => output = root.output,
           root' = RootOf(root.made, root.tree, root.listing, output, root.kept, root.doubt, root.receipt)
    PROVE  StartInv'
  <1>1. /\ root' \in Roots /\ root'.made = root.made /\ root'.tree = root.tree /\ root'.listing = root.listing
        /\ root'.output = output /\ root'.kept = root.kept /\ root'.doubt = root.doubt
        /\ root'.receipt = root.receipt
    BY RootTypes DEF Roots, RootOf
  <1>2. /\ excludes' = excludes /\ (Untouched' <=> Untouched) /\ launchLedger.synced \in Nat
        /\ launchLedger'.synced \in Nat /\ LinesWritten \in Nat /\ LinesWritten' \in Nat
    BY <1>1 DEF OnlyMoves, Untouched, StartInv, StartTypeOK, LaunchLedgers, LinesWritten
  <1>3. launchLedger.synced >= 2 => launchLedger'.synced >= 2  BY <1>2, TwoStay
  <1>5. /\ node'[n] \notin Began /\ node'[n] \notin Holds /\ BeginsWritten(n)' /\ EndsInOrder(n)' /\ CodeInOrder(n)'
        /\ node'[n] # "spawn"
    BY DEF Began, Holds, Delivers, Begins, BeginsWritten, EndsInOrder, CodeInOrder
  <1>6. StartTypeOK'  BY <1>1, <1>2 DEF StartInv, StartTypeOK, OnlyMoves
  <1>7. HeldByOne'  BY <1>5, HeldKept
  <1>8. PreparedByOne'
    <2>1. LinesWritten = 0 => LinesWritten' = 0  BY <1>2
    <2> QED  BY <1>1, <2>1, PreparedKept
  <1>9. BegunByOne' BY <1>1, <1>2, <1>3, <1>5, BegunKept DEF Barred
  <1>10. StartedIsWritten'  BY <1>2, <1>3, <1>5, WrittenKept
  <1>11. EndIsKnown'
    <2>1. \A i \in 1..LinesWritten' : launchLedger'.lines[i] = "F" => root'.receipt
      <3> QED BY <1>1, <1>2 DEF StartInv, EndIsKnown
    <2>2. root'.receipt => root.kept \/ root.doubt  BY <1>1 DEF StartInv, EndIsKnown
    <2>3. "FINISHED" \in sampled' => root'.receipt  BY <1>1 DEF StartInv, EndIsKnown
    <2> QED BY <1>1, <1>5, <2>1, <2>2, <2>3, EndKept
  <1>12. CodeStays'
    <2> QED BY <1>1, <1>5, CodeKept DEF StartInv, CodeStays
  <1> QED  BY <1>6, <1>7, <1>8, <1>9, <1>10, <1>11, <1>12 DEF StartInv

LEMMA KillWorkerKeeps == ASSUME StartInv, NEW n \in Nodes, KillWorker(n) PROVE StartInv'
  <1>1. /\ launchLedger' = launchLedger /\ training' = training /\ sampled' = sampled /\ stops' = stops + 1
        /\ excludes' = excludes /\ root' = root
    BY DEF KillWorker
  <1>2. PICK next \in {"prepare", "stopped"} : NodeLeaves(n, next)  BY DEF KillWorker
  <1>3. OnlyMoves(n) /\ node'[n] = next /\ holder' = holder \ {n}
    BY <1>1, <1>2, WorkerGoes DEF StartInv, Places, NodeLeaves
  <1>4. /\ launchLedger \in LaunchLedgers /\ launchLedger.synced \in Nat /\ LinesWritten \in Nat
        /\ launchLedger.synced <= LinesWritten /\ stops \in Nat
        /\ training \in [alive : BOOLEAN, started : Nat]
    BY LedgerFields DEF StartInv, StartTypeOK, LinesWritten
  <1>5. LinesWritten' = LinesWritten /\ LinesWritten' <= LinesWritten /\ launchLedger.synced <= launchLedger'.synced
    BY <1>1, <1>4 DEF LinesWritten
  <1>6. root' = RootOf(root.made, root.tree, root.listing, root.output, root.kept, root.doubt, root.receipt)
    BY <1>1, RootTypes DEF Roots, RootOf
  <1>7. root.output \in BOOLEAN /\ stops' \in Nat  BY <1>1, <1>4, RootTypes
  <1> QED BY <1>1, <1>3, <1>4, <1>5, <1>6, <1>7, WorkerLost

LEMMA LineIsCut ==
    ASSUME NEW s \in Seq(LineTexts), NEW k \in 0..Len(s)
    PROVE  /\ SubSeq(s, 1, k) \in Seq(LineTexts) /\ Len(SubSeq(s, 1, k)) = k
           /\ \A i \in 1..k : SubSeq(s, 1, k)[i] = s[i]
  <1>1. k \in Nat /\ k <= Len(s)  OBVIOUS
  <1>2. \A i \in 1..k : i \in 1..Len(s)  BY <1>1
  <1>4. SubSeq(s, 1, k) = [i \in 1..k |-> s[i]]  BY <1>1, <1>2
  <1> QED BY <1>1, <1>2, <1>4

LEMMA LoseNodeKeeps == ASSUME StartInv, NEW n \in Nodes, LoseNode(n) PROVE StartInv'
  <1>1. excludes' = excludes /\ sampled' = sampled /\ stops' = stops + 1  BY DEF LoseNode
  <1>2. PICK next \in {"prepare", "stopped"} : NodeLeaves(n, next)  BY DEF LoseNode
  <1>3. OnlyMoves(n) /\ node'[n] = next /\ holder' = holder \ {n}
    BY <1>1, <1>2, WorkerGoes DEF StartInv, Places, NodeLeaves
  <1>4. PICK length \in launchLedger.synced..Len(launchLedger.lines), torn \in BOOLEAN :
           /\ length < Len(launchLedger.lines) => node[n] \in {"sync P", "sync S", "sync F"}
           /\ launchLedger' = [lines |-> SubSeq(launchLedger.lines, 1, length), synced |-> length,
                               torn |-> launchLedger.torn \/ torn]
    BY DEF LoseNode
  <1>5. PICK output \in {root.output, root.output /\ (root.kept \/ ~excludes \/ node[n] \notin {"spawn", "wait"})} :
           root' = [root EXCEPT !.output = output]
    BY DEF LoseNode
  <1>6. /\ launchLedger \in LaunchLedgers /\ launchLedger.lines \in Seq(LineTexts) /\ launchLedger.synced \in Nat
        /\ launchLedger.torn \in BOOLEAN /\ LinesWritten \in Nat /\ stops \in Nat
        /\ training \in [alive : BOOLEAN, started : Nat]
    BY LedgerFields DEF StartInv, StartTypeOK, LinesWritten
  <1>7. length \in Nat /\ launchLedger.synced <= length /\ length <= LinesWritten /\ length \in 0..Len(launchLedger.lines)
    <2>2. Len(launchLedger.lines) \in Nat /\ LinesWritten = Len(launchLedger.lines)  BY <1>6 DEF LinesWritten
    <2> QED BY <1>6, <2>2
  <1>8. /\ SubSeq(launchLedger.lines, 1, length) \in Seq(LineTexts)
        /\ Len(SubSeq(launchLedger.lines, 1, length)) = length
        /\ \A i \in 1..length : SubSeq(launchLedger.lines, 1, length)[i] = launchLedger.lines[i]
    BY <1>6, <1>7, LineIsCut
  <1>9. /\ launchLedger' \in LaunchLedgers /\ launchLedger'.lines = SubSeq(launchLedger.lines, 1, length)
        /\ launchLedger'.synced = length
    BY <1>4, <1>6, <1>7, <1>8 DEF LaunchLedgers
  <1>10. LinesWritten' = length  BY <1>8, <1>9 DEF LinesWritten
  <1>11. LinesWritten' = LinesWritten \/ node[n] \in Holds
    <2>1. length = Len(launchLedger.lines) \/ length < Len(launchLedger.lines)  BY <1>6, <1>7 DEF LinesWritten
    <2> QED  BY <1>4, <1>10, <2>1 DEF LinesWritten, Holds, Begins, Began
  <1>13. /\ training' \in [alive : BOOLEAN, started : Nat] /\ training'.started = training.started
         /\ training'.alive => training.alive
    <2> DEFINE b == training.alive /\ ~NodeAt(n, "wait")
    <2>2. b \in BOOLEAN /\ (b => training.alive)  OBVIOUS
    <2>3. training' = [training EXCEPT !.alive = b] BY DEF LoseNode
    <2> HIDE DEF b
    <2> QED BY <1>6, <2>2, <2>3
  <1>14. output \in BOOLEAN /\ (~excludes => output = root.output)  BY <1>5, RootTypes
  <1>15. root' = RootOf(root.made, root.tree, root.listing, output, root.kept, root.doubt, root.receipt)
    BY <1>5, <1>14, RootTypes, RootChanges
  <1>16. /\ stops' \in Nat /\ launchLedger.synced <= launchLedger'.synced /\ launchLedger'.synced <= LinesWritten'
         /\ LinesWritten' <= LinesWritten /\ \A i \in 1..LinesWritten' : launchLedger'.lines[i] = launchLedger.lines[i]
    BY <1>1, <1>6, <1>7, <1>8, <1>9, <1>10
  <1> QED  BY <1>1, <1>3, <1>9, <1>11, <1>13, <1>14, <1>15, <1>16, WorkerLost

LEMMA StartKept ==
    ASSUME StartInv, UNCHANGED <<excludes, launchLedger, root, holder, node, stops>>,
           training' \in [alive : BOOLEAN, started : Nat], training'.started = training.started,
           training'.alive => training.alive, "FINISHED" \in sampled' => root.receipt
    PROVE  StartInv'
  <1>1. LinesWritten' = LinesWritten /\ (Untouched' <=> Untouched) /\ (Barred' <=> Barred)  BY DEF LinesWritten, Untouched, Barred
  <1>2. StartTypeOK' /\ HeldByOne'  BY <1>1 DEF StartInv, StartTypeOK, HeldByOne
  <1>3. PreparedByOne'  BY <1>1 DEF StartInv, PreparedByOne
  <1>4. BegunByOne'  BY <1>1 DEF StartInv, BegunByOne
  <1>5. StartedIsWritten'  BY <1>1 DEF StartInv, StartedIsWritten, BeginsWritten
  <1>6. EndIsKnown'  BY <1>1 DEF StartInv, EndIsKnown, EndsInOrder
  <1>7. CodeStays'  BY DEF StartInv, CodeStays, CodeInOrder
  <1> QED  BY <1>2, <1>3, <1>4, <1>5, <1>6, <1>7 DEF StartInv

LEMMA StartSteps == StartInv /\ [StartNext]_startVars => StartInv'
  <1> SUFFICES ASSUME StartInv, [StartNext]_startVars PROVE StartInv'
    OBVIOUS
  <1>1. training \in [alive : BOOLEAN, started : Nat] /\ ("FINISHED" \in sampled => root.receipt)
    BY DEF StartInv, StartTypeOK, EndIsKnown
  <1>2. CASE Sample
    <2> QED BY <1>1, <1>2, PhaseKnows, StartKept DEF Sample
  <1>3. CASE OrphanEnds
    <2>2. training' \in [alive : BOOLEAN, started : Nat] /\ training'.started = training.started /\ ~training'.alive
      BY <1>1, <1>3 DEF OrphanEnds
    <2> QED  BY <1>1, <1>3, <2>2, StartKept DEF OrphanEnds
  <1>4. CASE UNCHANGED startVars  BY <1>1, <1>4, StartKept DEF startVars
  <1>5. ASSUME NEW n \in Nodes,
               \/ CreateRoot(n) \/ Initialize(n) \/ Inspect(n) \/ AppendLine(n) \/ SyncLine(n)
               \/ HoldUnstarted(n) \/ LookForCode(n) \/ CreateTree(n) \/ FillTree(n) \/ PublishListing(n)
               \/ BeginRun(n) \/ CreateOutput(n) \/ Spawn(n) \/ ProcessEnds(n) \/ PublishReceipt(n)
               \/ KillWorker(n) \/ LoseNode(n)
        PROVE  StartInv'
    BY <1>5, CreateRootKeeps, InitializeKeeps, InspectKeeps, AppendLineKeeps, SyncLineKeeps, HoldUnstartedKeeps,
       LookForCodeKeeps, CreateTreeKeeps, FillTreeKeeps, PublishListingKeeps, BeginRunKeeps, CreateOutputKeeps,
       SpawnKeeps, ProcessEndsKeeps, PublishReceiptKeeps, KillWorkerKeeps, LoseNodeKeeps
  <1> QED  BY <1>2, <1>3, <1>4, <1>5 DEF StartNext

(* Whatever the provider does with the Workers of an Attempt, and wherever
   each of them is killed or its node is lost: training starts once, in
   the whole of its published source, and FINISHED is read only after it
   has ended and a receipt says how (worker/managed.rs, cloud_code.rs). *)
THEOREM TrainingIsStartedOnce == StartSpec => []WorkerStartsOnce
  <1>1. StartInit => StartInv
    <2> SUFFICES ASSUME StartInit PROVE StartInv
      OBVIOUS
    <2>1. /\ launchLedger.lines = <<>> /\ launchLedger.synced = 0 /\ launchLedger \in LaunchLedgers /\ LinesWritten = 0
      BY DEF StartInit, LaunchLedgers, LineTexts, LinesWritten
    <2>2. /\ root \in Roots /\ ~root.made /\ ~root.listing /\ ~root.output /\ ~root.kept /\ ~root.doubt /\ ~root.receipt
      BY DEF StartInit, Roots
    <2>3. /\ training \in [alive : BOOLEAN, started : Nat] /\ ~training.alive /\ training.started = 0
      BY DEF StartInit
    <2>4. /\ holder = {} /\ sampled = {} /\ stops = 0 /\ excludes \in BOOLEAN
          /\ node \in [Nodes -> Places] /\ \A n \in Nodes : node[n] = "prepare"
      BY DEF StartInit, Places
    <2>5. StartTypeOK  BY <2>1, <2>2, <2>3, <2>4 DEF StartTypeOK
    <2>6. HeldByOne  BY <2>4 DEF HeldByOne, Holds, Delivers, Begins, Began
    <2>7. PreparedByOne  BY <2>1, <2>4 DEF PreparedByOne
    <2>8. BegunByOne
      <3>2. \A n \in Nodes : node[n] \notin Began /\ node[n] # "spawn"  BY <2>4 DEF Began
      <3>3. training.started <= 1  BY <2>3
      <3> QED BY <2>3, <2>2, <3>2, <3>3 DEF BegunByOne, Untouched
    <2>9. StartedIsWritten  BY <2>4 DEF StartedIsWritten, BeginsWritten, Begins
    <2>10. EndIsKnown
      <3>2. \A i \in 1..LinesWritten : FALSE  BY <2>1
      <3> QED BY <2>2, <2>4, <3>2 DEF EndIsKnown, EndsInOrder
    <2>11. CodeStays  BY <2>2, <2>3, <2>4 DEF CodeStays, CodeInOrder, Begins
    <2> QED  BY <2>5, <2>6, <2>7, <2>8, <2>9, <2>10, <2>11 DEF StartInv
  <1>2. StartInv => WorkerStartsOnce
    <2> SUFFICES ASSUME StartInv PROVE WorkerStartsOnce
      OBVIOUS
    <2>2. FinishedIsOver  BY DEF StartInv, EndIsKnown, FinishedIsOver
    <2>3. CodeIsWhole  BY DEF StartInv, CodeStays, CodeIsWhole
    <2> QED BY <2>2, <2>3 DEF WorkerStartsOnce, StartInv, BegunByOne, TrainingStartsOnce
  <1> QED  BY <1>1, <1>2, StartSteps, PTL DEF StartSpec

------------
(* The log and the group of a process.  Whatever the limit, what a byte of
   the log is follows from its place, between two moves and at each byte
   of a move; and how far the group is follows from how far its supervisor
   is, so that a signal is sent only while the leader holds the number. *)
CapturePlaces == {"write", "seam", "move", "cut"}
Captures == [at : CapturePlaces, received : Nat, retained : Nat, left : Nat, moved : Nat, newest : Seq(Nat),
             digest : Seq(Nat), head : Seq(Nat), dropped : BOOLEAN, failed : BOOLEAN]

LogTypeOK == log \in Seq(Nat) /\ capacity \in LogLimits /\ capture \in Captures /\ capture.left <= capture.received

\* What a byte of the log is, between two moves.
ByteAt(i) == IF ~capture.dropped \/ i <= HeadEnd THEN i
             ELSE IF i <= TailStart THEN 0 ELSE Written - capture.retained + i

WriteIsTrue ==
    capture.at = "write" =>
        /\ Len(log) = capture.retained /\ log = capture.digest /\ capture.moved = 0
        /\ \A i \in 1..Len(log) : log[i] = ByteAt(i)
        /\ capture.dropped => capture.retained >= TailStart + Kept /\ Written + TailStart >= HeadEnd + capture.retained
        /\ ~capture.dropped => Written = capture.retained

MoveIsTrue ==
    capture.at # "write" =>
        /\ Len(log) = capacity /\ capture.retained = capacity /\ Written >= HeadEnd + Kept
        /\ \A i \in 1..HeadEnd : log[i] = i
        /\ \A i \in 1..Kept : log[capacity - Kept + i] = Written - Kept + i
        /\ capture.at = "seam" => capture.moved < SeamBytes /\ \A i \in 1..capture.moved : log[HeadEnd + i] = 0
        /\ capture.at # "seam" => \A i \in 1..SeamBytes : log[HeadEnd + i] = 0
        /\ capture.at = "move" => /\ capture.moved < Kept
                                  /\ \A i \in 1..capture.moved : log[TailStart + i] = Written - Kept + i
        /\ capture.at = "cut" => \A i \in 1..Kept : log[TailStart + i] = Written - Kept + i

NewestIsTrue ==
    /\ Len(capture.newest) = IF capture.retained > capacity - Kept THEN capture.retained - (capacity - Kept) ELSE 0
    /\ \A i \in 1..Len(capture.newest) :
          capture.newest[i] = Written - capture.retained + capacity - Kept + i

HeadIsTrue ==
    capture.retained >= HeadEnd =>
        Len(capture.head) = TailStart /\ \A i \in 1..TailStart : capture.head[i] = IF i <= HeadEnd THEN i ELSE 0

LogInv ==
    /\ LogTypeOK
    /\ capture.failed => capture.at = "write" /\ capture.left = 0
    /\ ~capture.failed => /\ WriteIsTrue /\ MoveIsTrue /\ NewestIsTrue /\ HeadIsTrue
                          /\ capture.retained <= capacity

------------
LEMMA CapacityIs ==
    ASSUME capacity \in LogLimits
    PROVE  /\ capacity \in Nat /\ HeadEnd \in Nat /\ TailStart \in Nat /\ Kept \in Nat /\ SeamBytes \in Nat
           /\ Kept > 0 /\ HeadEnd > 0 /\ TailStart = HeadEnd + SeamBytes /\ SeamBytes > 1
           /\ TailStart + 2 * Kept <= capacity
  <1>1. capacity \in Nat /\ SeamBytes \in Nat /\ SeamBytes > 1 /\ capacity >= 4 * SeamBytes BY LimitHoldsSeam
  <1>2. HeadEnd \in Nat /\ HeadEnd > 0 /\ 2 * HeadEnd <= capacity /\ TailStart = HeadEnd + SeamBytes
    BY <1>1 DEF HeadEnd, TailStart
  <1> QED BY <1>1, <1>2 DEF Kept

LEMMA PutAtIs ==
    ASSUME log \in Seq(Nat), NEW put \in Seq(Nat), NEW offset \in Nat, Len(log) >= offset
    PROVE  /\ PutAt(put, offset) \in Seq(Nat)
           /\ Len(PutAt(put, offset)) = IF Len(log) > offset + Len(put) THEN Len(log) ELSE offset + Len(put)
           /\ \A i \in 1..Len(put) : PutAt(put, offset)[offset + i] = put[i]
           /\ \A i \in 1..Len(log) : i <= offset \/ i > offset + Len(put) => PutAt(put, offset)[i] = log[i]
  <1> DEFINE m == IF Len(log) > offset + Len(put) THEN Len(log) ELSE offset + Len(put)
             e(i) == IF i > offset /\ i <= offset + Len(put) THEN put[i - offset] ELSE log[i]
  <1>1. m \in Nat /\ m >= Len(log) /\ m >= offset + Len(put) /\ Len(put) \in Nat /\ Len(log) \in Nat OBVIOUS
  <1>2. \A i \in 1..m : e(i) \in Nat
    <2> SUFFICES ASSUME NEW i \in 1..m PROVE e(i) \in Nat OBVIOUS
    <2>1. CASE i > offset /\ i <= offset + Len(put)
      <3> QED BY <2>1, <1>1
    <2>2. CASE ~(i > offset /\ i <= offset + Len(put))
      <3> QED BY <2>2, <1>1
    <2> QED BY <2>1, <2>2
  <1>3. PutAt(put, offset) = [i \in 1..m |-> e(i)] BY DEF PutAt
  <1>5. \A i \in 1..m : PutAt(put, offset)[i] = e(i) BY <1>3
  <1>6. \A i \in 1..Len(put) : PutAt(put, offset)[offset + i] = put[i]
    <2> SUFFICES ASSUME NEW i \in 1..Len(put) PROVE PutAt(put, offset)[offset + i] = put[i] OBVIOUS
    <2>1. offset + i \in 1..m /\ offset + i > offset /\ offset + i <= offset + Len(put) /\ offset + i - offset = i
      BY <1>1
    <2> QED BY <1>5, <2>1
  <1>7. \A i \in 1..Len(log) : i <= offset \/ i > offset + Len(put) => PutAt(put, offset)[i] = log[i]
    BY <1>1, <1>5
  <1> QED BY <1>3, <1>1, <1>2, <1>6, <1>7

LEMMA ReceivedIs ==
    ASSUME LogTypeOK, NEW n \in Nat
    PROVE  /\ Received(n) \in Seq(Nat) /\ Len(Received(n)) = n
           /\ \A i \in 1..n : Received(n)[i] = Written + i
  BY DEF Received, Written, LogTypeOK, Captures

LEMMA SeamIs ==
    ASSUME SeamBytes \in Nat
    PROVE  SeamOf \in Seq(Nat) /\ Len(SeamOf) = SeamBytes /\ \A i \in 1..SeamBytes : SeamOf[i] = 0
  BY DEF SeamOf

\* The fields of a capture.
LEMMA CaptureFields ==
    ASSUME capture \in Captures
    PROVE  /\ capture.at \in CapturePlaces /\ capture.received \in Nat /\ capture.retained \in Nat /\ capture.left \in Nat
           /\ capture.moved \in Nat /\ capture.newest \in Seq(Nat) /\ capture.digest \in Seq(Nat) /\ capture.head \in Seq(Nat)
           /\ capture.dropped \in BOOLEAN /\ capture.failed \in BOOLEAN
  BY DEF Captures

\* A capture with some fields set, said field by field.
Pushed(d, c, n, l) ==
    /\ d \in Captures /\ d.received = n /\ d.left = l
    /\ d.at = c.at /\ d.retained = c.retained /\ d.moved = c.moved /\ d.newest = c.newest
    /\ d.digest = c.digest /\ d.head = c.head /\ d.dropped = c.dropped /\ d.failed = c.failed
LEMMA PushSets ==
    ASSUME NEW c \in Captures, NEW n \in Nat, NEW l \in Nat, NEW d, d = [c EXCEPT !.received = n, !.left = l]
    PROVE  Pushed(d, c, n, l)
  <1>2. d.received = n /\ d.left = l /\ d.at = c.at /\ d.retained = c.retained BY DEF Captures
  <1>3. d.moved = c.moved /\ d.newest = c.newest /\ d.digest = c.digest /\ d.head = c.head BY DEF Captures
  <1>4. d.dropped = c.dropped /\ d.failed = c.failed BY DEF Captures
  <1> QED BY <1>2, <1>3, <1>4 DEF Pushed, Captures

WriteSet(d, c, r, l, g, e, h) ==
    /\ d \in Captures /\ d.digest = g /\ d.retained = r /\ d.left = l /\ d.newest = e /\ d.head = h
    /\ d.at = c.at /\ d.received = c.received /\ d.moved = c.moved
    /\ d.dropped = c.dropped /\ d.failed = c.failed
LEMMA WriteSets ==
    ASSUME NEW c \in Captures, NEW r \in Nat, NEW l \in Nat, NEW g \in Seq(Nat), NEW e \in Seq(Nat), NEW h \in Seq(Nat),
           NEW d, d = [c EXCEPT !.digest = g, !.retained = r, !.left = l, !.newest = e, !.head = h]
    PROVE  WriteSet(d, c, r, l, g, e, h)
  <1>2. d.digest = g /\ d.retained = r /\ d.left = l BY DEF Captures
  <1>3. d.newest = e /\ d.head = h BY DEF Captures
  <1>4. d.at = c.at /\ d.received = c.received /\ d.moved = c.moved BY DEF Captures
  <1>5. d.dropped = c.dropped /\ d.failed = c.failed BY DEF Captures
  <1> QED BY <1>2, <1>3, <1>4, <1>5 DEF WriteSet, Captures

Moved(d, c, a, m) ==
    /\ d \in Captures /\ d.at = a /\ d.moved = m
    /\ d.received = c.received /\ d.retained = c.retained /\ d.left = c.left /\ d.newest = c.newest
    /\ d.digest = c.digest /\ d.head = c.head /\ d.dropped = c.dropped /\ d.failed = c.failed
LEMMA MoveSets ==
    ASSUME NEW c \in Captures, NEW a \in CapturePlaces, NEW m \in Nat, NEW d, d = [c EXCEPT !.at = a, !.moved = m]
    PROVE  Moved(d, c, a, m)
  <1>2. d.at = a /\ d.moved = m /\ d.received = c.received /\ d.retained = c.retained BY DEF Captures
  <1>3. d.left = c.left /\ d.newest = c.newest /\ d.digest = c.digest /\ d.head = c.head BY DEF Captures
  <1>4. d.dropped = c.dropped /\ d.failed = c.failed BY DEF Captures
  <1> QED BY <1>2, <1>3, <1>4 DEF Moved, Captures

WasCut(d, c, r, g) ==
    /\ d \in Captures /\ d.at = "write" /\ d.moved = 0 /\ d.retained = r /\ d.dropped /\ d.digest = g
    /\ d.newest = <<>>
    /\ d.received = c.received /\ d.left = c.left /\ d.head = c.head /\ d.failed = c.failed
LEMMA CutSets ==
    ASSUME NEW c \in Captures, NEW r \in Nat, NEW g \in Seq(Nat),
           NEW d, d = [c EXCEPT !.at = "write", !.moved = 0, !.retained = r, !.dropped = TRUE, !.digest = g, !.newest = <<>>]
    PROVE  WasCut(d, c, r, g)
  <1>0. "write" \in CapturePlaces BY DEF CapturePlaces
  <1>1. d \in Captures
    <2> DEFINE e == [c EXCEPT !.at = "write", !.moved = 0]
               f == [e EXCEPT !.retained = r, !.digest = g, !.newest = <<>>]
    <2>1. e \in Captures BY <1>0, MoveSets DEF Moved
    <2> HIDE DEF e
    <2>2. <<>> \in Seq(Nat) OBVIOUS
    <2>3. f \in Captures BY <2>1, <2>2 DEF Captures
    <2> HIDE DEF f
    <2>5. d = [f EXCEPT !.dropped = TRUE] BY DEF e, f, Captures
    <2> QED BY <2>3, <2>5 DEF Captures
  <1>3. d.digest = g /\ d.newest = <<>> BY DEF Captures
  <1>4. d.received = c.received /\ d.left = c.left /\ d.head = c.head BY DEF Captures
  <1>5. d.dropped BY DEF Captures
  <1>6. d.failed = c.failed BY DEF Captures
  <1> QED BY <1>1, <1>3, <1>4, <1>5, <1>6 DEF WasCut, Captures

HasFailed(d, c) ==
    /\ d \in Captures /\ d.at = "write" /\ d.failed /\ d.left = 0 /\ d.received = c.received
LEMMA FailSets ==
    ASSUME NEW c \in Captures, NEW d, d = [c EXCEPT !.at = "write", !.failed = TRUE, !.left = 0]
    PROVE  HasFailed(d, c)
  <1>1. d \in Captures BY DEF Captures, CapturePlaces
  <1>3. d.failed BY DEF Captures
  <1> QED BY <1>1, <1>3 DEF HasFailed, Captures

\* What is read goes after what there was.
Counts(u, n, w) == u \in Seq(Nat) /\ Len(u) = n /\ \A i \in 1..n : u[i] = w + i
JoinsTo(q, s, n, w) ==
    /\ q \in Seq(Nat) /\ Len(q) = Len(s) + n
    /\ \A i \in 1..(Len(s) + n) : q[i] = IF i <= Len(s) THEN s[i] ELSE w + (i - Len(s))

LEMMA SameSequence ==
    ASSUME NEW s \in Seq(Nat), NEW u \in Seq(Nat), Len(s) = Len(u), \A i \in 1..Len(u) : s[i] = u[i]
    PROVE  s = u
  OBVIOUS

LEMMA ConcatIs ==
    ASSUME NEW s \in Seq(Nat), NEW u \in Seq(Nat)
    PROVE  /\ s \o u \in Seq(Nat) /\ Len(s \o u) = Len(s) + Len(u)
           /\ \A i \in 1..(Len(s) + Len(u)) : (s \o u)[i] = IF i <= Len(s) THEN s[i] ELSE u[i - Len(s)]
  <1>2. Len(s \o u) = Len(s) + Len(u) OBVIOUS
  <1>3. \A i \in 1..(Len(s) + Len(u)) : (s \o u)[i] = IF i <= Len(s) THEN s[i] ELSE u[i - Len(s)] OBVIOUS
  <1> QED BY <1>2, <1>3

LEMMA Joined ==
    ASSUME NEW s \in Seq(Nat), NEW n \in Nat, NEW w, NEW u, Counts(u, n, w)
    PROVE  JoinsTo(s \o u, s, n, w)
  <1>1. u \in Seq(Nat) /\ Len(u) = n BY DEF Counts
  <1>2. /\ s \o u \in Seq(Nat) /\ Len(s \o u) = Len(s) + n /\ Len(s) \in Nat
        /\ \A i \in 1..(Len(s) + n) : (s \o u)[i] = IF i <= Len(s) THEN s[i] ELSE u[i - Len(s)]
    <2>1. s \o u \in Seq(Nat) /\ Len(s \o u) = Len(s) + Len(u) BY <1>1, ConcatIs
    <2>2. \A i \in 1..(Len(s) + Len(u)) : (s \o u)[i] = IF i <= Len(s) THEN s[i] ELSE u[i - Len(s)]
      BY <1>1, ConcatIs
    <2> QED BY <1>1, <2>1, <2>2
  <1>4. \A i \in 1..(Len(s) + n) : (s \o u)[i] = IF i <= Len(s) THEN s[i] ELSE w + (i - Len(s))
    <2> SUFFICES ASSUME NEW i \in 1..(Len(s) + n)
                 PROVE  (s \o u)[i] = IF i <= Len(s) THEN s[i] ELSE w + (i - Len(s))
      OBVIOUS
    <2>1. CASE i <= Len(s) BY <1>2, <2>1
    <2>2. CASE i > Len(s)
      <3>2. u[i - Len(s)] = w + (i - Len(s)) BY <1>2, <2>2 DEF Counts
      <3> QED BY <1>2, <2>2, <3>2
    <2> QED BY <1>2, <2>1, <2>2
  <1> QED BY <1>2, <1>4 DEF JoinsTo

------------
LEMMA PushKeeps == ASSUME LogInv, Push PROVE LogInv'
  <1>1. PICK n \in 1..3 :
          capture' = [capture EXCEPT !.received = @ + n, !.left = IF capture.failed THEN 0 ELSE n]
    BY DEF Push
  <1>2. UNCHANGED <<log, capacity>> /\ capture.left = 0 /\ capture.at = "write" BY DEF Push
  <1> DEFINE l == IF capture.failed THEN 0 ELSE n
             r == capture.received + n
  <1>3. capture \in Captures /\ l \in Nat /\ r \in Nat /\ capture.received \in Nat BY CaptureFields DEF LogInv, LogTypeOK
  <1>4. capture' = [capture EXCEPT !.received = r, !.left = l] BY <1>1
  <1>5. l <= r /\ (~capture.failed => r - l = capture.received) /\ (capture.failed => l = 0) BY <1>3
  <1> HIDE DEF l, r
  <1>6. /\ capture' \in Captures /\ capture'.received = r /\ capture'.left = l
        /\ capture'.at = capture.at /\ capture'.retained = capture.retained /\ capture'.moved = capture.moved
        /\ capture'.newest = capture.newest /\ capture'.digest = capture.digest /\ capture'.head = capture.head
        /\ capture'.dropped = capture.dropped /\ capture'.failed = capture.failed
    <2>1. Pushed(capture', capture, r, l) BY <1>3, <1>4, PushSets, Zenon
    <2> QED BY <2>1 DEF Pushed
  <1>7. LogTypeOK' BY <1>2, <1>5, <1>6 DEF LogInv, LogTypeOK
  <1>8. CASE capture.failed BY <1>2, <1>5, <1>6, <1>7, <1>8 DEF LogInv
  <1>9. CASE ~capture.failed
    <2>1. Written' = Written BY <1>2, <1>5, <1>6, <1>9, <1>3 DEF Written
    <2>2. HeadEnd' = HeadEnd /\ TailStart' = TailStart /\ Kept' = Kept BY <1>2 DEF HeadEnd, TailStart, Kept
    <2>3. WriteIsTrue' BY <1>2, <1>6, <1>9, <2>1, <2>2 DEF LogInv, WriteIsTrue, ByteAt
    <2>4. MoveIsTrue' BY <1>2, <1>6 DEF MoveIsTrue
    <2>5. NewestIsTrue' BY <1>2, <1>6, <1>9, <2>1, <2>2 DEF LogInv, NewestIsTrue
    <2>6. HeadIsTrue' BY <1>2, <1>6, <1>9, <2>2 DEF LogInv, HeadIsTrue
    <2>7. capture'.retained <= capacity' BY <1>2, <1>6, <1>9 DEF LogInv
    <2> QED BY <1>6, <1>7, <1>9, <2>3, <2>4, <2>5, <2>6, <2>7 DEF LogInv
  <1> QED BY <1>8, <1>9

\* A write is not beyond the next boundary.
LEMMA BoundaryIs ==
    ASSUME capacity \in LogLimits, capture.retained \in Nat, capture.retained < capacity
    PROVE  /\ Boundary \in Nat /\ Boundary <= capacity
           /\ capture.retained < HeadEnd => Boundary <= HeadEnd
           /\ capture.retained < capacity - Kept => Boundary <= capacity - Kept
  <1> DEFINE B == {b \in {HeadEnd, capacity - Kept, capacity} :
                     /\ b > capture.retained
                     /\ \A c \in {HeadEnd, capacity - Kept, capacity} : c > capture.retained => b <= c}
  <1>1. capacity \in Nat /\ HeadEnd \in Nat /\ Kept \in Nat /\ HeadEnd < capacity - Kept /\ Kept > 0 BY CapacityIs
  <1>2. CASE capture.retained < HeadEnd
    <2> QED BY <1>1, <1>2 DEF Boundary
  <1>3. CASE capture.retained >= HeadEnd /\ capture.retained < capacity - Kept
    <2> QED BY <1>1, <1>3 DEF Boundary
  <1>4. CASE capture.retained >= capacity - Kept
    <2> QED BY <1>1, <1>4 DEF Boundary
  <1> QED BY <1>1, <1>2, <1>3, <1>4

LEMMA WriteOutputKeeps == ASSUME LogInv, WriteOutput PROVE LogInv'
  <1>1. capture.at = "write" /\ capture.left > 0 /\ capture.retained < capacity /\ capacity' = capacity /\ ~capture.failed
    BY CaptureFields DEF WriteOutput, LogInv, LogTypeOK
  <1>2. PICK n \in 1..capture.left :
         /\ capture.retained + n <= Boundary
         /\ log' = PutAt(Received(n), capture.retained)
         /\ capture' = [capture EXCEPT
                !.digest = capture.digest \o Received(n), !.retained = @ + n, !.left = @ - n,
                !.newest = IF capture.retained >= capacity - Kept THEN @ \o Received(n) ELSE @,
                !.head = IF capture.retained + n = HeadEnd THEN capture.digest \o Received(n) \o SeamOf ELSE @]
    BY DEF WriteOutput
  <1>3. /\ LogTypeOK /\ WriteIsTrue /\ NewestIsTrue /\ HeadIsTrue
        /\ capture \in Captures /\ log \in Seq(Nat) /\ capacity \in LogLimits
    BY <1>1 DEF LogInv, LogTypeOK
  <1>4. /\ capture.received \in Nat /\ capture.retained \in Nat /\ capture.left \in Nat /\ n \in Nat /\ n <= capture.left
        /\ n > 0 /\ capture.left <= capture.received
    BY <1>3, CaptureFields DEF LogTypeOK
  <1>40. capture.newest \in Seq(Nat) /\ capture.head \in Seq(Nat) /\ capture.digest \in Seq(Nat)
    BY <1>3, CaptureFields
  <1>5. /\ capacity \in Nat /\ HeadEnd \in Nat /\ TailStart \in Nat /\ Kept \in Nat /\ SeamBytes \in Nat
        /\ Kept > 0 /\ HeadEnd > 0 /\ TailStart = HeadEnd + SeamBytes /\ SeamBytes > 1 /\ TailStart + 2 * Kept <= capacity
    BY <1>3, CapacityIs
  <1>6. Received(n) \in Seq(Nat) /\ Len(Received(n)) = n /\ \A i \in 1..n : Received(n)[i] = Written + i
    BY <1>3, <1>4, ReceivedIs
  <1>7. SeamOf \in Seq(Nat) /\ Len(SeamOf) = SeamBytes /\ \A i \in 1..SeamBytes : SeamOf[i] = 0 BY <1>5, SeamIs
  <1> DEFINE r == capture.retained + n
             l == capture.left - n
             d == capture.digest \o Received(n)
             e == IF capture.retained >= capacity - Kept THEN capture.newest \o Received(n) ELSE capture.newest
             h == IF capture.retained + n = HeadEnd THEN d \o SeamOf ELSE capture.head
  <1>8. r \in Nat /\ l \in Nat /\ d \in Seq(Nat) /\ e \in Seq(Nat) /\ h \in Seq(Nat)
    <2>1. r \in Nat /\ l \in Nat BY <1>4
    <2>2. d \in Seq(Nat) BY <1>6, <1>40
    <2>3. e \in Seq(Nat) BY <1>6, <1>40
    <2>4. h \in Seq(Nat)
      <3> HIDE DEF d
      <3> QED BY <1>7, <1>40, <2>2
    <2> QED BY <2>1, <2>2, <2>3, <2>4
  <1>42. r \in Nat /\ l \in Nat BY <1>8
  <1>9. capture' = [capture EXCEPT !.digest = d, !.retained = r, !.left = l, !.newest = e, !.head = h] BY <1>2
  <1>10. r <= Boundary BY <1>2
  <1>11. r = capture.retained + n /\ l = capture.left - n OBVIOUS
  <1>41. JoinsTo(d, capture.digest, n, Written)
    <2>1. Counts(Received(n), n, Written) BY <1>6 DEF Counts
    <2> QED BY <1>4, <1>40, <2>1, Joined, Zenon
  <1>12. /\ capture.retained >= capacity - Kept =>
              JoinsTo(e, capture.newest, n, Written)
         /\ capture.retained < capacity - Kept => e = capture.newest
    <2>1. Counts(Received(n), n, Written) BY <1>6 DEF Counts
    <2>2. JoinsTo(capture.newest \o Received(n), capture.newest, n, Written) BY <1>4, <1>40, <2>1, Joined, Zenon
    <2>3. capture.retained < capacity - Kept => ~(capture.retained >= capacity - Kept) BY <1>4, <1>5
    <2> QED BY <2>2, <2>3
  <1>13. /\ r = HeadEnd => h = d \o SeamOf
         /\ r # HeadEnd => h = capture.head
    OBVIOUS
  <1> HIDE DEF r, l, d, e, h
  <1>14. /\ capture' \in Captures /\ capture'.digest = d /\ capture'.retained = r /\ capture'.left = l
         /\ capture'.newest = e /\ capture'.head = h
         /\ capture'.at = capture.at /\ capture'.received = capture.received /\ capture'.moved = capture.moved
         /\ capture'.dropped = capture.dropped /\ capture'.failed = capture.failed
    <2>1. WriteSet(capture', capture, r, l, d, e, h) BY <1>3, <1>8, <1>9, WriteSets, Zenon
    <2> QED BY <2>1 DEF WriteSet
  <1>15. HeadEnd' = HeadEnd /\ TailStart' = TailStart /\ Kept' = Kept BY <1>1 DEF HeadEnd, TailStart, Kept
  <1>16. Written' = Written + n /\ Written \in Nat BY <1>4, <1>11, <1>14 DEF Written
  <1>17. Len(log) = capture.retained /\ log = capture.digest /\ capture.moved = 0 BY <1>1, <1>3 DEF WriteIsTrue
  <1>18. /\ log' \in Seq(Nat) /\ Len(log') = r
         /\ \A i \in 1..n : log'[capture.retained + i] = Received(n)[i]
         /\ \A i \in 1..Len(log) : log'[i] = log[i]
    <2> DEFINE u == Received(n)
               o == capture.retained
    <2>1. u \in Seq(Nat) /\ Len(u) = n /\ o \in Nat /\ Len(log) = o /\ log' = PutAt(u, o)
      <3>1. log' = PutAt(u, o) BY <1>2, Zenon
      <3> HIDE DEF r, l, d, e, h
      <3> QED BY <1>4, <1>6, <1>17, <3>1
    <2> HIDE DEF u
    <2>2. /\ PutAt(u, o) \in Seq(Nat) /\ Len(PutAt(u, o)) = IF Len(log) > o + Len(u) THEN Len(log) ELSE o + Len(u)
          /\ \A i \in 1..Len(u) : PutAt(u, o)[o + i] = u[i]
          /\ \A i \in 1..Len(log) : i <= o \/ i > o + Len(u) => PutAt(u, o)[i] = log[i]
      <3>1. log \in Seq(Nat) BY <1>3
      <3>2. u \in Seq(Nat) /\ o \in Nat BY <2>1
      <3> HIDE DEF o
      <3>3. Len(log) >= o BY <2>1
      <3> QED BY <3>1, <3>2, <3>3, PutAtIs, Zenon
    <2>3. Len(log') = r BY <1>4, <1>11, <2>1, <2>2
    <2>4. \A i \in 1..n : log'[o + i] = u[i] BY <2>1, <2>2
    <2>5. \A i \in 1..Len(log) : log'[i] = log[i]
      <3> SUFFICES ASSUME NEW i \in 1..Len(log) PROVE PutAt(u, o)[i] = log[i] BY <2>1
      <3>1. i <= o BY <2>1
      <3> QED BY <2>2, <3>1
    <2> QED BY <2>1, <2>2, <2>3, <2>4, <2>5 DEF u
  <1>19. r <= capacity /\ (capture.retained < HeadEnd => r <= HeadEnd)
         /\ (capture.retained < capacity - Kept => r <= capacity - Kept)
    BY <1>1, <1>3, <1>4, <1>5, <1>8, <1>10, BoundaryIs
  <1>20. LogTypeOK'
    <2>1. l <= capture.received BY <1>4, <1>11
    <2>2. capture'.left <= capture'.received BY <1>14, <2>1
    <2>3. log' \in Seq(Nat) /\ capture' \in Captures BY <1>14, <1>18
    <2>4. capacity' \in LogLimits BY <1>1, <1>3
    <2> QED BY <2>2, <2>3, <2>4 DEF LogTypeOK
  <1>21. \A i \in 1..r : log'[i] = IF i <= capture.retained THEN log[i] ELSE Written + (i - capture.retained)
    <2> SUFFICES ASSUME NEW i \in 1..r
                 PROVE  log'[i] = IF i <= capture.retained THEN log[i] ELSE Written + (i - capture.retained)
      OBVIOUS
    <2>1. CASE i <= capture.retained
      <3>1. i \in 1..Len(log) BY <1>4, <1>42, <1>17, <2>1
      <3> QED BY <1>18, <2>1, <3>1
    <2>2. CASE i > capture.retained
      <3>1. i - capture.retained \in 1..n /\ capture.retained + (i - capture.retained) = i BY <1>4, <1>42, <1>11, <2>2
      <3>2. log'[i] = Received(n)[i - capture.retained] BY <1>18, <3>1
      <3>3. ~(i <= capture.retained) BY <1>4, <1>42, <2>2
      <3> QED BY <1>6, <3>1, <3>2, <3>3
    <2> QED BY <1>4, <1>42, <2>1, <2>2
  <1>22. log' = d
    <2>1. JoinsTo(d, log, n, Written) /\ Len(log) = capture.retained BY <1>17, <1>41
    <2>2. d \in Seq(Nat) /\ Len(d) = r BY <1>11, <2>1 DEF JoinsTo
    <2>3. \A i \in 1..r : d[i] = IF i <= capture.retained THEN log[i] ELSE Written + (i - capture.retained)
      BY <1>11, <2>1 DEF JoinsTo
    <2>4. \A i \in 1..r : log'[i] = d[i] BY <1>21, <2>3
    <2>5. log' \in Seq(Nat) /\ Len(log') = r BY <1>18
    <2> HIDE DEF d, r
    <2> QED BY <2>2, <2>4, <2>5, SameSequence
  <1>23. WriteIsTrue'
    <2>1. \A i \in 1..Len(log) : log[i] = ByteAt(i) BY <1>1, <1>3 DEF WriteIsTrue
    <2>2. /\ capture.dropped => capture.retained >= TailStart + Kept /\ Written + TailStart >= HeadEnd + capture.retained
          /\ ~capture.dropped => Written = capture.retained
      BY <1>1, <1>3 DEF WriteIsTrue
    <2>3. ASSUME NEW i \in 1..Len(log') PROVE log'[i] = ByteAt(i)'
      <3>0. i \in 1..r /\ i \in Nat BY <1>18
      <3>1. CASE i <= capture.retained
        <4>1. log'[i] = ByteAt(i) BY <1>4, <1>17, <1>21, <2>1, <3>0, <3>1
        <4> QED BY <1>4, <1>5, <1>11, <1>14, <1>15, <1>16, <3>0, <3>1, <4>1 DEF ByteAt
      <3>2. CASE i > capture.retained
        <4>1. log'[i] = Written + (i - capture.retained) BY <1>4, <1>21, <3>0, <3>2
        <4>2. capture.dropped => i > TailStart BY <1>4, <1>5, <2>2, <3>0, <3>2
        <4>3. capture.dropped => Written + (i - capture.retained) = Written' - r + i
          BY <1>4, <1>11, <1>16, <1>42, <3>0
        <4>4. ~capture.dropped => Written + (i - capture.retained) = i BY <1>4, <1>16, <2>2, <3>0
        <4>5. i > TailStart => ~(i <= HeadEnd) /\ ~(i <= TailStart) BY <1>5, <3>0
        <4> QED BY <1>14, <1>15, <4>1, <4>2, <4>3, <4>4, <4>5 DEF ByteAt
      <3> QED BY <1>4, <3>0, <3>1, <3>2
    <2>4. /\ capture'.dropped => capture'.retained >= TailStart' + Kept' /\ Written' + TailStart' >= HeadEnd' + capture'.retained
          /\ ~capture'.dropped => Written' = capture'.retained
      BY <1>4, <1>5, <1>11, <1>14, <1>15, <1>16, <2>2
    <2> QED BY <1>14, <1>17, <1>18, <1>22, <2>3, <2>4 DEF WriteIsTrue
  <1>24. NewestIsTrue'
    <2>1. /\ Len(capture.newest) = IF capture.retained > capacity - Kept THEN capture.retained - (capacity - Kept) ELSE 0
          /\ \A i \in 1..Len(capture.newest) :
               capture.newest[i] = Written - capture.retained + capacity - Kept + i
      BY <1>3 DEF NewestIsTrue
    <2>2. CASE capture.retained < capacity - Kept
      <3>1. Len(e) = 0 /\ r <= capacity - Kept BY <1>4, <1>5, <1>12, <1>19, <2>1, <2>2
      <3> QED BY <1>1, <1>5, <1>8, <1>14, <1>15, <3>1 DEF NewestIsTrue
    <2>3. CASE capture.retained >= capacity - Kept
      <3>0. Written' - r = Written - capture.retained BY <1>4, <1>11, <1>16
      <3>1. Len(capture.newest) = capture.retained - (capacity - Kept) BY <1>4, <1>5, <2>1, <2>3
      <3>2. Len(e) = r - (capacity - Kept) /\ r > capacity - Kept
        <4>1. JoinsTo(e, capture.newest, n, Written) BY <1>12, <2>3
        <4>2. Len(e) = Len(capture.newest) + n BY <4>1 DEF JoinsTo
        <4> QED BY <1>4, <1>5, <1>11, <1>42, <2>3, <3>1, <4>2
      <3>3. ASSUME NEW i \in 1..Len(e) PROVE e[i] = Written' - r + capacity - Kept + i
        <4>1. CASE i <= Len(capture.newest)
          <5>1. i \in 1..Len(capture.newest) BY <1>4, <4>1
          <5>2. e[i] = Written - capture.retained + capacity - Kept + i BY <1>4, <1>12, <2>1, <2>3, <4>1, <5>1, <3>2, <3>1, <1>11 DEF JoinsTo
          <5> QED BY <3>0, <5>2, Zenon
        <4>2. CASE i > Len(capture.newest)
          <5>1. e[i] = Written + (i - Len(capture.newest)) BY <1>4, <1>12, <2>3, <4>2, <3>2, <3>1, <1>11 DEF JoinsTo
          <5>2. Written + (i - Len(capture.newest)) = Written - capture.retained + capacity - Kept + i
            BY <1>4, <1>5, <1>16, <3>1
          <5> QED BY <3>0, <5>1, <5>2, Zenon
        <4> QED BY <1>4, <4>1, <4>2
      <3> QED BY <1>1, <1>14, <1>15, <3>2, <3>3 DEF NewestIsTrue
    <2> QED BY <1>4, <1>5, <2>2, <2>3
  <1>25. HeadIsTrue'
    <2>1. ASSUME r >= HeadEnd
          PROVE  Len(h) = TailStart /\ \A i \in 1..TailStart : h[i] = IF i <= HeadEnd THEN i ELSE 0
      <3>1. CASE r = HeadEnd
        <4>1. ~capture.dropped /\ Written = capture.retained BY <1>1, <1>3, <1>4, <1>5, <1>11, <3>1 DEF WriteIsTrue
        <4>2. Len(d) = HeadEnd /\ \A i \in 1..HeadEnd : d[i] = i
          <5>2. Len(d) = r /\ \A i \in 1..r : d[i] = log'[i] BY <1>18, <1>22
          <5>1. \A i \in 1..Len(log) : log[i] = i BY <1>1, <1>3, <4>1 DEF WriteIsTrue, ByteAt
          <5>3. ASSUME NEW i \in 1..r PROVE log'[i] = i
            <6>1. CASE i <= capture.retained
              <7>1. i \in 1..Len(log) BY <1>4, <1>17, <1>42, <6>1
              <7> QED BY <1>21, <5>1, <6>1, <7>1
            <6>2. CASE i > capture.retained
              <7>1. log'[i] = Written + (i - capture.retained) BY <1>4, <1>21, <1>42, <6>2
              <7>2. Written + (i - capture.retained) = i BY <1>4, <1>42, <4>1
              <7> QED BY <7>1, <7>2
            <6> QED BY <1>4, <1>42, <6>1, <6>2
          <5> QED BY <3>1, <5>2, <5>3
        <4>3. h = d \o SeamOf BY <1>13, <3>1
        <4>4. Len(h) = TailStart
          <5>1. Len(d \o SeamOf) = Len(d) + Len(SeamOf) BY <1>7, <1>8, ConcatIs
          <5> QED BY <1>5, <1>7, <4>2, <4>3, <5>1
        <4>5. ASSUME NEW i \in 1..TailStart PROVE h[i] = IF i <= HeadEnd THEN i ELSE 0
          <5>1. CASE i <= HeadEnd
            <6>1. i \in 1..Len(d) BY <1>5, <4>2, <5>1
            <6> QED BY <1>7, <1>8, <4>2, <4>3, <5>1, <6>1
          <5>2. CASE i > HeadEnd
            <6>1. i - HeadEnd \in 1..SeamBytes BY <1>5, <5>2
            <6>2. h[i] = SeamOf[i - HeadEnd] BY <1>5, <1>7, <1>8, <4>2, <4>3, <5>2, <6>1
            <6> QED BY <1>5, <1>7, <5>2, <6>1, <6>2
          <5> QED BY <1>5, <5>1, <5>2
        <4> QED BY <4>4, <4>5
      <3>2. CASE r # HeadEnd
        <4>1. capture.retained >= HeadEnd BY <1>4, <1>5, <1>8, <1>19, <2>1, <3>2
        <4> QED BY <1>3, <1>13, <3>2, <4>1 DEF HeadIsTrue
      <3> QED BY <3>1, <3>2
    <2> QED BY <1>14, <1>15, <2>1 DEF HeadIsTrue
  <1>26. MoveIsTrue' BY <1>1, <1>14 DEF MoveIsTrue
  <1> QED BY <1>1, <1>14, <1>19, <1>20, <1>23, <1>24, <1>25, <1>26 DEF LogInv

\* What a move relies on: the first half, and the newest output at the end of the full log.
BothEnds ==
    /\ Len(log) = capacity /\ capture.retained = capacity /\ Written >= HeadEnd + Kept
    /\ \A i \in 1..HeadEnd : log[i] = i
    /\ \A i \in 1..Kept : log[capacity - Kept + i] = Written - Kept + i

LEMMA FullLog ==
    ASSUME LogInv, ~capture.failed, capture.at = "write" => capture.retained = capacity
    PROVE  BothEnds /\ (capture.at = "write" => capture.moved = 0)
  <1>1. CASE capture.at # "write" BY <1>1 DEF LogInv, MoveIsTrue, BothEnds
  <1>2. CASE capture.at = "write"
    <2>1. /\ capacity \in Nat /\ HeadEnd \in Nat /\ TailStart \in Nat /\ Kept \in Nat /\ SeamBytes \in Nat
          /\ Kept > 0 /\ HeadEnd > 0 /\ TailStart = HeadEnd + SeamBytes /\ SeamBytes > 1 /\ TailStart + 2 * Kept <= capacity
      BY CapacityIs DEF LogInv, LogTypeOK
    <2>2. Written \in Nat BY CaptureFields DEF Written, LogInv, LogTypeOK
    <2>3. /\ Len(log) = capacity /\ capture.retained = capacity /\ capture.moved = 0
          /\ \A i \in 1..Len(log) : log[i] = ByteAt(i)
          /\ capture.dropped => Written + TailStart >= HeadEnd + capacity
          /\ ~capture.dropped => Written = capacity
      BY <1>2 DEF LogInv, WriteIsTrue
    <2>5. \A i \in 1..HeadEnd : log[i] = i BY <2>1, <2>3 DEF ByteAt
    <2>6. ASSUME NEW i \in 1..Kept PROVE log[capacity - Kept + i] = Written - Kept + i
      <3>1. capacity - Kept + i \in 1..Len(log) /\ ~(capacity - Kept + i <= HeadEnd) /\ ~(capacity - Kept + i <= TailStart)
        BY <2>1, <2>3
      <3>3. capture.dropped => ByteAt(capacity - Kept + i) = Written - capacity + (capacity - Kept + i)
        BY <2>3, <3>1 DEF ByteAt
      <3>4. ~capture.dropped => ByteAt(capacity - Kept + i) = capacity - Kept + i BY DEF ByteAt
      <3>5. Written - capacity + (capacity - Kept + i) = Written - Kept + i BY <2>1, <2>2
      <3> QED BY <2>3, <3>1, <3>3, <3>4, <3>5
    <2> QED BY <2>3, <2>1, <2>2, <2>5, <2>6 DEF BothEnds
  <1> QED BY <1>1, <1>2

\* One byte of a full log is written, after the first half and before the newest output.
LEMMA ByteIsPut ==
    ASSUME log \in Seq(Nat), Len(log) = capacity, NEW o \in Nat, NEW b \in Nat, o < capacity, capacity \in Nat,
           log' = PutAt(<<b>>, o)
    PROVE  /\ log' \in Seq(Nat) /\ Len(log') = capacity /\ log'[o + 1] = b
           /\ \A i \in 1..capacity : i # o + 1 => log'[i] = log[i]
  <1> DEFINE u == <<b>>
  <1>1. u \in Seq(Nat) /\ Len(u) = 1 /\ u[1] = b OBVIOUS
  <1>2. log' = PutAt(u, o) OBVIOUS
  <1> HIDE DEF u
  <1>3. /\ PutAt(u, o) \in Seq(Nat) /\ Len(PutAt(u, o)) = IF Len(log) > o + Len(u) THEN Len(log) ELSE o + Len(u)
        /\ \A i \in 1..Len(u) : PutAt(u, o)[o + i] = u[i]
        /\ \A i \in 1..Len(log) : i <= o \/ i > o + Len(u) => PutAt(u, o)[i] = log[i]
    <2>1. Len(log) >= o OBVIOUS
    <2> QED BY <1>1, <2>1, PutAtIs
  <1>4. log' \in Seq(Nat) /\ Len(log') = capacity BY <1>1, <1>2, <1>3
  <1>5. log'[o + 1] = b BY <1>1, <1>2, <1>3
  <1>6. \A i \in 1..capacity : i # o + 1 => log'[i] = log[i] BY <1>1, <1>2, <1>3
  <1> QED BY <1>4, <1>5, <1>6

\* The accounts of a capture that only moved.
LEMMA MoveKeepsAccounts ==
    ASSUME LogInv, ~capture.failed, capacity' = capacity, NEW a, NEW m, Moved(capture', capture, a, m), log' \in Seq(Nat)
    PROVE  /\ LogTypeOK' /\ NewestIsTrue' /\ HeadIsTrue' /\ capture'.retained <= capacity' /\ ~capture'.failed
           /\ capture'.at = a /\ capture'.moved = m /\ capture'.retained = capture.retained
           /\ Written' = Written /\ HeadEnd' = HeadEnd /\ TailStart' = TailStart /\ Kept' = Kept
  <1>1. /\ capture' \in Captures /\ capture'.at = a /\ capture'.moved = m
        /\ capture'.received = capture.received /\ capture'.retained = capture.retained /\ capture'.left = capture.left
        /\ capture'.newest = capture.newest /\ capture'.head = capture.head /\ capture'.failed = capture.failed
    BY DEF Moved
  <1>2. Written' = Written /\ HeadEnd' = HeadEnd /\ TailStart' = TailStart /\ Kept' = Kept
    BY <1>1 DEF Written, HeadEnd, TailStart, Kept
  <1>4. NewestIsTrue' BY <1>1, <1>2 DEF LogInv, NewestIsTrue
  <1>5. HeadIsTrue' BY <1>1, <1>2 DEF LogInv, HeadIsTrue
  <1>6. capture'.retained <= capacity' /\ ~capture'.failed BY <1>1 DEF LogInv
  <1> QED BY <1>1, <1>2, <1>4, <1>5, <1>6 DEF LogInv, LogTypeOK

LEMMA WriteSeamKeeps == ASSUME LogInv, WriteSeam PROVE LogInv'
  <1>1. \/ capture.at = "write" /\ capture.left > 0 /\ capture.retained = capacity
        \/ capture.at = "seam"
    BY DEF WriteSeam
  <1>2. /\ capture \in Captures /\ log \in Seq(Nat) /\ capacity \in LogLimits /\ capture.left \in Nat /\ capture.moved \in Nat
        /\ ~capture.failed
    BY <1>1, CaptureFields DEF LogInv, LogTypeOK
  <1>3. /\ capacity \in Nat /\ HeadEnd \in Nat /\ TailStart \in Nat /\ Kept \in Nat /\ SeamBytes \in Nat
        /\ Kept > 0 /\ HeadEnd > 0 /\ TailStart = HeadEnd + SeamBytes /\ SeamBytes > 1 /\ TailStart + 2 * Kept <= capacity
    BY <1>2, CapacityIs
  <1>4. BothEnds BY <1>1, <1>2, FullLog
  <1>5. capture.moved < SeamBytes /\ \A i \in 1..capture.moved : log[HeadEnd + i] = 0
    <2>1. CASE capture.at = "write" BY <1>2, <1>1, <1>3, <2>1, FullLog
    <2>2. CASE capture.at = "seam" BY <1>2, <2>2 DEF LogInv, MoveIsTrue
    <2> QED BY <1>1, <2>1, <2>2
  <1> DEFINE o == HeadEnd + capture.moved
             a == IF capture.moved + 1 = SeamBytes THEN "move" ELSE "seam"
             m == IF capture.moved + 1 = SeamBytes THEN 0 ELSE capture.moved + 1
  <1>6. log' = PutAt(<<0>>, o) /\ capacity' = capacity BY DEF WriteSeam
  <1>7. o \in Nat /\ o < capacity /\ 0 \in Nat BY <1>2, <1>3, <1>5
  <1> HIDE DEF o
  <1>8. /\ log' \in Seq(Nat) /\ Len(log') = capacity /\ log'[o + 1] = 0
        /\ \A i \in 1..capacity : i # o + 1 => log'[i] = log[i]
    BY <1>2, <1>3, <1>4, <1>6, <1>7, ByteIsPut DEF BothEnds
  <1>9. capture' = [capture EXCEPT !.at = a, !.moved = m] BY DEF WriteSeam, MoveOn, AfterSeam
  <1>10. a \in CapturePlaces /\ m \in Nat /\ a # "write" BY <1>2 DEF CapturePlaces
  <1>11. \/ capture.moved + 1 = SeamBytes /\ a = "move" /\ m = 0
         \/ capture.moved + 1 # SeamBytes /\ a = "seam" /\ m = capture.moved + 1
    OBVIOUS
  <1> HIDE DEF a, m
  <1>12. Moved(capture', capture, a, m) BY <1>2, <1>9, <1>10, MoveSets, Zenon
  <1>13. /\ LogTypeOK' /\ NewestIsTrue' /\ HeadIsTrue' /\ capture'.retained <= capacity' /\ ~capture'.failed
         /\ capture'.at = a /\ capture'.moved = m /\ capture'.retained = capture.retained
         /\ Written' = Written /\ HeadEnd' = HeadEnd /\ TailStart' = TailStart /\ Kept' = Kept
    BY <1>2, <1>6, <1>8, <1>12, MoveKeepsAccounts
  <1>15. MoveIsTrue'
    <2>1. \A i \in 1..HeadEnd : log'[i] = i
      <3> SUFFICES ASSUME NEW i \in 1..HeadEnd PROVE log'[i] = i OBVIOUS
      <3>1. i \in 1..capacity /\ i # o + 1 BY <1>2, <1>3 DEF o
      <3> QED BY <1>4, <1>8, <3>1 DEF BothEnds
    <2>2. \A i \in 1..Kept : log'[capacity - Kept + i] = Written - Kept + i
      <3> SUFFICES ASSUME NEW i \in 1..Kept PROVE log'[capacity - Kept + i] = Written - Kept + i OBVIOUS
      <3>1. capacity - Kept + i \in 1..capacity /\ capacity - Kept + i # o + 1 BY <1>2, <1>3, <1>5 DEF o
      <3> QED BY <1>4, <1>8, <3>1 DEF BothEnds
    <2>3. \A i \in 1..capture.moved + 1 : log'[HeadEnd + i] = 0
      <3> SUFFICES ASSUME NEW i \in 1..capture.moved + 1 PROVE log'[HeadEnd + i] = 0 OBVIOUS
      <3>1. CASE i = capture.moved + 1
        <4>1. HeadEnd + i = o + 1 BY <1>2, <1>3, <3>1 DEF o
        <4> QED BY <1>8, <4>1
      <3>2. CASE i # capture.moved + 1
        <4>1. HeadEnd + i \in 1..capacity /\ HeadEnd + i # o + 1 /\ i \in 1..capture.moved
          BY <1>2, <1>3, <1>5, <3>2 DEF o
        <4> QED BY <1>5, <1>8, <4>1
      <3> QED BY <3>1, <3>2
    <2>4. a = "seam" => m < SeamBytes /\ \A i \in 1..m : log'[HeadEnd + i] = 0 BY <1>2, <1>3, <1>5, <1>11, <2>3
    <2>5. a # "seam" => a = "move" /\ m = 0 /\ \A i \in 1..SeamBytes : log'[HeadEnd + i] = 0 BY <1>11, <2>3
    <2>6. capture'.at # "cut" /\ (capture'.at = "move" => capture'.moved = 0) BY <1>11, <1>13
    <2>7. /\ Len(log') = capacity' /\ capture'.retained = capacity' /\ Written' >= HeadEnd' + Kept'
          /\ \A i \in 1..HeadEnd' : log'[i] = i
          /\ \A i \in 1..Kept' : log'[capacity' - Kept' + i] = Written' - Kept' + i
      BY <1>4, <1>6, <1>8, <1>13, <2>1, <2>2 DEF BothEnds
    <2>8. /\ capture'.at = "seam" => capture'.moved < SeamBytes /\ \A i \in 1..capture'.moved : log'[HeadEnd' + i] = 0
          /\ capture'.at # "seam" => \A i \in 1..SeamBytes : log'[HeadEnd' + i] = 0
      BY <1>13, <2>4, <2>5
    <2> QED BY <2>6, <2>7, <2>8, <1>3, <1>13 DEF MoveIsTrue
  <1> QED BY <1>13, <1>10, <1>15 DEF LogInv, WriteIsTrue

LEMMA MoveNewestKeeps == ASSUME LogInv, MoveNewest PROVE LogInv'
  <1>1. capture.at = "move" BY DEF MoveNewest
  <1>2. /\ capture \in Captures /\ log \in Seq(Nat) /\ capacity \in LogLimits /\ capture.moved \in Nat /\ ~capture.failed
        /\ capture.received \in Nat /\ capture.left \in Nat /\ capture.left <= capture.received
    BY <1>1, CaptureFields DEF LogInv, LogTypeOK
  <1>3. /\ capacity \in Nat /\ HeadEnd \in Nat /\ TailStart \in Nat /\ Kept \in Nat /\ SeamBytes \in Nat
        /\ Kept > 0 /\ HeadEnd > 0 /\ TailStart = HeadEnd + SeamBytes /\ SeamBytes > 1 /\ TailStart + 2 * Kept <= capacity
    BY <1>2, CapacityIs
  <1>4. BothEnds BY <1>1, <1>2, FullLog
  <1>5. /\ capture.moved < Kept /\ \A i \in 1..capture.moved : log[TailStart + i] = Written - Kept + i
        /\ \A i \in 1..SeamBytes : log[HeadEnd + i] = 0
    BY <1>1, <1>2 DEF LogInv, MoveIsTrue
  <1>6. Len(capture.newest) = Kept /\ \A i \in 1..Kept : capture.newest[i] = Written - Kept + i
    <2>1. capture.retained = capacity BY <1>4 DEF BothEnds
    <2>2. NewestIsTrue BY <1>2 DEF LogInv
    <2>3. Len(capture.newest) = Kept BY <1>3, <2>1, <2>2 DEF NewestIsTrue
    <2>4. \A i \in 1..Kept : Written - capacity + capacity - Kept + i = Written - Kept + i BY <1>2, <1>3 DEF Written
    <2> QED BY <2>1, <2>2, <2>3, <2>4 DEF NewestIsTrue
  <1> DEFINE o == TailStart + capture.moved
             b == capture.newest[capture.moved + 1]
             a == IF capture.moved + 1 = Kept THEN "cut" ELSE "move"
             m == IF capture.moved + 1 = Kept THEN 0 ELSE capture.moved + 1
  <1>7. log' = PutAt(<<b>>, o) /\ capacity' = capacity BY DEF MoveNewest
  <1>8. b = Written - Kept + (capture.moved + 1) /\ b \in Nat
    <2>0. Written \in Nat BY <1>2 DEF Written
    <2>1. Written \in Nat /\ Written >= Kept BY <2>0, <1>3, <1>4 DEF BothEnds
    <2>2. capture.moved + 1 \in 1..Kept BY <1>2, <1>3, <1>5
    <2>3. b = Written - Kept + (capture.moved + 1) BY <1>6, <2>2
    <2> QED BY <1>2, <1>3, <2>1, <2>3
  <1>9. o \in Nat /\ o < capacity BY <1>2, <1>3, <1>5
  <1> HIDE DEF o, b
  <1>10. /\ log' \in Seq(Nat) /\ Len(log') = capacity /\ log'[o + 1] = b
         /\ \A i \in 1..capacity : i # o + 1 => log'[i] = log[i]
    BY <1>2, <1>3, <1>4, <1>7, <1>8, <1>9, ByteIsPut DEF BothEnds
  <1>11. capture' = [capture EXCEPT !.at = a, !.moved = m]
    <2>1. CASE capture.moved + 1 = Kept
      <3>1. capture' = [capture EXCEPT !.at = "cut", !.moved = 0] BY <1>6, <2>1 DEF MoveNewest, MoveOn
      <3> QED BY <2>1, <3>1
    <2>2. CASE capture.moved + 1 # Kept
      <3>1. capture' = [capture EXCEPT !.moved = @ + 1] BY <1>6, <2>2 DEF MoveNewest
      <3>2. [capture EXCEPT !.moved = @ + 1] = [capture EXCEPT !.at = "move", !.moved = capture.moved + 1]
        BY <1>1, <1>2 DEF Captures
      <3> QED BY <2>2, <3>1, <3>2
    <2> QED BY <2>1, <2>2
  <1>12. a \in CapturePlaces /\ m \in Nat /\ a \notin {"write", "seam"} BY <1>2 DEF CapturePlaces
  <1>13. \/ capture.moved + 1 = Kept /\ a = "cut" /\ m = 0
         \/ capture.moved + 1 # Kept /\ a = "move" /\ m = capture.moved + 1
    OBVIOUS
  <1> HIDE DEF a, m
  <1>14. Moved(capture', capture, a, m) BY <1>2, <1>11, <1>12, MoveSets, Zenon
  <1>15. /\ LogTypeOK' /\ NewestIsTrue' /\ HeadIsTrue' /\ capture'.retained <= capacity' /\ ~capture'.failed
         /\ capture'.at = a /\ capture'.moved = m /\ capture'.retained = capture.retained
         /\ Written' = Written /\ HeadEnd' = HeadEnd /\ TailStart' = TailStart /\ Kept' = Kept
    BY <1>2, <1>7, <1>10, <1>14, MoveKeepsAccounts
  <1>16. WriteIsTrue' BY <1>12, <1>15 DEF WriteIsTrue
  <1>17. MoveIsTrue'
    <2>1. \A i \in 1..HeadEnd : log'[i] = i
      <3> SUFFICES ASSUME NEW i \in 1..HeadEnd PROVE log'[i] = i OBVIOUS
      <3>1. i \in 1..capacity /\ i # o + 1 BY <1>2, <1>3 DEF o
      <3> QED BY <1>4, <1>10, <3>1 DEF BothEnds
    <2>2. \A i \in 1..Kept : log'[capacity - Kept + i] = Written - Kept + i
      <3> SUFFICES ASSUME NEW i \in 1..Kept PROVE log'[capacity - Kept + i] = Written - Kept + i OBVIOUS
      <3>1. capacity - Kept + i \in 1..capacity /\ capacity - Kept + i # o + 1 BY <1>2, <1>3, <1>5 DEF o
      <3> QED BY <1>4, <1>10, <3>1 DEF BothEnds
    <2>3. \A i \in 1..SeamBytes : log'[HeadEnd + i] = 0
      <3> SUFFICES ASSUME NEW i \in 1..SeamBytes PROVE log'[HeadEnd + i] = 0 OBVIOUS
      <3>1. HeadEnd + i \in 1..capacity /\ HeadEnd + i # o + 1 BY <1>2, <1>3 DEF o
      <3> QED BY <1>5, <1>10, <3>1
    <2>4. \A i \in 1..capture.moved + 1 : log'[TailStart + i] = Written - Kept + i
      <3> SUFFICES ASSUME NEW i \in 1..capture.moved + 1 PROVE log'[TailStart + i] = Written - Kept + i OBVIOUS
      <3>1. CASE i = capture.moved + 1
        <4>1. TailStart + i = o + 1 BY <1>2, <1>3, <3>1 DEF o
        <4> QED BY <1>8, <1>10, <3>1, <4>1
      <3>2. CASE i # capture.moved + 1
        <4>1. TailStart + i \in 1..capacity /\ TailStart + i # o + 1 /\ i \in 1..capture.moved
          BY <1>2, <1>3, <1>5, <3>2 DEF o
        <4> QED BY <1>5, <1>10, <4>1
      <3> QED BY <3>1, <3>2
    <2>5. a = "move" => m < Kept /\ \A i \in 1..m : log'[TailStart + i] = Written - Kept + i
      BY <1>2, <1>3, <1>5, <1>13, <2>4
    <2>6. a = "cut" => \A i \in 1..Kept : log'[TailStart + i] = Written - Kept + i BY <1>13, <2>4
    <2> QED BY <1>4, <1>7, <1>10, <1>12, <1>15, <2>1, <2>2, <2>3, <2>5, <2>6 DEF MoveIsTrue, BothEnds
  <1> QED BY <1>15, <1>16, <1>17 DEF LogInv

LEMMA CutLogKeeps == ASSUME LogInv, CutLog PROVE LogInv'
  <1>1. capture.at = "cut" /\ log' = SubSeq(log, 1, TailStart + Kept) /\ capacity' = capacity BY DEF CutLog
  <1>2. /\ capture \in Captures /\ log \in Seq(Nat) /\ capacity \in LogLimits /\ ~capture.failed
        /\ capture.received \in Nat /\ capture.left \in Nat /\ capture.left <= capture.received
    BY <1>1, CaptureFields DEF LogInv, LogTypeOK
  <1>20. capture.head \in Seq(Nat) /\ capture.newest \in Seq(Nat) BY <1>2, CaptureFields
  <1>3. /\ capacity \in Nat /\ HeadEnd \in Nat /\ TailStart \in Nat /\ Kept \in Nat /\ SeamBytes \in Nat
        /\ Kept > 0 /\ HeadEnd > 0 /\ TailStart = HeadEnd + SeamBytes /\ SeamBytes > 1 /\ TailStart + 2 * Kept <= capacity
    BY <1>2, CapacityIs
  <1>4. BothEnds BY <1>1, <1>2, FullLog
  <1>5. /\ \A i \in 1..Kept : log[TailStart + i] = Written - Kept + i
        /\ \A i \in 1..SeamBytes : log[HeadEnd + i] = 0
    BY <1>1, <1>2 DEF LogInv, MoveIsTrue
  <1>6. Written \in Nat BY <1>2 DEF Written
  <1>7. Len(capture.newest) = Kept /\ \A i \in 1..Kept : capture.newest[i] = Written - Kept + i
    <2>1. capture.retained = capacity BY <1>4 DEF BothEnds
    <2>2. NewestIsTrue BY <1>2 DEF LogInv
    <2>3. Len(capture.newest) = Kept BY <1>3, <2>1, <2>2 DEF NewestIsTrue
    <2>4. \A i \in 1..Kept : Written - capacity + capacity - Kept + i = Written - Kept + i BY <1>3, <1>6
    <2> QED BY <2>1, <2>2, <2>3, <2>4 DEF NewestIsTrue
  <1>8. Len(capture.head) = TailStart /\ \A i \in 1..TailStart : capture.head[i] = IF i <= HeadEnd THEN i ELSE 0
    <2>1. HeadIsTrue /\ capture.retained >= HeadEnd BY <1>2, <1>3, <1>4 DEF LogInv, BothEnds
    <2> QED BY <2>1 DEF HeadIsTrue
  <1> DEFINE r == TailStart + Kept
             d == capture.head \o capture.newest
  <1>9. r \in Nat /\ r = TailStart + Kept /\ r <= capacity BY <1>3
  <1>10. /\ d \in Seq(Nat) /\ Len(d) = Len(capture.head) + Len(capture.newest)
         /\ \A i \in 1..(Len(capture.head) + Len(capture.newest)) :
               d[i] = IF i <= Len(capture.head) THEN capture.head[i] ELSE capture.newest[i - Len(capture.head)]
    BY <1>20, ConcatIs
  <1>11. capture' = [capture EXCEPT !.at = "write", !.moved = 0, !.retained = r, !.dropped = TRUE,
                                    !.digest = d, !.newest = <<>>]
    BY DEF CutLog, DigestOfMoved
  <1>12. log' \in Seq(Nat) /\ Len(log') = r /\ \A i \in 1..r : log'[i] = log[i]
    <2>1. Len(log) = capacity BY <1>4 DEF BothEnds
    <2>2. log' = SubSeq(log, 1, r) BY <1>1
    <2> HIDE DEF r
    <2> QED BY <1>2, <1>3, <1>9, <2>1, <2>2
  <1> HIDE DEF r, d
  <1>13. WasCut(capture', capture, r, d) BY <1>2, <1>9, <1>10, <1>11, CutSets, Zenon
  <1>14. /\ capture' \in Captures /\ capture'.at = "write" /\ capture'.moved = 0 /\ capture'.retained = r
         /\ capture'.dropped /\ capture'.digest = d /\ capture'.newest = <<>>
         /\ capture'.received = capture.received /\ capture'.left = capture.left /\ capture'.head = capture.head
         /\ ~capture'.failed
    BY <1>2, <1>13 DEF WasCut
  <1>15. HeadEnd' = HeadEnd /\ TailStart' = TailStart /\ Kept' = Kept /\ Written' = Written
    BY <1>1, <1>14 DEF HeadEnd, TailStart, Kept, Written
  <1>16. \A i \in 1..r : log'[i] = IF i <= HeadEnd THEN i ELSE IF i <= TailStart THEN 0 ELSE Written - r + i
    <2> SUFFICES ASSUME NEW i \in 1..r
                 PROVE  log[i] = IF i <= HeadEnd THEN i ELSE IF i <= TailStart THEN 0 ELSE Written - r + i
      BY <1>12
    <2>1. CASE i <= HeadEnd BY <1>3, <1>4, <1>9, <2>1 DEF BothEnds
    <2>2. CASE i > HeadEnd /\ i <= TailStart
      <3>1. i - HeadEnd \in 1..SeamBytes /\ HeadEnd + (i - HeadEnd) = i BY <1>3, <1>9, <2>2
      <3>2. log[i] = 0 BY <1>5, <3>1
      <3> QED BY <1>3, <1>9, <2>2, <3>2
    <2>3. CASE i > TailStart
      <3>1. i - TailStart \in 1..Kept /\ TailStart + (i - TailStart) = i BY <1>3, <1>9, <2>3
      <3>2. log[i] = Written - Kept + (i - TailStart) BY <1>5, <3>1
      <3>3. Written - Kept + (i - TailStart) = Written - r + i BY <1>3, <1>6, <1>9
      <3>4. ~(i <= HeadEnd) /\ ~(i <= TailStart) BY <1>3, <1>9, <2>3
      <3> QED BY <3>2, <3>3, <3>4
    <2> QED BY <1>3, <1>9, <2>1, <2>2, <2>3
  <1>17. log' = d
    <2>1. Len(d) = r BY <1>7, <1>8, <1>9, <1>10
    <2>2. \A i \in 1..r : log'[i] = d[i]
      <3> SUFFICES ASSUME NEW i \in 1..r PROVE log'[i] = d[i] OBVIOUS
      <3>1. CASE i <= TailStart
        <4>1. d[i] = capture.head[i] BY <1>3, <1>7, <1>8, <1>9, <1>10, <3>1
        <4>2. capture.head[i] = IF i <= HeadEnd THEN i ELSE 0 BY <1>3, <1>8, <1>9, <3>1
        <4> QED BY <1>16, <3>1, <4>1, <4>2
      <3>2. CASE i > TailStart
        <4>1. i - TailStart \in 1..Kept /\ ~(i <= TailStart) /\ ~(i <= HeadEnd) BY <1>3, <1>9, <3>2
        <4>2. d[i] = capture.newest[i - TailStart] BY <1>3, <1>7, <1>8, <1>9, <1>10, <4>1
        <4>3. d[i] = Written - Kept + (i - TailStart) BY <1>7, <4>1, <4>2
        <4>4. Written - Kept + (i - TailStart) = Written - r + i BY <1>3, <1>6, <1>9
        <4> QED BY <1>16, <4>1, <4>3, <4>4
      <3> QED BY <1>3, <1>9, <3>1, <3>2
    <2> QED BY <1>10, <1>12, <2>1, <2>2, SameSequence
  <1>18. WriteIsTrue'
    <2>1. \A i \in 1..r : log'[i] = ByteAt(i)' BY <1>14, <1>15, <1>16 DEF ByteAt
    <2>2. Written + TailStart >= HeadEnd + r BY <1>3, <1>4, <1>6, <1>9 DEF BothEnds
    <2> QED BY <1>9, <1>12, <1>14, <1>15, <1>17, <2>1, <2>2 DEF WriteIsTrue
  <1>19. NewestIsTrue'
    <2>1. ~(r > capacity - Kept) BY <1>3, <1>9
    <2> QED BY <1>1, <1>14, <1>15, <2>1 DEF NewestIsTrue
  <1>21. HeadIsTrue' BY <1>8, <1>14, <1>15 DEF HeadIsTrue
  <1>22. MoveIsTrue' BY <1>14 DEF MoveIsTrue
  <1>23. LogTypeOK' BY <1>1, <1>2, <1>12, <1>14 DEF LogTypeOK
  <1> QED BY <1>1, <1>9, <1>14, <1>18, <1>19, <1>21, <1>22, <1>23 DEF LogInv

LEMMA WriteFailsKeeps == ASSUME LogInv, WriteFails PROVE LogInv'
  <1>1. capture' = [capture EXCEPT !.at = "write", !.failed = TRUE, !.left = 0] /\ UNCHANGED <<log, capacity>>
    BY DEF WriteFails
  <1>2. capture \in Captures BY DEF LogInv, LogTypeOK
  <1>3. HasFailed(capture', capture) BY <1>1, <1>2, FailSets, Zenon
  <1>5. LogTypeOK' BY <1>1, <1>3, <1>2, CaptureFields DEF HasFailed, LogInv, LogTypeOK
  <1> QED BY <1>3, <1>5 DEF HasFailed, LogInv

LEMMA LogStarts == LogInit => LogInv
  <1> SUFFICES ASSUME LogInit PROVE LogInv OBVIOUS
  <1>1. capacity \in LogLimits /\ log = <<>> BY DEF LogInit
  <1>2. capture = [at |-> "write", received |-> 0, retained |-> 0, left |-> 0, moved |-> 0, newest |-> <<>>,
                   digest |-> <<>>, head |-> <<>>, dropped |-> FALSE, failed |-> FALSE]
    BY DEF LogInit
  <1>3. /\ capacity \in Nat /\ HeadEnd \in Nat /\ TailStart \in Nat /\ Kept \in Nat /\ SeamBytes \in Nat
        /\ Kept > 0 /\ HeadEnd > 0 /\ TailStart = HeadEnd + SeamBytes /\ SeamBytes > 1 /\ TailStart + 2 * Kept <= capacity
    BY <1>1, CapacityIs
  <1>4. "write" \in CapturePlaces /\ <<>> \in Seq(Nat) /\ 0 \in Nat BY DEF CapturePlaces
  <1>6. /\ capture.at = "write" /\ capture.received = 0 /\ capture.retained = 0 /\ capture.left = 0 /\ capture.moved = 0
        /\ capture.newest = <<>> /\ capture.digest = <<>> /\ ~capture.dropped /\ ~capture.failed
    BY <1>2
  <1>7. LogTypeOK BY <1>1, <1>4, <1>2, <1>6 DEF LogTypeOK, Captures
  <1>9. WriteIsTrue BY <1>1, <1>6 DEF WriteIsTrue, Written
  <1>10. NewestIsTrue BY <1>3, <1>6 DEF NewestIsTrue
  <1>11. HeadIsTrue BY <1>3, <1>6 DEF HeadIsTrue
  <1> QED BY <1>3, <1>6, <1>7, <1>9, <1>10, <1>11 DEF LogInv, MoveIsTrue

LEMMA LogStep == LogInv /\ [LogNext]_logVars => LogInv'
  <1> SUFFICES ASSUME LogInv, [LogNext]_logVars PROVE LogInv' OBVIOUS
  <1>1. CASE LogNext
    BY <1>1, PushKeeps, WriteOutputKeeps, WriteSeamKeeps, MoveNewestKeeps, CutLogKeeps, WriteFailsKeeps DEF LogNext
  <1>2. CASE UNCHANGED logVars
    BY <1>2 DEF logVars, LogInv, LogTypeOK, WriteIsTrue, MoveIsTrue, NewestIsTrue, HeadIsTrue, ByteAt, Written,
                HeadEnd, TailStart, Kept
  <1> QED BY <1>1, <1>2

------------
\* What the log says, from the invariant.
RunsFrom(s, k, m, v) == \A i \in 1..m : s[k + i] = v + i
IsRun(s, k, m, v) == SubSeq(s, k + 1, k + m) = [i \in 1..m |-> v + i]
LEMMA EndOfLog ==
    ASSUME NEW s \in Seq(Nat), NEW k \in Nat, NEW m \in Nat, NEW v \in Int, k + m <= Len(s),
           RunsFrom(s, k, m, v)
    PROVE  IsRun(s, k, m, v)
  <1> DEFINE t == SubSeq(s, k + 1, k + m)
  <1>3. \A i \in 1..m : t[i] = v + i BY DEF RunsFrom
  <1>4. t = [i \in 1..m |-> t[i]] OBVIOUS
  <1> HIDE DEF t
  <1> QED BY <1>4, <1>3 DEF t, IsRun

\* The byte at a place of a log that is not being moved.
LEMMA LogBytes ==
    ASSUME LogInv, ~capture.failed, capture.at = "write"
    PROVE  /\ Len(log) = capture.retained /\ log = capture.digest /\ Written \in Nat
           /\ ~capture.dropped => Written = capture.retained /\ \A i \in 1..Len(log) : log[i] = i
           /\ capture.dropped =>
                /\ capture.retained >= TailStart + Kept /\ Written + TailStart >= HeadEnd + capture.retained
                /\ \A i \in 1..HeadEnd : log[i] = i
                /\ \A i \in 1..SeamBytes : log[HeadEnd + i] = 0
                /\ \A i \in TailStart + 1..Len(log) : log[i] = Written - capture.retained + i
  <1>1. LogTypeOK /\ WriteIsTrue BY DEF LogInv
  <1>2. capture \in Captures /\ capture.received \in Nat /\ capture.left \in Nat /\ capture.left <= capture.received
        /\ capture.retained \in Nat /\ capture.dropped \in BOOLEAN
    BY <1>1, CaptureFields DEF LogTypeOK
  <1>4. /\ HeadEnd \in Nat /\ TailStart \in Nat /\ Kept \in Nat /\ SeamBytes \in Nat /\ TailStart = HeadEnd + SeamBytes
    BY <1>1, CapacityIs DEF LogTypeOK
  <1>5. /\ Len(log) = capture.retained /\ log = capture.digest
        /\ \A i \in 1..Len(log) : log[i] = ByteAt(i)
    BY <1>1 DEF WriteIsTrue
  <1>6. ~capture.dropped => Written = capture.retained /\ \A i \in 1..Len(log) : log[i] = i
    <2>2. ~capture.dropped => \A i \in 1..Len(log) : log[i] = i BY <1>5 DEF ByteAt
    <2> QED BY <1>1, <2>2 DEF WriteIsTrue
  <1>7. ASSUME capture.dropped
        PROVE /\ capture.retained >= TailStart + Kept /\ Written + TailStart >= HeadEnd + capture.retained
              /\ \A i \in 1..HeadEnd : log[i] = i
              /\ \A i \in 1..SeamBytes : log[HeadEnd + i] = 0
              /\ \A i \in TailStart + 1..Len(log) : log[i] = Written - capture.retained + i
    <2>1. capture.retained >= TailStart + Kept /\ Written + TailStart >= HeadEnd + capture.retained
      BY <1>1, <1>7 DEF WriteIsTrue
    <2>2. \A i \in 1..HeadEnd : log[i] = i
      <3> TAKE i \in 1..HeadEnd
      <3>2. ByteAt(i) = i BY DEF ByteAt
      <3> QED BY <1>5, <1>2, <1>4, <2>1, <3>2
    <2>3. \A i \in 1..SeamBytes : log[HeadEnd + i] = 0
      <3> TAKE i \in 1..SeamBytes
      <3>1. HeadEnd + i \in 1..Len(log) /\ ~(HeadEnd + i <= HeadEnd) /\ HeadEnd + i <= TailStart BY <1>2, <1>4, <1>5, <2>1
      <3> QED BY <1>5, <3>1, <1>7 DEF ByteAt
    <2>4. \A i \in TailStart + 1..Len(log) : log[i] = Written - capture.retained + i
      <3> TAKE i \in TailStart + 1..Len(log)
      <3>1. i \in 1..Len(log) /\ ~(i <= HeadEnd) /\ ~(i <= TailStart) BY <1>2, <1>4, <1>5, <2>1
      <3> QED BY <1>5, <3>1, <1>7 DEF ByteAt
    <2> QED BY <2>1, <2>2, <2>3, <2>4
  <1> QED BY <1>2, <1>5, <1>6, <1>7 DEF Written

LEMMA EndFollows == LogInv => EndIsThere
  <1> SUFFICES ASSUME LogInv, ~capture.failed
               PROVE  LET end == IF Written < Kept THEN Written ELSE Kept
                          start == IF Written < HeadEnd THEN Written ELSE HeadEnd
                      IN  /\ SubSeq(log, Len(log) - end + 1, Len(log)) = [i \in 1..end |-> Written - end + i]
                          /\ SubSeq(log, 1, start) = [i \in 1..start |-> i]
    BY DEF EndIsThere
  <1> DEFINE end == IF Written < Kept THEN Written ELSE Kept
             start == IF Written < HeadEnd THEN Written ELSE HeadEnd
  <1>1. LogTypeOK /\ log \in Seq(Nat) BY DEF LogInv, LogTypeOK
  <1>2. /\ capture.at \in CapturePlaces /\ capture.received \in Nat /\ capture.left \in Nat
        /\ capture.retained \in Nat /\ capture.left <= capture.received /\ capture.dropped \in BOOLEAN
    BY <1>1, CaptureFields DEF LogTypeOK
  <1>3. Written \in Nat BY <1>2 DEF Written
  <1>4. /\ HeadEnd \in Nat /\ TailStart \in Nat /\ Kept \in Nat /\ SeamBytes \in Nat /\ TailStart = HeadEnd + SeamBytes
        /\ TailStart + 2 * Kept <= capacity /\ capacity \in Nat
    BY <1>1, CapacityIs DEF LogTypeOK
  <1>5. end \in Nat /\ start \in Nat /\ end <= Kept /\ end <= Written /\ start <= HeadEnd /\ start <= Written
    BY <1>3, <1>4
  <1>6. Len(log) \in Nat BY <1>1
  <1>7. end <= Len(log) /\ \A i \in 1..end : log[Len(log) - end + i] = Written - end + i
    <2>1. CASE capture.at = "write" /\ ~capture.dropped
      <3>1. Len(log) = Written /\ \A i \in 1..Len(log) : log[i] = i BY <2>1, LogBytes
      <3> QED BY <1>5, <1>6, <3>1
    <2>2. CASE capture.at = "write" /\ capture.dropped
      <3>1. /\ Len(log) = capture.retained /\ capture.retained >= TailStart + Kept
            /\ \A i \in TailStart + 1..Len(log) : log[i] = Written - capture.retained + i
        BY <2>2, LogBytes
      <3>2. \A i \in 1..end : Len(log) - end + i \in TailStart + 1..Len(log) BY <1>4, <1>5, <1>6, <3>1
      <3>3. \A i \in 1..end : Written - capture.retained + (Len(log) - end + i) = Written - end + i
        BY <1>2, <1>3, <1>5, <1>6, <3>1
      <3>5. \A i \in 1..end : log[Len(log) - end + i] = Written - end + i
        <4> HIDE DEF end
        <4> QED BY <3>1, <3>2, <3>3
      <3> QED BY <1>2, <1>4, <1>5, <3>1, <3>5
    <2>3. CASE capture.at # "write"
      <3>1. Len(log) = capacity /\ Written >= HeadEnd + Kept
            /\ \A i \in 1..Kept : log[capacity - Kept + i] = Written - Kept + i
        BY <2>3 DEF LogInv, MoveIsTrue
      <3>2. end = Kept BY <1>3, <1>4, <3>1
      <3> QED BY <1>4, <3>1, <3>2
    <2> QED BY <1>2, <2>1, <2>2, <2>3
  <1>8. start <= Len(log) /\ \A i \in 1..start : log[i] = i
    <2>1. CASE capture.at = "write" /\ ~capture.dropped
      <3> QED BY <1>5, <1>6, <2>1, LogBytes
    <2>2. CASE capture.at = "write" /\ capture.dropped
      <3> QED BY <1>2, <1>4, <1>5, <2>2, LogBytes
    <2>3. CASE capture.at # "write"
      <3> QED BY <1>4, <1>5, <2>3 DEF LogInv, MoveIsTrue
    <2> QED BY <1>2, <2>1, <2>2, <2>3
  <1>9. SubSeq(log, Len(log) - end + 1, Len(log)) = [i \in 1..end |-> Written - end + i]
    <2> HIDE DEF end
    <2>1. Len(log) - end \in Nat /\ Len(log) - end + end = Len(log) /\ Written - end \in Int BY <1>3, <1>5, <1>6, <1>7
    <2>3. RunsFrom(log, Len(log) - end, end, Written - end) BY <1>7 DEF RunsFrom
    <2>4. IsRun(log, Len(log) - end, end, Written - end) BY <1>1, <1>5, <2>1, <1>6, <2>3, EndOfLog
    <2> QED BY <2>1, <2>4 DEF IsRun
  <1>10. SubSeq(log, 1, start) = [i \in 1..start |-> i]
    <2> HIDE DEF start
    <2>3. RunsFrom(log, 0, start, 0) BY <1>5, <1>8 DEF RunsFrom
    <2>5. IsRun(log, 0, start, 0) BY <1>1, <1>5, <1>6, <1>8, <2>3, EndOfLog
    <2> QED BY <1>5, <2>5 DEF IsRun
  <1> QED BY <1>9, <1>10

LEMMA AccountFollows == LogInv => LogIsAccounted
  <1> SUFFICES ASSUME LogInv, capture.at = "write", capture.left = 0, ~capture.failed
               PROVE  /\ log = capture.digest /\ Len(log) = capture.retained /\ Len(log) <= capacity
                      /\ LET dropped == capture.received - (capture.retained - IF capture.dropped THEN SeamBytes ELSE 0)
                         IN  dropped = Cardinality({b \in 1..capture.received : b \notin ToSet(log)})
    BY DEF LogIsAccounted
  <1> DEFINE missing == {b \in 1..capture.received : b \notin ToSet(log)}
  <1>1. LogTypeOK /\ log \in Seq(Nat) /\ capture.retained <= capacity BY DEF LogInv, LogTypeOK
  <1>2. capture.received \in Nat /\ capture.retained \in Nat /\ capture.dropped \in BOOLEAN
    BY <1>1, CaptureFields DEF LogTypeOK
  <1>3. Written = capture.received BY <1>2 DEF Written
  <1>4. /\ HeadEnd \in Nat /\ TailStart \in Nat /\ Kept \in Nat /\ SeamBytes \in Nat /\ TailStart = HeadEnd + SeamBytes
    BY <1>1, CapacityIs DEF LogTypeOK
  <1>5. log = capture.digest /\ Len(log) = capture.retained /\ Len(log) <= capacity BY <1>1, LogBytes
  <1>6. \A b : b \in ToSet(log) <=> \E i \in 1..Len(log) : b = log[i] BY <1>1 DEF ToSet
  <1>7. CASE ~capture.dropped
    <2>1. capture.received = capture.retained /\ \A i \in 1..Len(log) : log[i] = i BY <1>3, <1>7, LogBytes
    <2>2. \A b \in 1..capture.received : b \in ToSet(log)
      <3> TAKE b \in 1..capture.received
      <3> QED BY <1>6, <1>5, <2>1
    <2>4. Cardinality(missing) = 0 BY <2>2, FS_EmptySet
    <2> QED BY <1>5, <1>7, <2>4, <1>2, <2>1
  <1>8. CASE capture.dropped
    <2> DEFINE last == capture.received - capture.retained + TailStart
    <2>1. /\ capture.retained >= TailStart + Kept /\ capture.received + TailStart >= HeadEnd + capture.retained
          /\ \A i \in 1..HeadEnd : log[i] = i
          /\ \A i \in 1..SeamBytes : log[HeadEnd + i] = 0
          /\ \A i \in TailStart + 1..Len(log) : log[i] = capture.received - capture.retained + i
      BY <1>3, <1>8, LogBytes
    <2>2. last \in Nat /\ last >= HeadEnd /\ last <= capture.received BY <1>2, <1>4, <2>1
    <2>3. \A b \in 1..HeadEnd : b \in ToSet(log)
      <3> TAKE b \in 1..HeadEnd
      <3>1. b \in 1..Len(log) /\ log[b] = b BY <1>2, <1>4, <1>5, <2>1
      <3> QED BY <1>6, <3>1
    <2>4. \A b \in last + 1..capture.received : b \in ToSet(log)
      <3> TAKE b \in last + 1..capture.received
      <3> DEFINE i == b - capture.received + capture.retained
      <3>3. b \in Int /\ b > last /\ b <= capture.received BY <1>2, <2>2
      <3>4. i \in Int /\ i > TailStart /\ i <= capture.retained BY <1>2, <1>4, <3>3
      <3>5. capture.received - capture.retained + i = b BY <1>2, <3>3
      <3> HIDE DEF i, last
      <3>1. i \in TailStart + 1..Len(log) /\ i \in 1..Len(log) /\ capture.received - capture.retained + i = b
        BY <1>2, <1>4, <1>5, <3>4, <3>5
      <3> QED BY <1>6, <3>1, <2>1
    <2>5. \A b \in HeadEnd + 1..last : b \notin ToSet(log)
      <3> SUFFICES ASSUME NEW b \in HeadEnd + 1..last, NEW i \in 1..Len(log), b = log[i] PROVE FALSE BY <1>6
      <3>1. CASE i \in 1..HeadEnd
        <4> QED BY <1>4, <2>2, <3>1, <2>1
      <3>2. CASE i \in HeadEnd + 1..TailStart
        <4>2. log[i] = 0 BY <2>1, <1>4, <3>2
        <4> QED BY <1>4, <2>2, <4>2
      <3>3. CASE i \in TailStart + 1..Len(log)
        <4>2. capture.received - capture.retained + i > last BY <1>2, <1>4, <1>5, <3>3
        <4> QED BY <1>4, <2>2, <2>1, <3>3, <4>2
      <3> QED BY <1>2, <1>4, <1>5, <3>1, <3>2, <3>3
    <2>7. \A b \in HeadEnd + 1..last : b \in 1..capture.received BY <1>2, <1>4, <2>2
    <2>8. missing = HeadEnd + 1..last
      <3> HIDE DEF last
      <3> QED BY <2>3, <2>4, <2>5, <1>2, <1>4, <2>2, <2>7
    <2>9. Cardinality(HeadEnd + 1..last) = IF HeadEnd + 1 > last THEN 0 ELSE last - (HeadEnd + 1) + 1
      <3> HIDE DEF last
      <3> QED BY <1>4, <2>2, FS_Interval
    <2>10. capture.received - (capture.retained - SeamBytes) = IF HeadEnd + 1 > last THEN 0 ELSE last - (HeadEnd + 1) + 1
      BY <1>2, <1>4, <2>2
    <2> QED BY <1>5, <1>8, <2>8, <2>9, <2>10
  <1> QED BY <1>2, <1>7, <1>8

SupervisorPlaces == {"spawn", "loop", "term", "grace", "kill", "reap", "drain", "returned"}
Supervisors == [at : SupervisorPlaces, timedOut : BOOLEAN, cancelled : BOOLEAN, failure : BOOLEAN]
Pipes == [written : Nat, read : Nat, open : BOOLEAN]

ProcessTypeOK ==
    /\ leader \in {"none", "alive", "zombie", "reaped"} /\ member \in {"no", "yes", "stubborn"}
    /\ escaped \in BOOLEAN /\ stranger \in BOOLEAN /\ pipe \in Pipes /\ supervisor \in Supervisors

\* How far the group is, by how far the supervisor is.
GroupFollows ==
    /\ ProcessIs("spawn") => leader = "none"
    /\ supervisor.at \in {"loop", "term", "grace", "kill"} => leader \in {"alive", "zombie"}
    /\ ProcessIs("reap") => leader = "zombie" /\ member = "no"
    /\ ProcessIs("drain") => leader = "reaped" /\ member = "no"
    /\ ProcessIs("returned") => leader = "none" \/ (leader = "reaped" /\ member = "no")

ProcessInv ==
    /\ ProcessTypeOK /\ GroupFollows
    /\ stranger => leader = "reaped"
    /\ ~struck
    /\ leader = "none" => pipe.open
    /\ ~pipe.open => ~HasPipe /\ pipe.read = pipe.written
    /\ ProcessIs("returned") /\ leader # "none" /\ ~supervisor.failure => ~pipe.open

LEMMA SupervisorSteps ==
    ASSUME NEW c \in Supervisors, NEW a \in SupervisorPlaces, NEW d, d = [c EXCEPT !.at = a]
    PROVE  d \in Supervisors /\ d.at = a /\ d.failure = c.failure
  BY DEF Supervisors

LEMMA SupervisorFails ==
    ASSUME supervisor \in Supervisors, NEW a \in SupervisorPlaces, NEW f \in {"timedOut", "cancelled", "failure"},
           ProcessFails(a, f)
    PROVE  supervisor' \in Supervisors /\ supervisor'.at = a /\ (f = "failure" => supervisor'.failure)
  <1>1. CASE f = "timedOut" BY <1>1 DEF Supervisors, ProcessFails
  <1>2. CASE f = "cancelled" BY <1>2 DEF Supervisors, ProcessFails
  <1>3. CASE f = "failure" BY <1>3 DEF Supervisors, ProcessFails
  <1> QED BY <1>1, <1>2, <1>3

LEMMA PipeSets ==
    ASSUME NEW p \in Pipes
    PROVE  /\ [p EXCEPT !.read = @ + 1] \in Pipes /\ [p EXCEPT !.read = @ + 1].open = p.open
           /\ [p EXCEPT !.open = FALSE] \in Pipes /\ ~[p EXCEPT !.open = FALSE].open
           /\ [p EXCEPT !.open = FALSE].read = p.read /\ [p EXCEPT !.open = FALSE].written = p.written
           /\ [p EXCEPT !.written = @ + 1] \in Pipes /\ [p EXCEPT !.written = @ + 1].open = p.open
  <1>2. [p EXCEPT !.open = FALSE] \in Pipes /\ ~[p EXCEPT !.open = FALSE].open BY DEF Pipes
  <1>3. [p EXCEPT !.open = FALSE].read = p.read /\ [p EXCEPT !.open = FALSE].written = p.written BY DEF Pipes
  <1>4. [p EXCEPT !.written = @ + 1] \in Pipes /\ [p EXCEPT !.written = @ + 1].open = p.open BY DEF Pipes
  <1> QED BY <1>2, <1>3, <1>4 DEF Pipes

LEMMA ProcessStarts == ProcessInit => ProcessInv
  <1> SUFFICES ASSUME ProcessInit PROVE ProcessInv OBVIOUS
  <1>2. supervisor \in Supervisors /\ supervisor.at = "spawn"
    BY DEF ProcessInit, Supervisors, SupervisorPlaces
  <1> QED BY <1>2 DEF ProcessInit, ProcessInv, ProcessTypeOK, GroupFollows, ProcessIs, Pipes

LEMMA ProcessStepKeeps == ProcessInv /\ [ProcessNext]_processVars => ProcessInv'
  <1> SUFFICES ASSUME ProcessInv, [ProcessNext]_processVars PROVE ProcessInv' OBVIOUS
  <1> USE DEF ProcessInv, ProcessTypeOK, GroupFollows, ProcessIs, HasPipe
  <1>0. supervisor \in Supervisors /\ supervisor.at \in SupervisorPlaces /\ pipe \in Pipes /\ pipe.open \in BOOLEAN
    BY DEF Supervisors, Pipes
  <1>p. {"spawn", "loop", "term", "grace", "kill", "reap", "drain", "returned"} \subseteq SupervisorPlaces
    BY DEF SupervisorPlaces
  <1>1. ASSUME SpawnProcess PROVE ProcessInv'
    <2>1. CASE leader' = "alive" /\ ProcessStep("loop")
      <3> QED BY <1>0, <1>1, <2>1, <1>p, SupervisorSteps DEF SpawnProcess, ProcessStep
    <2>2. CASE leader' = "none" /\ \E why \in {"timedOut", "cancelled", "failure"} : ProcessFails("returned", why)
      <3>1. PICK why \in {"timedOut", "cancelled", "failure"} : ProcessFails("returned", why) BY <2>2
      <3> QED BY <1>0, <1>1, <2>2, <1>p, <3>1, SupervisorFails DEF SpawnProcess
    <2> QED BY <1>1, <2>1, <2>2 DEF SpawnProcess
  <1>2. ASSUME Drain PROVE ProcessInv'
    <2> USE <1>2 DEF Drain
    <2>1. CASE pipe.read < pipe.written /\ pipe' = [pipe EXCEPT !.read = @ + 1] /\ UNCHANGED supervisor
      <3> QED BY <1>0, <2>1, PipeSets
    <2>2. CASE EndOfFile /\ pipe' = [pipe EXCEPT !.open = FALSE] /\ UNCHANGED supervisor
      <3>2. leader # "none" BY <2>2
      <3> QED BY <1>0, <2>2, PipeSets, <3>2 DEF EndOfFile
    <2>3. CASE ProcessIs("loop") /\ pipe' = pipe /\ ProcessFails("term", "failure")
      <3> QED BY <1>0, <2>3, <1>p, SupervisorFails
    <2> QED BY <2>1, <2>2, <2>3
  <1>3. ASSUME SeesExit PROVE ProcessInv'
    <2> QED BY <1>0, <1>3, <1>p, SupervisorSteps DEF SeesExit, LeaveZombie, ProcessStep
  <1>4. ASSUME StopPumping PROVE ProcessInv'
    <2>1. PICK why \in {"timedOut", "cancelled"} : ProcessFails("term", why) BY <1>4 DEF StopPumping
    <2> QED BY <1>0, <1>4, <1>p, <2>1, SupervisorFails DEF StopPumping
  <1>5. ASSUME Terminate PROVE ProcessInv'
    <2>1. supervisor' \in Supervisors /\ supervisor'.at = "grace"
      BY <1>0, <1>p, <1>5, SupervisorSteps DEF Terminate, ProcessStep
    <2>2. leader \in {"alive", "zombie"} /\ leader' \in {"alive", "zombie"} BY <1>5 DEF Terminate
    <2>4. ~HasPipe => ~HasPipe' BY <1>5 DEF Terminate
    <2> QED BY <1>0, <1>5, <2>1, <2>2, <2>4 DEF Terminate, Signalled
  <1>6. ASSUME GraceIsOver PROVE ProcessInv'
    <2> QED BY <1>0, <1>6, <1>p, SupervisorSteps DEF GraceIsOver, ProcessStep
  <1>7. ASSUME Kill9 PROVE ProcessInv'
    <2>1. supervisor' \in Supervisors /\ supervisor'.at = "reap"
      BY <1>0, <1>p, <1>7, SupervisorSteps DEF Kill9, ProcessStep
    <2>2. leader \in {"alive", "zombie"} /\ leader' = "zombie" /\ member' = "no" BY <1>7 DEF Kill9, KillGroup
    <2> QED BY <1>0, <1>7, <2>1, <2>2 DEF Kill9, Signalled
  <1>8. ASSUME Reap PROVE ProcessInv'
    <2> QED BY <1>0, <1>8, <1>p, SupervisorSteps DEF Reap, ProcessStep
  <1>9. ASSUME ProcessReturns PROVE ProcessInv'
    <2>1. CASE pipe.open
      <3> QED BY <1>0, <1>9, <1>p, <2>1, SupervisorFails DEF ProcessReturns, PipeStaysOpen
    <2>2. CASE ~pipe.open
      <3> QED BY <1>0, <1>9, <2>2, <1>p, SupervisorSteps DEF ProcessReturns, ProcessStep
    <2> QED BY <2>1, <2>2
  <1>10. ASSUME WriteToPipe PROVE ProcessInv'
    <2>2. pipe.open BY <1>10 DEF WriteToPipe
    <2> QED BY <1>0, <1>10, PipeSets, <2>2 DEF WriteToPipe
  <1>11. ASSUME ProcessExits PROVE ProcessInv'
    <2> QED BY <1>0, <1>11 DEF ProcessExits
  <1>12. ASSUME NumberIsReused PROVE ProcessInv' BY <1>0, <1>12 DEF NumberIsReused
  <1>13. ASSUME UNCHANGED processVars PROVE ProcessInv' BY <1>0, <1>13 DEF processVars
  <1> QED BY <1>1, <1>2, <1>3, <1>4, <1>5, <1>6, <1>7, <1>8, <1>9, <1>10, <1>11, <1>12, <1>13 DEF ProcessNext

LEMMA ProcessFollows == ProcessInv => OnlyOwnGroup /\ GroupIsGone /\ OutputIsWhole
  BY DEF ProcessInv, GroupFollows, OnlyOwnGroup, GroupIsGone, OutputIsWhole, ProcessIs

(* For every limit that holds its seam four times, and every output: the
   log that io/process.rs keeps ends with the newest output and starts
   with the first whenever the supervisor is killed, and its account of
   what was dropped is exact; no signal reaches a group that is not its
   own, nothing of the group outlives execute, and a result without a
   failure has all the output. *)
THEOREM ProcessesEnd == EndsSpec => []ProcessesEndWhole
  <1>1. LogInit /\ ProcessInit => LogInv /\ ProcessInv BY LogStarts, ProcessStarts
  <1>2. ASSUME LogInv, ProcessInv, [\/ LogNext /\ UNCHANGED processVars
                                    \/ ProcessNext /\ UNCHANGED logVars]_<<logVars, processVars>>
        PROVE LogInv' /\ ProcessInv'
    <2> QED BY <1>2, LogStep, ProcessStepKeeps
  <1>3. LogInv /\ ProcessInv => ProcessesEndWhole
    BY EndFollows, AccountFollows, ProcessFollows DEF ProcessesEndWhole
  <1> QED BY <1>1, <1>2, <1>3, PTL DEF EndsSpec
=============================================================================

--------------------------- MODULE CheckpointSeal ---------------------------
(* A checkpoint of an Attempt: training writes a generation and a ready
   marker, the Worker verifies and seals the generation (io/checkpoints.rs
   verify), the server registers its metadata (server/checkpoints.rs) and
   a later Attempt restores it (verify_sealed), while training goes on.
   Training neither changes modes nor moves directories.  Hashing a file
   is one step: its metadata is compared around it.  The other thing that
   is kept of an Attempt, its results, is in ResultArchive. *)
EXTENDS ResultArchive

CONSTANTS Generations, Names,  \* directories of `checkpoints`, files of one
          MaxWrites,           \* bound: changes training makes
          MaxMarks,            \* bound: ready markers it writes
          MaxRestarts           \* bound: restarts of the server

ASSUME SealAssumption == MaxWrites \in Nat /\ MaxMarks \in Nat /\ MaxRestarts \in Nat

NoMarker == [of |-> "none"]

VARIABLES generation,  \* of each: its files, and whether the directory is sealed
          marker,      \* checkpoint.ready.json: a manifest of one generation
          check,       \* the Worker's verification
          verified,    \* the marker the cloud Worker verified last
          documents,   \* the documents it made, on their way or to be sent again
          registrations,    \* the documents of the Attempt that the server has: not yet sealed, sealed
          restore,     \* the Attempt that starts from one of them
          budget       \* what is left of the bounds
sealVars == <<generation, marker, check, verified, documents, registrations, restore, budget>>

(* version 0: no such file; held: training has a descriptor for writing.
   late: it wrote after the file or its directory was sealed, through that
   descriptor or to a file that is not sealed. *)
NoFile == [version |-> 0, sealed |-> FALSE, held |-> FALSE, late |-> FALSE]
Unoccupied == [at |-> "idle"]

SealInit ==
    /\ generation = [g \in Generations |-> [sealed |-> FALSE, files |-> [n \in Names |-> NoFile]]]
    /\ marker = NoMarker /\ check = Unoccupied /\ verified = NoMarker
    /\ documents = {} /\ registrations = << >> /\ restore = Unoccupied
    /\ budget = [writes |-> MaxWrites, marks |-> MaxMarks, crashes |-> MaxRestarts]

Files(g) == generation[g].files
Present(g) == {n \in Names : Files(g)[n].version # 0}
Contents(g, names) == [n \in names |-> Files(g)[n].version]
Change(g, n, f) == generation' = [generation EXCEPT ![g].files[n] = f]

------------
\* Training opens a file of a generation and writes it, or writes through what it has open.
WriteFile(g, n) ==
    /\ budget.writes > 0 /\ budget' = [budget EXCEPT !.writes = @ - 1]
    /\ LET f == Files(g)[n] IN
         /\ ~f.held => IF f.version = 0 THEN ~generation[g].sealed ELSE ~f.sealed
         /\ \E held \in BOOLEAN :
              Change(g, n, [version |-> MaxWrites + 1 - budget.writes, sealed |-> f.sealed, held |-> held, late |-> f.sealed \/ generation[g].sealed])
    /\ UNCHANGED <<marker, check, verified, documents, registrations, restore>>

\* It renames another file over the name, be it with the same bytes, or removes it: both
\* need the directory.
ReplaceFile(g, n) ==
    /\ budget.writes > 0 /\ budget' = [budget EXCEPT !.writes = @ - 1]
    /\ ~generation[g].sealed /\ Files(g)[n].version # 0
    /\ \E version \in {0, Files(g)[n].version, MaxWrites + 1 - budget.writes} : Change(g, n, [NoFile EXCEPT !.version = version])
    /\ UNCHANGED <<marker, check, verified, documents, registrations, restore>>

\* It replaces the marker: the hashes of files of one generation as they are.
MarkReady(g) ==
    /\ budget.marks > 0 /\ budget' = [budget EXCEPT !.marks = @ - 1]
    /\ \E names \in SUBSET Present(g) \ {{}} : marker' = [of |-> g, files |-> Contents(g, names)]
    /\ UNCHANGED <<generation, check, verified, documents, registrations, restore>>

\* Training is over: what it had open is closed.
TrainingEnds ==
    /\ generation' = [g \in Generations |-> [generation[g] EXCEPT !.files = [n \in Names |-> [@[n] EXCEPT !.held = FALSE]]]]
    /\ budget' = [budget EXCEPT !.writes = 0, !.marks = 0]
    /\ UNCHANGED <<marker, check, verified, documents, registrations, restore>>
TrainingIsOver == budget.writes = 0 /\ \A g \in Generations, n \in Names : ~Files(g)[n].held

------------
Checking(at) == check.at = at
CheckAt(at) == check' = [check EXCEPT !.at = at]
NotVerified == check' = Unoccupied
ListedNames == DOMAIN check.marker.files
SameFile(m, n) == Files(m.of)[n].version = m.files[n]

\* A cloud Worker sends the document of a marker it verified before as it is.
ReadMarker ==
    /\ Checking("idle") /\ marker # NoMarker
    /\ IF marker = verified THEN documents' = documents \cup {marker} /\ UNCHANGED check
       ELSE check' = [at |-> "walk", marker |-> marker, done |-> {}] /\ UNCHANGED documents
    /\ UNCHANGED <<generation, marker, verified, registrations, restore, budget>>

Walk ==
    /\ Checking("walk")
    /\ IF Present(check.marker.of) = ListedNames THEN CheckAt("hash") ELSE NotVerified
    /\ UNCHANGED <<generation, marker, verified, documents, registrations, restore, budget>>

\* verify_file, of each file of the manifest.
HashFile(n) ==
    /\ Checking("hash") /\ n \in ListedNames \ check.done
    /\ IF SameFile(check.marker, n)
       THEN check' = IF check.done \cup {n} = ListedNames THEN [check EXCEPT !.at = "seal", !.done = {}]
                     ELSE [check EXCEPT !.done = @ \cup {n}]
       ELSE NotVerified
    /\ UNCHANGED <<generation, marker, verified, documents, registrations, restore, budget>>

\* seal_regular: what the name refers to now.
SealFile(n) ==
    /\ Checking("seal") /\ n \in ListedNames \ check.done
    /\ LET f == Files(check.marker.of)[n] IN
         IF f.version # 0 THEN /\ Change(check.marker.of, n, [f EXCEPT !.sealed = TRUE])
                               /\ check' = IF check.done \cup {n} = ListedNames THEN [check EXCEPT !.at = "directory", !.done = {}]
                                           ELSE [check EXCEPT !.done = @ \cup {n}]
         ELSE NotVerified /\ UNCHANGED generation
    /\ UNCHANGED <<marker, verified, documents, registrations, restore, budget>>

SealDirectory ==
    /\ Checking("directory") /\ CheckAt("walk again")
    /\ generation' = [generation EXCEPT ![check.marker.of].sealed = TRUE]
    /\ UNCHANGED <<marker, verified, documents, registrations, restore, budget>>

\* Mutant: the first listing is trusted.
FirstListing(m) == TRUE

SameListing(m) == Present(m.of) = DOMAIN m.files

WalkSealed ==
    /\ Checking("walk again")
    /\ IF SameListing(check.marker) THEN CheckAt("hash again") ELSE NotVerified
    /\ UNCHANGED <<generation, marker, verified, documents, registrations, restore, budget>>

\* Mutant: the bytes are read once.
FirstHash(m, n) == TRUE

SameBytes(m, n) == SameFile(m, n)

HashSealed(n) ==
    /\ Checking("hash again") /\ n \in ListedNames \ check.done
    /\ IF SameBytes(check.marker, n)
       THEN check' = IF check.done \cup {n} = ListedNames THEN [check EXCEPT !.at = "marker", !.done = {}]
                     ELSE [check EXCEPT !.done = @ \cup {n}]
       ELSE NotVerified
    /\ UNCHANGED <<generation, marker, verified, documents, registrations, restore, budget>>

\* The marker must still be the one that was read.
ReadMarkerAgain ==
    /\ Checking("marker") /\ NotVerified
    /\ IF marker = check.marker THEN documents' = documents \cup {marker} /\ verified' = marker
       ELSE UNCHANGED <<documents, verified>>
    /\ UNCHANGED <<generation, marker, registrations, restore, budget>>

------------
AllSealed == \A d \in DOMAIN registrations : registrations[d] = "sealed"

GenerationIsFree(d) == \A e \in DOMAIN registrations : e.of # d.of

(* Store.register: under its lock, of a document that arrived, be it late
   or again.  The server may stop between the publication and the seal:
   then the document is refused as unreadable, and every other with it. *)
Register(d) ==
    /\ d \in documents /\ d \notin DOMAIN registrations /\ AllSealed /\ GenerationIsFree(d)
    /\ \/ registrations' = [e \in DOMAIN registrations \cup {d} |-> "sealed"] /\ UNCHANGED budget
       \/ /\ budget.crashes > 0 /\ budget' = [budget EXCEPT !.crashes = @ - 1]
          /\ registrations' = [e \in DOMAIN registrations \cup {d} |-> IF e = d THEN "writable" ELSE registrations[e]]
    /\ UNCHANGED <<generation, marker, check, verified, documents, restore>>

------------
\* A retry of an Attempt that ended was prepared with a registered document; its Worker verifies it.
SelectCheckpoint(d) ==
    /\ restore.at = "idle" /\ TrainingIsOver /\ d \in DOMAIN registrations /\ registrations[d] = "sealed"
    /\ restore' = [at |-> "modes", of |-> d]
    /\ UNCHANGED <<generation, marker, check, verified, documents, registrations, budget>>

RestoreWalks ==
    /\ restore.at = "modes"
    /\ restore' = [restore EXCEPT !.at = IF /\ \A n \in DOMAIN restore.of.files : Files(restore.of.of)[n].sealed
                                            /\ SameListing(restore.of) THEN "hash" ELSE "refused"]
    /\ UNCHANGED <<generation, marker, check, verified, documents, registrations, budget>>

\* Mutant: what was certified once is not read again.
TrustsRegistry(d) == TRUE

RestoredMatches(d) == \A n \in DOMAIN d.files : SameFile(d, n)

\* Every file is hashed.
RestoreHashes ==
    /\ restore.at = "hash"
    /\ restore' = [restore EXCEPT !.at = IF RestoredMatches(restore.of) THEN "started" ELSE "refused"]
    /\ UNCHANGED <<generation, marker, check, verified, documents, registrations, budget>>

SealNext ==
    \/ TrainingEnds \/ ReadMarker \/ Walk \/ SealDirectory \/ WalkSealed \/ ReadMarkerAgain \/ RestoreWalks \/ RestoreHashes
    \/ \E g \in Generations : MarkReady(g) \/ \E n \in Names : WriteFile(g, n) \/ ReplaceFile(g, n)
    \/ \E n \in Names : HashFile(n) \/ SealFile(n) \/ HashSealed(n)
    \/ \E d \in documents : Register(d) \/ SelectCheckpoint(d)

ArtifactsInit == ArchiveInit /\ SealInit
ArtifactsNext == (ArchiveNext /\ UNCHANGED sealVars) \/ (SealNext /\ UNCHANGED archiveVars)
ArtifactsSpec == ArtifactsInit /\ [][ArtifactsNext]_<<archiveVars, sealVars>>

------------
(* What a document of the Worker names is in the generation and nothing
   else is, with the bytes it names: for ever, except for what training
   writes late.  It can do so through a descriptor it had open before the
   seal, or to a copy of the same bytes that it put in the place of a file
   after the seal of the file and before that of the directory; no other
   file can be put there, nor any removed. *)
CertifiedIsStored ==
    \A d \in documents :
        /\ Present(d.of) = DOMAIN d.files
        /\ \A n \in DOMAIN d.files : SameFile(d, n) \/ Files(d.of)[n].late

(* Training starts again only from the bytes that were registered, though
   they may have been damaged since: missing or changed files block it. *)
RestoredIsRegistered ==
    restore.at = "started" =>
        \A n \in Names : Files(restore.of.of)[n].version
                           = IF n \in DOMAIN restore.of.files THEN restore.of.files[n] ELSE 0

(* A bundle is the tree of one moment and says what it left out; a
   checkpoint that is certified is stored, and training starts again only
   from what was registered. *)
ArtifactsAreTrue == OneMoment /\ LeftOutIsSaid /\ RequiredHasRoom /\ CertifiedIsStored /\ RestoredIsRegistered
=============================================================================

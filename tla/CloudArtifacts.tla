--------------------------- MODULE CloudArtifacts ---------------------------
(* The result archive of a finished cloud Attempt.  A collector packs it
   beside the outputs, sends it part by part to the object store and has
   the server publish it; the server reads the whole archive first, and
   not under its lock.  A person acknowledges a download and releases the
   copy, or an administrator removes it.  Collectors may stop anywhere,
   and a PUT may be executed after its collector has gone. *)
EXTENDS Naturals, FiniteSets

CONSTANTS
    Pieces,     \* parts of the archive: 1..Pieces; an archive has at least one
    Collectors, \* jobs that may publish the archive
    Readers     \* Complete requests that may be handled at the same time

ASSUME PiecesAssumption == Pieces \in Nat \ {0}

VARIABLES
    local,     \* the collector directory: archive.tar, bundle.json
    collector, \* what each collector is doing; one of them holds .lock
    puts,      \* PUTs on their way
    stored,    \* parts that the object store has
    result,    \* the saved record of the server
    reader,    \* the Complete request each reader handles
    releasing  \* an acknowledgement that releases, under the service lock

artifactVars == <<local, collector, puts, stored, result, reader, releasing>>

AllPieces == 1..Pieces
NotReading == [at |-> "idle", part |-> 0]
Rank == [NONE |-> 0, KEEP |-> 1, SCHEDULED |-> 2, RELEASING |-> 3, RELEASED |-> 4]

ArtifactInit ==
    /\ local = [archive |-> "none", bundle |-> FALSE]
    /\ collector = [c \in Collectors |-> [at |-> "idle", part |-> 0]]
    /\ puts = {} /\ stored = {}
    /\ result = [prepared |-> FALSE, state |-> "NONE", released |-> 0, removed |-> FALSE]
    /\ reader = [r \in Readers |-> NotReading]
    /\ releasing = FALSE

Published == result.state # "NONE"
Step(c, step) == collector' = [collector EXCEPT ![c].at = step]

------------
(* publish, under the lock of the collector directory.  A pack that was
   interrupted is removed; one that has its bundle.json is final. *)
BeginCollect(c) ==
    /\ \A d \in Collectors : collector[d].at = "idle"
    /\ IF local.bundle
         THEN Step(c, "prepare") /\ UNCHANGED local
         ELSE Step(c, "pack") /\ local' = [local EXCEPT !.archive = "partial"]
    /\ UNCHANGED <<puts, stored, result, reader, releasing>>

PublishBundle(c) ==
    /\ collector[c].at = "pack"
    /\ local' = [archive |-> "sealed", bundle |-> TRUE]
    /\ Step(c, "prepare")
    /\ UNCHANGED <<puts, stored, result, reader, releasing>>

\* The server keeps the bundle of the first Prepare.
Prepare(c) ==
    /\ collector[c].at = "prepare" /\ ~releasing
    /\ IF result.removed
         THEN Step(c, "idle") /\ UNCHANGED result
         ELSE /\ result' = [result EXCEPT !.prepared = TRUE]
              /\ collector' = [collector EXCEPT ![c] = [at |-> IF Published THEN "clean" ELSE "put",
                                                        part |-> 1]]
    /\ UNCHANGED <<local, puts, stored, reader, releasing>>

\* A ticket is for an archive that is not published and not removed.
SendPart(c) ==
    /\ collector[c].at = "put" /\ ~releasing
    /\ IF result.removed \/ Published
         THEN Step(c, "idle") /\ UNCHANGED puts
         ELSE /\ local.archive = "sealed"
              /\ puts' = puts \cup {collector[c].part}
              /\ Step(c, "putting")
    /\ UNCHANGED <<local, stored, result, reader, releasing>>

\* x-oss-forbid-overwrite: the first PUT of a part is the one that counts.
StorePart ==
    /\ \E p \in puts : puts' = puts \ {p} /\ stored' = stored \cup {p}
    /\ UNCHANGED <<local, collector, result, reader, releasing>>

PartSent(c) ==
    LET part == collector[c].part
    IN /\ collector[c].at = "putting" /\ part \notin puts
       /\ collector' = [collector EXCEPT ![c] =
             IF part < Pieces THEN [at |-> "put", part |-> part + 1] ELSE [at |-> "complete", part |-> 0]]
       /\ UNCHANGED <<local, puts, stored, result, reader, releasing>>

\* The answer to Complete; the request may have to be sent again.
CompleteAnswered(c) ==
    /\ collector[c].at = "complete" /\ Published
    /\ Step(c, "clean")
    /\ UNCHANGED <<local, puts, stored, result, reader, releasing>>

\* Mutant: the generated archive is removed once its parts are sent.
CleansEarly(c) ==
    /\ collector[c].at \in {"complete", "clean"}
    /\ local' = [local EXCEPT !.archive = "none"]
    /\ Step(c, "idle")
    /\ UNCHANGED <<puts, stored, result, reader, releasing>>

\* Only the generated archive goes; bundle.json stays for lost answers.
Clean(c) ==
    /\ collector[c].at = "clean"
    /\ local' = [local EXCEPT !.archive = "none"]
    /\ Step(c, "idle")
    /\ UNCHANGED <<puts, stored, result, reader, releasing>>

StopCollector(c) ==
    /\ collector[c].at # "idle" /\ Step(c, "idle")
    /\ UNCHANGED <<local, puts, stored, result, reader, releasing>>

------------
(* receive_artifacts, Complete: the archive is read without the lock, and
   the record is read again before it is written. *)
BeginComplete(r) ==
    /\ reader[r].at = "idle" /\ ~releasing
    /\ \E c \in Collectors : collector[c].at = "complete"
    /\ result.prepared /\ ~result.removed /\ ~Published
    /\ reader' = [reader EXCEPT ![r] = [at |-> "verify", part |-> 1]]
    /\ UNCHANGED <<local, collector, puts, stored, result, releasing>>

VerifyPart(r) ==
    LET part == reader[r].part
    IN /\ reader[r].at = "verify"
       /\ reader' = [reader EXCEPT ![r] =
             IF part \notin stored THEN NotReading
             ELSE IF part < Pieces THEN [at |-> "verify", part |-> part + 1]
             ELSE [at |-> "accept", part |-> part]]
       /\ UNCHANGED <<local, collector, puts, stored, result, releasing>>

\* Mutant: the record is not read again: it is written as it was when the read began.
AcceptedUnread(r) == [result EXCEPT !.state = "KEEP", !.removed = FALSE]

ArchiveAccepted(r) ==
    IF result.removed \/ Published THEN result ELSE [result EXCEPT !.state = "KEEP"]

AcceptResult(r) ==
    /\ reader[r].at = "accept" /\ ~releasing
    /\ result' = ArchiveAccepted(r)
    /\ reader' = [reader EXCEPT ![r] = NotReading]
    /\ UNCHANGED <<local, collector, puts, stored, releasing>>

------------
\* Mutant: the retention is always what was asked for last.
RetentionAsAsked(release) == IF release THEN "SCHEDULED" ELSE "KEEP"

(* acknowledge_artifacts: an exact proof of the download; a release cannot
   go back to KEEP, and a repeated one goes on where it stopped. *)
Retention(release) ==
    IF result.state = "KEEP" /\ release THEN "SCHEDULED" ELSE result.state

Acknowledge(release) ==
    /\ Published /\ ~result.removed /\ ~releasing
    /\ result' = [result EXCEPT !.state = Retention(release)]
    /\ releasing' = (release /\ result'.state # "RELEASED")
    /\ UNCHANGED <<local, collector, puts, stored, reader>>

\* begin_release is saved before an object goes, the cursor after it.
BeginRelease ==
    /\ releasing /\ result.state = "SCHEDULED"
    /\ result' = [result EXCEPT !.state = "RELEASING"]
    /\ UNCHANGED <<local, collector, puts, stored, reader, releasing>>

ReleasePart ==
    /\ releasing /\ result.state = "RELEASING" /\ result.released < Pieces
    /\ stored' = stored \ {result.released + 1}
    /\ result' \in {result, [result EXCEPT !.released = @ + 1]}
    /\ releasing' = (result' # result)
    /\ UNCHANGED <<local, collector, puts, reader>>

FinishRelease ==
    /\ releasing /\ result.state = "RELEASING" /\ result.released = Pieces
    /\ result' = [result EXCEPT !.state = "RELEASED"]
    /\ releasing' = FALSE
    /\ UNCHANGED <<local, collector, puts, stored, reader>>

\* The server stops: what was saved stays.
StopRelease ==
    /\ releasing /\ releasing' = FALSE
    /\ UNCHANGED <<local, collector, puts, stored, result, reader>>

(* maintenance_release_object: the removal is recorded first, then one
   object a call; the process may stop after each. *)
RecordRemoval ==
    /\ result.prepared /\ ~releasing /\ ~result.removed
    /\ result' = [result EXCEPT !.removed = TRUE]
    /\ UNCHANGED <<local, collector, puts, stored, reader, releasing>>

RemovePart ==
    /\ result.removed /\ ~releasing /\ result.released < Pieces
    /\ stored' = stored \ {result.released + 1}
    /\ result' \in {result, [result EXCEPT !.released = @ + 1]}
    /\ UNCHANGED <<local, collector, puts, reader, releasing>>

ArtifactNext ==
    \/ \E c \in Collectors :
          \/ BeginCollect(c) \/ PublishBundle(c) \/ Prepare(c) \/ SendPart(c) \/ PartSent(c)
          \/ CompleteAnswered(c) \/ Clean(c) \/ StopCollector(c)
    \/ \E r \in Readers : BeginComplete(r) \/ VerifyPart(r) \/ AcceptResult(r)
    \/ StorePart \/ (\E release \in BOOLEAN : Acknowledge(release))
    \/ BeginRelease \/ ReleasePart \/ FinishRelease \/ StopRelease \/ RecordRemoval \/ RemovePart

ArtifactSpec == ArtifactInit /\ [][ArtifactNext]_artifactVars

------------
(* A result that is offered for download is whole in the object store,
   whatever was removed, released or completed while it was being read. *)
AvailableIsStored == result.state = "KEEP" /\ ~result.removed => AllPieces \subseteq stored

(* The packed archive is never given up before the server has published
   it: there is always one whole copy to go on from. *)
PackedIsNotLost == local.bundle => local.archive = "sealed" \/ Published

(* A removal stays recorded, its cursor and a release never go back. *)
ReleaseOnlyAdvances ==
    [][/\ Rank[result.state] <= Rank[result'.state]
       /\ result.released <= result'.released
       /\ result.removed => result'.removed]_artifactVars

(* A result that is available is stored, and no part is released before
   the whole is packed. *)
BundlesAreKept == AvailableIsStored /\ PackedIsNotLost
=============================================================================

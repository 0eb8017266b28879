--------------------------- MODULE DatasetStorage ---------------------------
(* The upload of a dataset archive, part by part, to an object store that
   the server shares with the clients.  The asset's record is read and
   written under the service lock, but no object-store request is made
   under it: between any two steps of a client the others, and direct PUTs
   that nobody is waiting for, may do theirs.  A PUT never replaces an
   object; only a discard removes one.

   The bytes of a part are "good" (the archive's), "bad" (others, of the
   same size) or "short". *)
EXTENDS Naturals, FiniteSets, ProviderJobs

CONSTANTS
    Clients,     \* the requests that are handled at the same time
    NParts,      \* parts of the archive
    Bytes,       \* what clients send: "good", or also "bad"
    MaxDiscards, \* discards in a behaviour
    DirectParts, \* parts for which signed PUTs are asked for
    Overtaking   \* may a request be begun while another one is deleting

Parts == 1..NParts
Missing == "missing"

VARIABLES
    asset,   \* the saved record of the asset
    object,  \* the object of each part
    tickets, \* parts for which a signed PUT is out
    client   \* the request each client waits for

uploadVars == <<asset, object, tickets, client>>

IdleClient == [at |-> "idle"]

UploadInit ==
    /\ asset = [parts |-> [p \in Parts |-> Missing], verified |-> FALSE, discards |-> 0]
    /\ object = [p \in Parts |-> Missing]
    /\ tickets = {}
    /\ client = [c \in Clients |-> IdleClient]

PartsRecorded == {p \in Parts : asset.parts[p] # Missing}
\* data_saved: a record that is verified and lacks a part is refused.
Readable == asset.verified => PartsRecorded = Parts
Takes(p, b) == asset.parts[p] \in {Missing, b}

Seen == asset.discards  \* what tells a discard that its observation is old

Begins(c) ==
    /\ client[c] = IdleClient /\ Readable
    /\ Overtaking \/ \A d \in Clients : client[d].at \notin {"deleting", "unrecord"}
At(c, step) == client[c].at = step
Goes(c, r) == client' = [client EXCEPT ![c] = r]
Ends(c) == Goes(c, IdleClient)
Record(r) == [at |-> "record", part |-> r.part, bytes |-> r.bytes]

------------
(* A part through the server: PUT, then GET of the whole object. *)
BeginPart(c, p, b) ==
    /\ Begins(c) /\ ~asset.verified /\ Takes(p, b)
    /\ Goes(c, [at |-> "put", part |-> p, bytes |-> b, seen |-> Seen, again |-> FALSE])
    /\ UNCHANGED <<asset, object, tickets>>

\* Bytes that differ cannot be replaced: they are discarded, once.
Put(c) ==
    LET r == client[c]
        stored == [object EXCEPT ![r.part] = IF @ = Missing THEN r.bytes ELSE @]
    IN /\ At(c, "put")
       /\ object' = stored
       /\ CASE stored[r.part] = r.bytes -> Goes(c, Record(r))
            [] stored[r.part] # r.bytes /\ ~r.again ->
                 Goes(c, [at |-> "discard", wrong |-> {r.part}, seen |-> r.seen,
                          then |-> [r EXCEPT !.again = TRUE]])
            [] OTHER -> Ends(c)
       /\ UNCHANGED <<asset, tickets>>

\* The record is read again: another part of the upload may have come.
RecordPart(c) ==
    LET r == client[c]
    IN /\ At(c, "record") /\ Ends(c)
       /\ asset' = IF Readable /\ Takes(r.part, r.bytes)
                     THEN [asset EXCEPT !.parts[r.part] = r.bytes] ELSE asset
       /\ UNCHANGED <<object, tickets>>

------------
(* A direct PUT with a ticket, at any time and with any bytes. *)
IssueTicket(p) ==
    /\ Readable /\ ~asset.verified
    /\ tickets' = tickets \cup {p}
    /\ UNCHANGED <<asset, object, client>>

DirectPut(p, b) ==
    /\ p \in tickets /\ object[p] = Missing
    /\ object' = [object EXCEPT ![p] = b]
    /\ UNCHANGED <<asset, tickets, client>>

(* dataset_part_uploaded: a HEAD tells the size only. *)
PartUploaded(c, p, b) ==
    /\ Begins(c) /\ ~asset.verified /\ asset.parts[p] = Missing
    /\ Goes(c, [at |-> "head", part |-> p, bytes |-> b, seen |-> Seen])
    /\ UNCHANGED <<asset, object, tickets>>

HeadPart(c) ==
    LET r == client[c]
    IN /\ At(c, "head")
       /\ CASE object[r.part] = Missing -> Ends(c)
            [] object[r.part] = "short" ->
                 Goes(c, [at |-> "discard", wrong |-> {r.part}, seen |-> r.seen, then |-> IdleClient])
            [] OTHER -> Goes(c, Record(r))
       /\ UNCHANGED <<asset, object, tickets>>

------------
(* Complete: one request at a time reads the archive, without the lock;
   it compares every part with its record and the whole with the archive. *)
Complete(c) ==
    /\ Begins(c) /\ ~asset.verified /\ PartsRecorded = Parts
    /\ \A d \in Clients : client[d].at \notin {"read", "accept", "compare"}
    /\ Goes(c, [at |-> "read", part |-> 1, seen |-> Seen, parts |-> asset.parts, wrong |-> {}])
    /\ UNCHANGED <<asset, object, tickets>>

ReadPart(c) ==
    LET r == client[c]
        holds == object[r.part] = "good" /\ r.parts[r.part] = "good"
    IN /\ At(c, "read")
       /\ CASE ~holds -> Goes(c, [r EXCEPT !.at = "compare", !.part = 1])
            [] holds /\ r.part < NParts -> Goes(c, [r EXCEPT !.part = @ + 1])
            [] OTHER -> Goes(c, [r EXCEPT !.at = "accept"])
       /\ UNCHANGED <<asset, object, tickets>>

\* wrong_data_parts: the parts whose object is missing or not the record's.
ComparePart(c) ==
    LET r == client[c]
        wrong == r.wrong \cup {p \in {r.part} : object[p] # r.parts[p]}
    IN /\ At(c, "compare")
       /\ CASE r.part < NParts -> Goes(c, [r EXCEPT !.part = @ + 1, !.wrong = wrong])
            [] r.part = NParts /\ wrong = {} -> Ends(c)
            [] OTHER -> Goes(c, [at |-> "discard", wrong |-> wrong, seen |-> r.seen, then |-> IdleClient])
       /\ UNCHANGED <<asset, object, tickets>>

\* Mutant: the count of discards is not compared.
StillSameParts(c) == asset.parts = client[c].parts

(* dataset_archive_verified: only for the record that was read. *)
StillAsRead(c) == asset.parts = client[c].parts /\ Seen = client[c].seen

AcceptArchive(c) ==
    /\ At(c, "accept") /\ Ends(c)
    /\ asset' = IF Readable /\ StillAsRead(c) THEN [asset EXCEPT !.verified = TRUE] ELSE asset
    /\ UNCHANGED <<object, tickets>>

------------
(* dataset_discard_parts: the count goes up under the lock; the objects go
   without it, one by one; their records go under it again. *)
MayDiscard(c) == Seen = client[c].seen

\* Mutant: a discard acts on what it saw before another one.
DiscardsAnyway(c) == TRUE

BeginDiscard(c) ==
    LET r == client[c]
    IN /\ At(c, "discard")
       /\ CASE ~Readable \/ asset.verified -> Ends(c) /\ UNCHANGED asset
            [] Readable /\ ~asset.verified /\ ~MayDiscard(c) -> Goes(c, r.then) /\ UNCHANGED asset
            [] OTHER ->
                 /\ asset.discards < MaxDiscards
                 /\ asset' = [asset EXCEPT !.discards = @ + 1]
                 /\ Goes(c, [at |-> "deleting", left |-> r.wrong, wrong |-> r.wrong, then |-> r.then])
       /\ UNCHANGED <<object, tickets>>

DeleteObject(c) ==
    /\ At(c, "deleting")
    /\ \E p \in client[c].left :
          /\ object' = [object EXCEPT ![p] = Missing]
          /\ Goes(c, [client[c] EXCEPT !.left = @ \ {p},
                                       !.at = IF client[c].left = {p} THEN "unrecord" ELSE @])
    /\ UNCHANGED <<asset, tickets>>

Unrecord(c) ==
    LET r == client[c]
    IN /\ At(c, "unrecord")
       /\ IF Readable
            THEN /\ asset' = [asset EXCEPT !.parts = [p \in Parts |-> IF p \in r.wrong THEN Missing ELSE @[p]]]
                 /\ Goes(c, r.then)
            ELSE UNCHANGED asset /\ Ends(c)
       /\ UNCHANGED <<object, tickets>>

\* The client goes away, a request fails, or the server restarts.
Abandon(c) ==
    /\ client[c] # IdleClient /\ Ends(c)
    /\ UNCHANGED <<asset, object, tickets>>

UploadStep(c) ==
    \/ Put(c) \/ RecordPart(c) \/ HeadPart(c) \/ ReadPart(c) \/ ComparePart(c) \/ AcceptArchive(c)
    \/ BeginDiscard(c) \/ DeleteObject(c) \/ Unrecord(c)
UploadNext ==
    \/ \E c \in Clients :
          \/ \E p \in Parts, b \in Bytes : BeginPart(c, p, b) \/ (p \in DirectParts /\ PartUploaded(c, p, b))
          \/ Complete(c) \/ UploadStep(c) \/ Abandon(c)
    \/ \E p \in DirectParts : IssueTicket(p) \/ \E b \in {"good", "bad", "short"} : DirectPut(p, b)

------------
(* Once the archive is verified its parts are in use, and no earlier
   observation removes one: every part is recorded and its object holds
   the bytes of the archive, whoever was still at work on it. *)
VerifiedIsStored ==
    asset.verified => \A p \in Parts : asset.parts[p] = "good" /\ object[p] = "good"

------------
(* The copy of a verified dataset archive to the storage of the trainings:
   a paid job that its asset's record names before it is sent.  A request
   holds the delivery lock of the asset; a new request may replace one
   whose job is proven to have ended without success.  The job itself
   reports READY under the service lock only. *)
CONSTANTS CopyRequests, \* request ids, each the slot of its job
          Nothing

ASSUME DatasetAssumption ==
    NParts \in Nat \ {0} /\ DirectParts \subseteq Parts /\ CopyRequests \subseteq Slots /\ Nothing \notin CopyRequests

VARIABLES
    copy,       \* the asset's record: the request it names, and READY
    superseded, \* the requests whose frozen job was put aside
    publishing  \* the request that holds the delivery lock

copyVars == <<copy, superseded, publishing>>

NotPublishing == [at |-> "idle", request |-> Nothing]

CopyInit ==
    /\ copy = [request |-> Nothing, ready |-> FALSE]
    /\ superseded = {}
    /\ publishing = NotPublishing

ThenAt(step) == publishing' = [publishing EXCEPT !.at = step]

------------
\* publish_dataset: READY needs no job.
Publish(r) ==
    /\ publishing = NotPublishing /\ ~copy.ready
    /\ publishing' = [at |-> IF copy.request \in {Nothing, r} THEN "replace" ELSE "prove", request |-> r]
    /\ UNCHANGED <<copy, superseded, jobVars>>

(* prove_copy_replaceable: a request that was itself put aside never comes
   back, and the job of the current one is proven to have ended without
   success; a job that says it succeeded without READY proves nothing. *)
AllowsNewRequest(old) == Proven(old) = "failed"

\* Mutant: what is not known to run may be replaced.
NotRunning(old) == pjob[old] # "running"

Prove ==
    /\ publishing.at = "prove"
    /\ IF publishing.request \notin superseded /\ AllowsNewRequest(copy.request)
         THEN ThenAt("replace")
         ELSE publishing' = NotPublishing
    /\ UNCHANGED <<copy, superseded, jobVars>>

\* Mutant: the old job is forgotten.
Forgotten == superseded

(* Under the service lock again: the old job is put aside first, then one
   write replaces its identity, before any effect; the process may stop
   between the two. *)
PutAside == superseded \cup ({copy.request} \ {Nothing, publishing.request})

\* Mutant: the record is not read again.
StillReplaces == TRUE

\* The job may have reported READY in the meantime.
MayReplace == ~copy.ready

Replace ==
    /\ publishing.at = "replace"
    /\ IF ~MayReplace
         THEN publishing' = NotPublishing /\ UNCHANGED <<copy, superseded>>
         ELSE /\ superseded' = PutAside
              /\ \/ copy' = [copy EXCEPT !.request = publishing.request] /\ ThenAt("submit")
                 \/ UNCHANGED copy /\ publishing' = NotPublishing
    /\ UNCHANGED jobVars

SubmitCopy ==
    /\ publishing.at = "submit"
    /\ LET r == publishing.request
       IN slot' \in {Submitted(r, limit), OnlyPrepared(r, limit)}
    /\ publishing' = NotPublishing
    /\ UNCHANGED <<copy, superseded, pjob, limit>>

\* The server stops, or the request fails.
AbandonPublish ==
    /\ publishing # NotPublishing
    /\ publishing' = NotPublishing
    /\ UNCHANGED <<copy, superseded, jobVars>>

(* data_ready: the callback of a job that has copied the tree.  The job
   ends with success only once that was acknowledged. *)
DataReady ==
    /\ copy.request # Nothing
    /\ \E r \in CopyRequests : pjob[r] = "running"
    /\ copy' = [copy EXCEPT !.ready = TRUE]
    /\ UNCHANGED <<superseded, publishing, jobVars>>

CopyEnds(r) ==
    /\ pjob[r] = "running"
    /\ \E end \in IF copy.ready THEN Final ELSE {"failed"} : pjob' = [pjob EXCEPT ![r] = end]
    /\ UNCHANGED <<slot, limit, copyVars>>

CopyNext ==
    \/ \E r \in CopyRequests :
          \/ Publish(r) \/ CopyEnds(r)
          \/ Accept(r) /\ UNCHANGED copyVars
    \/ Prove \/ Replace \/ SubmitCopy \/ AbandonPublish \/ DataReady

------------
(* Every copy job that was ever sent is the one the asset names, or was
   put aside after it was proven to have ended without success: two paid
   copies never run, and none is forgotten. *)
CopiesAreAccounted ==
    \A r \in CopyRequests :
        slot[r].entry = "started" =>
            r = copy.request \/ (r \in superseded /\ pjob[r] = "failed")

(* Ready data never loses the request that brought it. *)
ReadyKeepsItsCopy == [][copy.ready => copy' = copy]_copyVars

------------
(* Upload and copies in one behaviour: they share no variable, and either
   may go on at any time. *)
DatasetsInit == UploadInit /\ JobsInit /\ CopyInit
DatasetsNext ==
    \/ UploadNext /\ UNCHANGED <<jobVars, copyVars>>
    \/ CopyNext /\ UNCHANGED uploadVars
DatasetsSpec == DatasetsInit /\ [][DatasetsNext]_<<uploadVars, jobVars, copyVars>>

(* A dataset that is verified is stored, byte for byte, and every job that
   makes a copy of one is accounted for, though requests are given up and
   superseded. *)
DatasetsAreStored == VerifiedIsStored /\ CopiesAreAccounted
=============================================================================

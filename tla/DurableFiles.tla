---------------------------- MODULE DurableFiles ----------------------------
(* One name of a directory, written by io/directory.rs: `publish_new`
   creates it, `replace_regular` replaces what it names, under the lock of
   the record.  A directory entry and the bytes of a file are in the cache
   of the machine first; until its fsync each may be lost by a crash, or
   not, whatever became of the others. *)
EXTENDS Naturals, FiniteSets

CONSTANTS Writers,      \* 1..n: the calls; a writer is also the inode of its temporary file
          Publications, \* the sets of them that call publish_new; the others replace_regular
          MaxCrashes    \* bound: crashes of the machine

ASSUME WritersAssumption ==
    IsFiniteSet(Writers) /\ Writers = 1..Cardinality(Writers) /\ Publications \subseteq SUBSET Writers

Unnamed == 0
Older == Cardinality(Writers) + 1  \* the inode of a record that was there before

VARIABLES publishers,   \* the ones that call publish_new
          entry,        \* what the name refers to: an inode, or Unnamed
          durable,      \* what it may refer to after a crash
          file,         \* for each inode its bytes, whether they are on disk, the updates they contain
          flock,        \* the open description that holds the lock of the record, or Unnamed
          refs,         \* who has the description of a writer open: itself, a child between fork and exec
          writing,      \* where each call is
          native,       \* the file system has a rename that does not replace
          crashes

entryVars == <<entry, durable>>
lockVars == <<flock, refs>>
fileVars == <<publishers, entry, durable, file, flock, refs, writing, native, crashes>>

FilesInit ==
    /\ publishers \in Publications
    /\ entry = (IF publishers = {} THEN Older ELSE Unnamed) /\ durable = {entry}
    /\ file = [w \in Writers \cup {Older} |->
                 [bytes |-> IF w = Older THEN "whole" ELSE "none", synced |-> w = Older, holds |-> {}]]
    /\ flock = Unnamed /\ refs = [w \in Writers |-> {}]
    /\ writing = [w \in Writers |-> IF w \in publishers THEN "temporary" ELSE "lock"]
    /\ native \in BOOLEAN /\ crashes = 0

Finished == {"ok", "exists", "error", "busy", "gone"}

\* A change of the entry is in the cache; fsync of the directory makes it last.
Enter(w) == entry' = w /\ durable' = durable \cup {w}
SyncEntry == entry' = entry /\ durable' = {entry}
To(w, at) == writing' = [writing EXCEPT ![w] = at]

------------
\* acquire: a fresh description per call, so that two of one process exclude each other.
Lock(w) ==
    /\ writing[w] = "lock" /\ flock = Unnamed
    /\ flock' = w /\ refs' = [refs EXCEPT ![w] = {"self"}] /\ To(w, "read")
    /\ UNCHANGED <<publishers, entryVars, file, native, crashes>>

\* Try at once, until at the deadline or when cancelled: WouldBlock.
LockIsHeld(w) ==
    /\ writing[w] = "lock" /\ flock # Unnamed /\ To(w, "busy")
    /\ UNCHANGED <<publishers, entryVars, file, lockVars, native, crashes>>

\* Mutant: the lock is released by closing the descriptor only.
CloseOnly(w) ==
    /\ refs' = [refs EXCEPT ![w] = @ \ {"self"}]
    /\ flock' = IF flock = w /\ refs'[w] = {} THEN Unnamed ELSE flock

\* Drop of a FileLock: an explicit unlock, then the descriptor is closed.
Unlock(w) ==
    /\ refs' = [refs EXCEPT ![w] = @ \ {"self"}]
    /\ flock' = IF flock = w THEN Unnamed ELSE flock

\* The call ends, and with it the lock of a replacer.
EndCall(w, result) ==
    /\ To(w, result)
    /\ IF w \in publishers THEN UNCHANGED lockVars ELSE Unlock(w)

\* A concurrent Command forks: its child has the description until it executes.
Fork(w) ==
    /\ "self" \in refs[w] /\ "child" \notin refs[w]
    /\ refs' = [refs EXCEPT ![w] = @ \cup {"child"}]
    /\ UNCHANGED <<publishers, entryVars, file, flock, writing, native, crashes>>

ChildExecutes(w) ==
    /\ "child" \in refs[w]
    /\ refs' = [refs EXCEPT ![w] = @ \ {"child"}]
    /\ flock' = IF flock = w /\ refs'[w] = {} THEN Unnamed ELSE flock
    /\ UNCHANGED <<publishers, entryVars, file, writing, native, crashes>>

\* The caller reads the record it is about to replace, which must be there.
ReadRecord(w) ==
    /\ writing[w] = "read"
    /\ IF entry = Unnamed THEN UNCHANGED file /\ EndCall(w, "error")
       ELSE file' = [file EXCEPT ![w].holds = file[entry].holds] /\ To(w, "temporary") /\ UNCHANGED lockVars
    /\ UNCHANGED <<publishers, entryVars, native, crashes>>

------------
\* The temporary file, of a name of its own, and its bytes.
WriteAll(w) ==
    /\ writing[w] = "temporary"
    /\ \E bytes \in {"part", "whole"} :
         /\ file' = [file EXCEPT ![w].bytes = bytes, ![w].holds = @ \cup {w}]
         /\ To(w, IF bytes = "whole" THEN "sync" ELSE "clean")
    /\ UNCHANGED <<publishers, entryVars, lockVars, native, crashes>>

\* Mutant: the bytes are left to the cache.
NoSync(w) == file' = file /\ To(w, "rename")

SyncBytes(w) ==
    \/ file' = [file EXCEPT ![w].synced = TRUE] /\ To(w, "rename")
    \/ file' = file /\ To(w, "clean")

SyncAll(w) ==
    /\ writing[w] = "sync" /\ SyncBytes(w)
    /\ UNCHANGED <<publishers, entryVars, lockVars, native, crashes>>

\* Mutant: a publication renames over what is there.
Unconditional(w) == TRUE

\* RENAME_NOREPLACE and linkat refuse a name that is taken; renameat does not.
MayTake(w) == w \in publishers => entry = Unnamed

Rename(w) ==
    /\ writing[w] = "rename" /\ (w \in publishers => native)
    /\ IF MayTake(w) THEN Enter(w) /\ To(w, "fsync") ELSE UNCHANGED entryVars /\ To(w, "exists")
    /\ UNCHANGED <<publishers, file, lockVars, native, crashes>>

\* link_regular_new, where the file system has no such rename.
Link(w) ==
    /\ writing[w] = "rename" /\ w \in publishers /\ ~native
    /\ IF MayTake(w) THEN Enter(w) /\ To(w, "linked") ELSE UNCHANGED entryVars /\ To(w, "exists")
    /\ UNCHANGED <<publishers, file, lockVars, native, crashes>>

\* It syncs the link, then removes the temporary name.
SyncLink(w) ==
    /\ writing[w] = "linked"
    /\ (SyncEntry /\ To(w, "fsync")) \/ (UNCHANGED entryVars /\ To(w, "clean"))
    /\ UNCHANGED <<publishers, file, lockVars, native, crashes>>

SyncDirectory(w) ==
    /\ writing[w] = "fsync"
    /\ \/ SyncEntry /\ EndCall(w, "ok")
       \/ UNCHANGED <<entryVars, lockVars>> /\ To(w, "clean")
    /\ UNCHANGED <<publishers, file, native, crashes>>

\* An error may mean that it was published: only the temporary name is removed.
RemoveTemporary(w) ==
    /\ writing[w] = "clean" /\ EndCall(w, "error")
    /\ SyncEntry \/ UNCHANGED entryVars
    /\ UNCHANGED <<publishers, file, native, crashes>>

------------
Begun(w) == writing[w] \notin Finished \cup {IF w \in publishers THEN "temporary" ELSE "lock"}

\* A process is killed: its descriptors are closed, the cache stays.
Kill(w) ==
    /\ Begun(w) /\ To(w, "gone")
    /\ refs' = [refs EXCEPT ![w] = @ \ {"self"}]
    /\ flock' = IF flock = w /\ refs'[w] = {} THEN Unnamed ELSE flock
    /\ UNCHANGED <<publishers, entryVars, file, native, crashes>>

\* The machine stops: every call that began, the locks and the cache are gone.
MachineStops ==
    /\ crashes < MaxCrashes /\ crashes' = crashes + 1
    /\ \E left \in durable : entry' = left /\ durable' = {left}
    /\ file' = [w \in DOMAIN file |-> IF file[w].synced THEN file[w] ELSE [file[w] EXCEPT !.bytes = "part"]]
    /\ writing' = [w \in Writers |-> IF Begun(w) THEN "gone" ELSE writing[w]]
    /\ flock' = Unnamed /\ refs' = [w \in Writers |-> {}]
    /\ UNCHANGED <<publishers, native>>

FilesNext ==
    \/ MachineStops
    \/ \E w \in Writers : \/ Lock(w) \/ LockIsHeld(w) \/ Fork(w) \/ ChildExecutes(w) \/ ReadRecord(w)
                          \/ WriteAll(w) \/ SyncAll(w) \/ Rename(w) \/ Link(w) \/ SyncLink(w) \/ SyncDirectory(w)
                          \/ RemoveTemporary(w) \/ Kill(w)

FilesSpec == FilesInit /\ [][FilesNext]_fileVars

------------
(* What a call reported as written is in the record, with every update
   reported before it, and in whatever record a crash leaves: no
   publication clobbers, no update is lost, success is durable. *)
SuccessIsKept ==
    \A w \in Writers : writing[w] = "ok" =>
        \A kept \in durable : kept # Unnamed /\ w \in file[kept].holds

(* A name never refers to bytes that are not all there, now or after a
   crash: a reader of the record meets no half of one. *)
NothingPartial ==
    \A kept \in durable \ {Unnamed} : file[kept].bytes = "whole" /\ file[kept].synced

(* A lock that was dropped is free, whatever a concurrent fork inherited:
   only a killed owner leaves it to a child, until that child executes. *)
DroppedIsFree ==
    flock # Unnamed =>
        writing[flock] \notin Finished \/ (writing[flock] = "gone" /\ "child" \in refs[flock])

(* A write that is reported survives a crash and every later write, no
   reader meets half of one, and a lock that was dropped is free. *)
PublicationIsDurable == SuccessIsKept /\ NothingPartial /\ DroppedIsFree
=============================================================================

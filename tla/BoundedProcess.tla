--------------------------- MODULE BoundedProcess ---------------------------
(* The log of a process, as io/process.rs captures it: the first half of
   its limit, a seam, and the newest output, written as it arrives, so
   that it is there when the supervisor is killed.  A byte of output is
   its position in it; the bytes of the seam are 0. *)
EXTENDS Naturals, FiniteSets, SequencesExt

CONSTANTS LogLimits,  \* the limits of a log
          SeamBytes,  \* the length of the seam
          MaxOutput   \* bound: bytes of output

ASSUME LimitHoldsSeam ==
    /\ SeamBytes \in Nat /\ SeamBytes > 1
    /\ \A limit \in LogLimits : limit \in Nat /\ limit >= 4 * SeamBytes

VARIABLES log, capacity,
          capture   \* CaptureState: what it received and retained, the newest bytes, its digests
logVars == <<log, capacity, capture>>

SeamOf == [i \in 1..SeamBytes |-> 0]
HeadEnd == capacity \div 2
TailStart == HeadEnd + SeamBytes
Kept == (capacity - TailStart) \div 2

\* A digest is the sequence of the bytes it was fed.
LogInit ==
    /\ capacity \in LogLimits /\ log = <<>>
    /\ capture = [at |-> "write", received |-> 0, retained |-> 0, left |-> 0, moved |-> 0, newest |-> <<>>,
                  digest |-> <<>>, head |-> <<>>, dropped |-> FALSE, failed |-> FALSE]

Received(n) == [i \in 1..n |-> capture.received - capture.left + i]
PutAt(bytes, offset) == [i \in 1..IF Len(log) > offset + Len(bytes) THEN Len(log) ELSE offset + Len(bytes) |->
                            IF i > offset /\ i <= offset + Len(bytes) THEN bytes[i - offset] ELSE log[i]]
MoveOn(at) == capture' = [capture EXCEPT !.at = at, !.moved = 0]

------------
\* push: a read of the pipe; once a write failed the output is only counted.
Push ==
    /\ capture.at = "write" /\ capture.left = 0
    /\ \E n \in 1..3 :
         /\ capture.received + n <= MaxOutput
         /\ capture' = [capture EXCEPT !.received = @ + n, !.left = IF capture.failed THEN 0 ELSE n]
    /\ UNCHANGED <<log, capacity>>

Boundary == CHOOSE b \in {HeadEnd, capacity - Kept, capacity} :
                /\ b > capture.retained
                /\ \A c \in {HeadEnd, capacity - Kept, capacity} : c > capture.retained => b <= c

\* write_at, which may write less; a write is on one side of each boundary.
WriteOutput ==
    /\ capture.at = "write" /\ capture.left > 0 /\ capture.retained < capacity
    /\ \E n \in 1..capture.left :
         /\ capture.retained + n <= Boundary
         /\ log' = PutAt(Received(n), capture.retained)
         /\ LET digest == capture.digest \o Received(n) IN
            capture' = [capture EXCEPT
                !.digest = digest, !.retained = @ + n, !.left = @ - n,
                !.newest = IF capture.retained >= capacity - Kept THEN @ \o Received(n) ELSE @,
                !.head = IF capture.retained + n = HeadEnd THEN digest \o SeamOf ELSE @]
    /\ UNCHANGED capacity

\* Mutant: the log is cut before its end was moved.
CutFirst == "cut"

AfterSeam == "move"

\* The log is full: the seam, byte after byte, over what follows the first half.
WriteSeam ==
    /\ \/ capture.at = "write" /\ capture.left > 0 /\ capture.retained = capacity
       \/ capture.at = "seam"
    /\ log' = PutAt(<<0>>, HeadEnd + capture.moved)
    /\ IF capture.moved + 1 = SeamBytes THEN MoveOn(AfterSeam)
       ELSE capture' = [capture EXCEPT !.at = "seam", !.moved = @ + 1]
    /\ UNCHANGED capacity

\* The newest bytes are moved back to the seam.
MoveNewest ==
    /\ capture.at = "move"
    /\ log' = PutAt(<<capture.newest[capture.moved + 1]>>, TailStart + capture.moved)
    /\ IF capture.moved + 1 = Len(capture.newest) THEN MoveOn("cut")
       ELSE capture' = [capture EXCEPT !.moved = @ + 1]
    /\ UNCHANGED capacity

\* Mutant: the digest goes on from what was dropped.
DigestGoesOn == capture.digest

DigestOfMoved == capture.head \o capture.newest

\* set_len, and the account of what was dropped.
CutLog ==
    /\ capture.at = "cut" /\ log' = SubSeq(log, 1, TailStart + Kept)
    /\ capture' = [capture EXCEPT !.at = "write", !.moved = 0, !.retained = TailStart + Kept, !.dropped = TRUE,
                                  !.digest = DigestOfMoved, !.newest = <<>>]
    /\ UNCHANGED capacity

\* Any write fails: what is left of the output is not retained.
WriteFails ==
    /\ ~capture.failed /\ (capture.left > 0 \/ capture.at # "write")
    /\ capture' = [capture EXCEPT !.at = "write", !.failed = TRUE, !.left = 0]
    /\ UNCHANGED <<log, capacity>>

LogNext == Push \/ WriteOutput \/ WriteSeam \/ MoveNewest \/ CutLog \/ WriteFails

------------
Written == capture.received - capture.left

(* Whenever the supervisor is killed, between any two bytes of a move, the
   log ends with the newest output and starts with the first. *)
EndIsThere ==
    ~capture.failed =>
        LET end == IF Written < Kept THEN Written ELSE Kept
            start == IF Written < HeadEnd THEN Written ELSE HeadEnd
        IN  /\ SubSeq(log, Len(log) - end + 1, Len(log)) = [i \in 1..end |-> Written - end + i]
            /\ SubSeq(log, 1, start) = [i \in 1..start |-> i]

(* Between two reads the log is within its limit, has the bytes that were
   digested, and misses as many bytes of output as the receipt will say. *)
LogIsAccounted ==
    capture.at = "write" /\ capture.left = 0 /\ ~capture.failed =>
        /\ log = capture.digest /\ Len(log) = capture.retained /\ Len(log) <= capacity
        /\ LET dropped == capture.received - (capture.retained - IF capture.dropped THEN SeamBytes ELSE 0)
           IN  dropped = Cardinality({b \in 1..capture.received : b \notin ToSet(log)})

------------
(* A process that io/process.rs executes once: it leads a group of its
   own, whose number is free for others once its leader was reaped.  The
   group ends by itself, at a deadline or when cancelled; a process that
   left the group may keep the pipe of the output. *)
CONSTANTS MaxWritten   \* bound: pieces of output

VARIABLES leader,      \* "none", "alive", "zombie", "reaped"
          member,      \* another process of the group is alive, and whether it ignores SIGTERM
          escaped,     \* a process that left the group is alive and has the pipe
          stranger,    \* another group has the number
          pipe,        \* output in the pipe, and what was read of it
          supervisor,  \* where execute is, the result so far
          struck       \* a signal reached the stranger
processVars == <<leader, member, escaped, stranger, pipe, supervisor, struck>>

ProcessInit ==
    /\ leader = "none" /\ member \in {"no", "yes", "stubborn"} /\ escaped \in BOOLEAN /\ stranger = FALSE
    /\ pipe = [written |-> 0, read |-> 0, open |-> TRUE]
    /\ supervisor = [at |-> "spawn", timedOut |-> FALSE, cancelled |-> FALSE, failure |-> FALSE]
    /\ struck = FALSE

ProcessStep(at) == supervisor' = [supervisor EXCEPT !.at = at]
ProcessFails(at, field) == supervisor' = [supervisor EXCEPT !.at = at, ![field] = TRUE]
ProcessIs(at) == supervisor.at = at
HasPipe == leader = "alive" \/ member # "no" \/ escaped
EndOfFile == ~HasPipe /\ pipe.read = pipe.written

------------
\* Cancelled or late before anything started; a spawn may fail.
SpawnProcess ==
    /\ ProcessIs("spawn")
    /\ \/ leader' = "alive" /\ ProcessStep("loop")
       \/ leader' = "none" /\ \E why \in {"timedOut", "cancelled", "failure"} : ProcessFails("returned", why)
    /\ UNCHANGED <<member, escaped, stranger, pipe, struck>>

\* drain: a bounded number of reads, until there is nothing or the end.
Drain ==
    /\ supervisor.at \in {"loop", "grace", "drain"} /\ pipe.open
    /\ \/ pipe.read < pipe.written /\ pipe' = [pipe EXCEPT !.read = @ + 1] /\ UNCHANGED supervisor
       \/ EndOfFile /\ pipe' = [pipe EXCEPT !.open = FALSE] /\ UNCHANGED supervisor
       \/ ProcessIs("loop") /\ pipe' = pipe /\ ProcessFails("term", "failure")
    /\ UNCHANGED <<leader, member, escaped, stranger, struck>>

\* Mutant: asking whether the leader exited reaps it.
TryWait == leader' = "reaped"

LeaveZombie == leader' = leader

\* exited: WNOWAIT leaves the leader, and with it the number of the group.
SeesExit ==
    /\ supervisor.at \in {"loop", "grace"} /\ leader = "zombie" /\ LeaveZombie
    /\ ProcessStep(IF ProcessIs("loop") THEN "term" ELSE "kill")
    /\ UNCHANGED <<member, escaped, stranger, pipe, struck>>

\* The pump stops early: cancelled, at the deadline.
StopPumping ==
    /\ ProcessIs("loop") /\ \E why \in {"timedOut", "cancelled"} : ProcessFails("term", why)
    /\ UNCHANGED <<leader, member, escaped, stranger, pipe, struck>>

\* kill(-pid): whoever has the number of the group.
Signalled == struck' = (struck \/ (leader = "reaped" /\ stranger))

\* SIGTERM ends the leader or not, and what does not ignore it.
Terminate ==
    /\ ProcessIs("term") /\ Signalled /\ ProcessStep("grace")
    /\ leader' \in IF leader = "alive" THEN {"alive", "zombie"} ELSE {leader}
    /\ member' = IF member = "yes" THEN "no" ELSE member
    /\ UNCHANGED <<escaped, stranger, pipe>>

GraceIsOver ==
    /\ ProcessIs("grace") /\ ProcessStep("kill")
    /\ UNCHANGED <<leader, member, escaped, stranger, pipe, struck>>

\* Mutant: the group is killed only when its leader did not end.
KillLeaderOnly == IF leader = "alive" THEN leader' = "zombie" /\ member' = "no" ELSE UNCHANGED <<leader, member>>

KillGroup == leader' = (IF leader = "alive" THEN "zombie" ELSE leader) /\ member' = "no"

Kill9 ==
    /\ ProcessIs("kill") /\ Signalled /\ KillGroup /\ ProcessStep("reap")
    /\ UNCHANGED <<escaped, stranger, pipe>>

Reap ==
    /\ ProcessIs("reap") /\ leader \in {"zombie", "reaped"} /\ leader' = "reaped" /\ ProcessStep("drain")
    /\ UNCHANGED <<member, escaped, stranger, pipe, struck>>

\* Mutant: output that may still come is not waited for, and no failure.
NothingMissing == ProcessStep("returned")

PipeStaysOpen == ProcessFails("returned", "failure")

\* At the end of the pipe, or when the last budget is spent.
ProcessReturns ==
    /\ ProcessIs("drain")
    /\ IF pipe.open THEN PipeStaysOpen ELSE ProcessStep("returned")
    /\ UNCHANGED <<leader, member, escaped, stranger, pipe, struck>>

------------
\* The processes: output, exits, and the number of a reaped group given to another.
WriteToPipe ==
    /\ leader # "none" /\ HasPipe /\ pipe.written < MaxWritten
    /\ pipe' = [pipe EXCEPT !.written = @ + 1]
    /\ UNCHANGED <<leader, member, escaped, stranger, supervisor, struck>>

ProcessExits ==
    /\ leader # "none"
    /\ \/ leader = "alive" /\ leader' = "zombie" /\ UNCHANGED <<member, escaped>>
       \/ member # "no" /\ member' = "no" /\ UNCHANGED <<leader, escaped>>
       \/ escaped /\ escaped' = FALSE /\ UNCHANGED <<leader, member>>
    /\ UNCHANGED <<stranger, pipe, supervisor, struck>>

NumberIsReused ==
    /\ leader = "reaped" /\ member = "no" /\ ~stranger /\ stranger' = TRUE
    /\ UNCHANGED <<leader, member, escaped, pipe, supervisor, struck>>

ProcessNext ==
    \/ SpawnProcess \/ Drain \/ SeesExit \/ StopPumping \/ Terminate \/ GraceIsOver \/ Kill9 \/ Reap \/ ProcessReturns
    \/ WriteToPipe \/ ProcessExits \/ NumberIsReused

------------
(* No signal reaches a group that is not the one that was started, though
   its number may be given to another as soon as its leader was reaped. *)
OnlyOwnGroup == ~struck

(* When execute returns nothing of the group it started runs any more. *)
GroupIsGone == ProcessIs("returned") /\ leader # "none" => leader = "reaped" /\ member = "no"

(* A result without a failure has the whole output of all who could write
   it: nothing is still to come. *)
OutputIsWhole ==
    ProcessIs("returned") /\ leader # "none" /\ ~supervisor.failure => pipe.read = pipe.written /\ ~HasPipe

------------
(* A bounded process leaves nothing of its group, signals no other, and
   its output is whole or its result says that it is not, also in a log
   that is cut. *)
ProcessesEndWhole == OnlyOwnGroup /\ GroupIsGone /\ OutputIsWhole /\ EndIsThere /\ LogIsAccounted

\* The capture of the output and the supervisor share no state.
EndsSpec ==
    /\ LogInit /\ ProcessInit
    /\ [][\/ LogNext /\ UNCHANGED processVars
          \/ ProcessNext /\ UNCHANGED logVars]_<<logVars, processVars>>
=============================================================================

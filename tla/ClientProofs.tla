---------------------------- MODULE ClientProofs ----------------------------
(* The client's commands: what one of them submits, however often it is
   tried and wherever it is stopped; what a batch starts of its children;
   and what the user is shown.  The server answers late, or not at all,
   and the records of the client are two files written one after the
   other, so each invariant says what the records, the requests under way
   and the server's state allow of one another. *)
EXTENDS ClientSubmission, ClientCommand, FiniteSetTheorems, TLAPS

------------
(* The commands of a Run.  What keeps an Attempt in doubt the last one: it
   is on every record that a later command could begin with, and a command
   about it only finds out what became of it. *)
Kinds == {"none", "submit", "retry"}
Places == {"idle", "look", "prepare", "remember", "send", "reply", "observe", "settle", "watch",
           "show", "author", "renewed"}
Choices == Starts \cup {"start"}
Found == {"none", "EXECUTING", "RECONCILE_REQUIRED", "VERIFIED"}
RunCommands == [kind : Kinds, at : Places, id : Nat, start : Choices, unsettled : BOOLEAN,
                repeat : BOOLEAN, seen : Found]
RunCommand(k, a, i, s, u, r, e) ==
    [kind |-> k, at |-> a, id |-> i, start |-> s, unsettled |-> u, repeat |-> r, seen |-> e]
RunRecords == [kept : BOOLEAN, id : Nat, unsettled : BOOLEAN]
Statuses == {"none", "PREPARED", "BLOCKED", "EXECUTING", "RECONCILE_REQUIRED", "VERIFIED"}
JobStates == {"none", "running", "over"}

Doubted == doubt \ forgotten
WasSent(a) == a \in posts \/ MayExist(status[a])
Sendings == {"remember", "send", "reply"}
\* The command has sent its request, or found it sent.
PastSend(c) == c.at \in {"reply", "observe", "settle", "watch"} /\ ~c.repeat
\* A submit beyond its question whether there is a job.
Fresh(c) == c.kind = "submit" /\ (c.at \in {"prepare", "remember", "send"} \/ PastSend(c))

SubmitTypeOK ==
    /\ prepared \in BOOLEAN /\ tries \in 0..Tries
    /\ status \in [AttemptsOf -> Statuses]
    /\ job \in [AttemptsOf -> JobStates]
    /\ startOf \in [AttemptsOf -> Choices]
    /\ posts \subseteq 1..tries /\ doubt \subseteq 1..tries
    /\ command \in RunCommands /\ command.id <= tries
    /\ latest \in RunRecords /\ own \in RunRecords

RecordOf(r) == r.id <= tries /\ (r.id > 0 => r.kept)

ServerFollows ==
    /\ tries > 0 => prepared
    /\ \A a \in AttemptsOf : a < tries => job[a] = "over"
    /\ \A a \in AttemptsOf : a > tries => status[a] = "none"
    /\ \A a \in AttemptsOf : job[a] # "none" => status[a] \in {"VERIFIED", "RECONCILE_REQUIRED"}
    /\ \A a \in AttemptsOf : status[a] = "VERIFIED" => job[a] # "none"

\* What a command of each kind is about at each place.
InItsPlace(c) ==
    /\ c.kind = "none" => c.at = "idle"
    /\ c.kind = "submit" => c.at \notin {"idle", "show", "author", "renewed"}
    /\ c.kind = "retry" => c.id >= 1 /\ c.at \notin {"idle", "look", "prepare"}
    /\ c.at \in Sendings \cup {"observe", "settle", "watch"} => c.id >= 1
    /\ c.at \in Sendings \cup {"show"} => ~c.repeat
    /\ c.at \in {"author", "renewed"} => c.repeat /\ ~c.unsettled
    /\ c.kind = "submit" /\ c.repeat => c.at \in {"observe", "watch"}

CommandKnows ==
    /\ Fresh(command) => tries <= 1
    /\ command.at \in {"send", "reply"} => own = Sent(command.id, TRUE) /\ latest = Sent(command.id, TRUE)
    /\ command.at \in {"settle", "watch"} /\ command.seen = "VERIFIED" => job[command.id] # "none"
    /\ command.at = "renewed" => tries = command.id + 1

\* Whoever is in doubt is on the records, and on the command about it.
OnRecord(a) ==
    /\ a = tries
    /\ own = Sent(a, TRUE)
    /\ latest.kept => latest = Sent(a, TRUE)
    /\ command.kind = "retry" => command.id = a /\ (command.unsettled \/ PastSend(command))
    /\ Fresh(command) => PastSend(command) /\ command.id = a

DoubtIsRecorded == \A a \in Doubted : OnRecord(a)

\* No record and no retry is of an Attempt before one that was sent.
NotBefore(a) ==
    a >= 2 /\ WasSent(a) =>
       /\ own.id >= a
       /\ latest.kept => latest.id >= a
       /\ command.kind = "retry" => command.id >= a

RecordsFollow == \A a \in AttemptsOf : NotBefore(a)

StartIsChosen ==
    command.kind = "retry" /\ command.start # "start" =>
       /\ command.at = "renewed" => startOf[tries] = command.start
       /\ command.at \in Sendings \/ PastSend(command) => startOf[command.id] = command.start
       /\ command.repeat /\ command.at \in {"observe", "settle"} => ~command.unsettled
       /\ command.repeat => command.at # "watch"

ReportedIsThere == \A r \in reported : r[1] \in 1..tries

SubmitInv ==
    /\ SubmitTypeOK /\ RecordOf(own) /\ RecordOf(latest)
    /\ ServerFollows /\ InItsPlace(command) /\ CommandKnows
    /\ DoubtIsRecorded /\ RecordsFollow /\ StartIsChosen /\ ReportedIsThere /\ RetriedAsChosen

------------
LEMMA CommandFields ==
    ASSUME NEW c \in RunCommands
    PROVE  /\ c.kind \in Kinds /\ c.at \in Places /\ c.id \in Nat /\ c.start \in Choices
           /\ c.unsettled \in BOOLEAN /\ c.repeat \in BOOLEAN /\ c.seen \in Found
           /\ c = RunCommand(c.kind, c.at, c.id, c.start, c.unsettled, c.repeat, c.seen)
  BY DEF RunCommands, RunCommand

LEMMA CommandIsMade ==
    ASSUME NEW k \in Kinds, NEW a \in Places, NEW i \in Nat, NEW s \in Choices,
           NEW u \in BOOLEAN, NEW r \in BOOLEAN, NEW e \in Found
    PROVE  LET c == RunCommand(k, a, i, s, u, r, e)
           IN /\ c \in RunCommands
              /\ c.kind = k /\ c.at = a /\ c.id = i /\ c.start = s /\ c.unsettled = u /\ c.repeat = r /\ c.seen = e
  BY DEF RunCommands, RunCommand

LEMMA KindChanges ==
    \A c \in RunCommands, k \in Kinds :
       [c EXCEPT !.kind = k] = RunCommand(k, c.at, c.id, c.start, c.unsettled, c.repeat, c.seen)
  BY DEF RunCommands, RunCommand
LEMMA PlaceChanges ==
    \A c \in RunCommands, a \in Places :
       [c EXCEPT !.at = a] = RunCommand(c.kind, a, c.id, c.start, c.unsettled, c.repeat, c.seen)
  BY DEF RunCommands, RunCommand
LEMMA IdChanges ==
    \A c \in RunCommands, i \in Nat :
       [c EXCEPT !.id = i] = RunCommand(c.kind, c.at, i, c.start, c.unsettled, c.repeat, c.seen)
  BY DEF RunCommands, RunCommand
LEMMA StartChanges ==
    \A c \in RunCommands, s \in Choices :
       [c EXCEPT !.start = s] = RunCommand(c.kind, c.at, c.id, s, c.unsettled, c.repeat, c.seen)
  BY DEF RunCommands, RunCommand
LEMMA UnsettledChanges ==
    \A c \in RunCommands, u \in BOOLEAN :
       [c EXCEPT !.unsettled = u] = RunCommand(c.kind, c.at, c.id, c.start, u, c.repeat, c.seen)
  BY DEF RunCommands, RunCommand
LEMMA RepeatChanges ==
    \A c \in RunCommands, r \in BOOLEAN :
       [c EXCEPT !.repeat = r] = RunCommand(c.kind, c.at, c.id, c.start, c.unsettled, r, c.seen)
  BY DEF RunCommands, RunCommand
LEMMA SeenChanges ==
    \A c \in RunCommands, e \in Found :
       [c EXCEPT !.seen = e] = RunCommand(c.kind, c.at, c.id, c.start, c.unsettled, c.repeat, e)
  BY DEF RunCommands, RunCommand

LEMMA PromptIsCommand ==
    /\ Prompt \in RunCommands
    /\ Prompt = RunCommand("none", "idle", 0, "start", FALSE, FALSE, "none")
  BY DEF RunCommands, RunCommand, Prompt, Kinds, Places, Choices, Found

\* A command that moves, and what it keeps.
Moves(c, d, a, i, r, e) ==
    /\ d \in RunCommands /\ d.kind = c.kind /\ d.start = c.start /\ d.unsettled = c.unsettled
    /\ d.at = a /\ d.id = i /\ d.repeat = r /\ d.seen = e

LEMMA CommandGoes ==
    ASSUME NEW c \in RunCommands, NEW a \in Places PROVE Moves(c, [c EXCEPT !.at = a], a, c.id, c.repeat, c.seen)
<1>1. [c EXCEPT !.at = a] = RunCommand(c.kind, a, c.id, c.start, c.unsettled, c.repeat, c.seen) BY PlaceChanges, Zenon
<1> QED BY <1>1, CommandFields, CommandIsMade DEF Moves

LEMMA CommandNames ==
    ASSUME NEW c \in RunCommands, NEW a \in Places, NEW i \in Nat
    PROVE  Moves(c, [c EXCEPT !.at = a, !.id = i], a, i, c.repeat, c.seen)
<1> DEFINE d == [c EXCEPT !.at = a]
<1>1. Moves(c, d, a, c.id, c.repeat, c.seen) BY CommandGoes
<1>2. [d EXCEPT !.id = i] = [c EXCEPT !.at = a, !.id = i] BY Zenon
<1> HIDE DEF d
<1>3. d \in RunCommands BY <1>1 DEF Moves
<1>4. [d EXCEPT !.id = i] = RunCommand(d.kind, d.at, i, d.start, d.unsettled, d.repeat, d.seen) BY <1>3, IdChanges, Zenon
<1>6. Moves(c, [d EXCEPT !.id = i], a, i, c.repeat, c.seen)
 <2> DEFINE x == [d EXCEPT !.id = i]
 <2> HIDE DEF x
 <2> QED BY <1>1, <1>3, <1>4, CommandFields, CommandIsMade DEF x, Moves
<1> QED BY <1>2, <1>6, Zenon

LEMMA CommandTurns ==
    ASSUME NEW c \in RunCommands, NEW a \in Places, NEW r \in BOOLEAN
    PROVE  Moves(c, [c EXCEPT !.at = a, !.repeat = r], a, c.id, r, c.seen)
<1> DEFINE d == [c EXCEPT !.at = a]
           x == [d EXCEPT !.repeat = r]
<1>1. Moves(c, d, a, c.id, c.repeat, c.seen) BY CommandGoes
<1>2. x = [c EXCEPT !.at = a, !.repeat = r] BY Zenon
<1> HIDE DEF d
<1>3. d \in RunCommands BY <1>1 DEF Moves
<1>4. x = RunCommand(d.kind, d.at, d.id, d.start, d.unsettled, r, d.seen) BY <1>3, RepeatChanges, Zenon
<1> HIDE DEF x
<1>6. Moves(c, x, a, c.id, r, c.seen) BY <1>1, <1>3, <1>4, CommandFields DEF Moves, RunCommand, RunCommands
<1> QED BY <1>2, <1>6, Zenon

LEMMA CommandTurnsTo ==
    ASSUME NEW c \in RunCommands, NEW a \in Places, NEW i \in Nat, NEW r \in BOOLEAN
    PROVE  Moves(c, [c EXCEPT !.at = a, !.id = i, !.repeat = r], a, i, r, c.seen)
<1> DEFINE d == [c EXCEPT !.at = a, !.id = i]
           x == [d EXCEPT !.repeat = r]
<1>1. Moves(c, d, a, i, c.repeat, c.seen) BY CommandNames
<1>2. x = [c EXCEPT !.at = a, !.id = i, !.repeat = r] BY Zenon
<1> HIDE DEF d
<1>3. d \in RunCommands BY <1>1 DEF Moves
<1>4. x = RunCommand(d.kind, d.at, d.id, d.start, d.unsettled, r, d.seen) BY <1>3, RepeatChanges, Zenon
<1> HIDE DEF x
<1>6. Moves(c, x, a, i, r, c.seen) BY <1>1, <1>3, <1>4, CommandFields DEF Moves, RunCommand, RunCommands
<1> QED BY <1>2, <1>6, Zenon

LEMMA CommandSees ==
    ASSUME NEW c \in RunCommands, NEW e \in Found, NEW a \in Places
    PROVE  Moves(c, [c EXCEPT !.seen = e, !.at = a], a, c.id, c.repeat, e)
<1> DEFINE d == [c EXCEPT !.seen = e]
           x == [d EXCEPT !.at = a]
<1>1. d = RunCommand(c.kind, c.at, c.id, c.start, c.unsettled, c.repeat, e) BY SeenChanges, Zenon
<1>2. x = [c EXCEPT !.seen = e, !.at = a] BY Zenon
<1> HIDE DEF d
<1>a. /\ c.kind \in Kinds /\ c.at \in Places /\ c.id \in Nat /\ c.start \in Choices
      /\ c.unsettled \in BOOLEAN /\ c.repeat \in BOOLEAN
  BY CommandFields
<1> HIDE DEF x
<1>3. Moves(c, d, c.at, c.id, c.repeat, e)
 <2>1. d \in RunCommands BY <1>1, <1>a DEF RunCommand, RunCommands
 <2>2. /\ d.kind = c.kind /\ d.start = c.start /\ d.at = c.at /\ d.id = c.id /\ d.seen = e
   BY <1>1 DEF RunCommand
 <2>3. d.unsettled = c.unsettled /\ d.repeat = c.repeat BY <1>1 DEF RunCommand
 <2> QED BY <2>1, <2>2, <2>3 DEF Moves
<1>4. d \in RunCommands BY <1>3 DEF Moves
<1>5. Moves(d, x, a, d.id, d.repeat, d.seen) BY <1>4, CommandGoes DEF x
<1>6. Moves(c, x, a, c.id, c.repeat, e) BY <1>3, <1>5 DEF Moves
<1> QED BY <1>2, <1>6, Zenon

LEMMA SubmitIsBegun ==
    ASSUME NEW k \in Kinds, NEW a \in Places
    PROVE  [Prompt EXCEPT !.kind = k, !.at = a] = RunCommand(k, a, 0, "start", FALSE, FALSE, "none")
<1> DEFINE d == [Prompt EXCEPT !.kind = k]
           x == [d EXCEPT !.at = a]
<1>1. d = RunCommand(k, "idle", 0, "start", FALSE, FALSE, "none")
 <2>1. d = RunCommand(k, Prompt.at, Prompt.id, Prompt.start, Prompt.unsettled, Prompt.repeat, Prompt.seen)
   BY PromptIsCommand, KindChanges, Zenon
 <2> QED BY <2>1 DEF Prompt
<1>2. x = [Prompt EXCEPT !.kind = k, !.at = a] BY Zenon
<1> HIDE DEF d
<1>3. /\ d \in RunCommands /\ d.kind = k /\ d.id = 0 /\ d.start = "start" /\ d.unsettled = FALSE
      /\ d.repeat = FALSE /\ d.seen = "none"
  BY <1>1 DEF RunCommands, RunCommand, Kinds, Places, Choices, Found
<1>4. x = RunCommand(d.kind, a, d.id, d.start, d.unsettled, d.repeat, d.seen) BY <1>3, PlaceChanges, Zenon
<1> QED BY <1>2, <1>3, <1>4, Zenon

LEMMA RetryIsBegun ==
    ASSUME NEW i \in Nat, NEW u \in BOOLEAN, NEW s \in Choices
    PROVE  [Prompt EXCEPT !.kind = "retry", !.at = "show", !.id = i, !.unsettled = u, !.start = s]
             = RunCommand("retry", "show", i, s, u, FALSE, "none")
<1> DEFINE d == [Prompt EXCEPT !.kind = "retry", !.at = "show"]
           x == [d EXCEPT !.id = i]
           y == [x EXCEPT !.unsettled = u]
           z == [y EXCEPT !.start = s]
<1>1. d = RunCommand("retry", "show", 0, "start", FALSE, FALSE, "none") 
 <2>1. "retry" \in Kinds /\ "show" \in Places BY DEF Kinds, Places
 <2> QED BY <2>1, SubmitIsBegun, Zenon
<1>2. z = [Prompt EXCEPT !.kind = "retry", !.at = "show", !.id = i, !.unsettled = u, !.start = s] BY Zenon
<1> HIDE DEF d
<1>3. /\ d \in RunCommands /\ d.kind = "retry" /\ d.at = "show" /\ d.start = "start" /\ d.unsettled = FALSE
      /\ d.repeat = FALSE /\ d.seen = "none"
  BY <1>1 DEF RunCommands, RunCommand, Kinds, Places, Choices, Found
<1>4. x = RunCommand(d.kind, d.at, i, d.start, d.unsettled, d.repeat, d.seen) BY <1>3, IdChanges, Zenon
<1> HIDE DEF x
<1>5. /\ x \in RunCommands /\ x.kind = "retry" /\ x.at = "show" /\ x.id = i /\ x.start = "start"
      /\ x.repeat = FALSE /\ x.seen = "none"
  BY <1>3, <1>4 DEF RunCommands, RunCommand, Kinds, Places, Choices, Found
<1>6. y = RunCommand(x.kind, x.at, x.id, x.start, u, x.repeat, x.seen) BY <1>5, UnsettledChanges, Zenon
<1> HIDE DEF y
<1>7. /\ y \in RunCommands /\ y.kind = "retry" /\ y.at = "show" /\ y.id = i /\ y.unsettled = u
      /\ y.repeat = FALSE /\ y.seen = "none"
  BY <1>5, <1>6 DEF RunCommands, RunCommand, Kinds, Places, Choices, Found
<1>8. z = RunCommand(y.kind, y.at, y.id, s, y.unsettled, y.repeat, y.seen) BY <1>7, StartChanges, Zenon
<1> HIDE DEF z
<1>9. z = RunCommand("retry", "show", i, s, u, FALSE, "none") BY <1>7, <1>8
<1> QED BY <1>2, <1>9, Zenon

LEMMA RecordsAreMade ==
    /\ NoRecord \in RunRecords /\ NoRecord.id = 0 /\ NoRecord.kept = FALSE
    /\ \A a \in Nat : Sent(a, TRUE) \in RunRecords /\ Sent(a, FALSE) \in RunRecords
    /\ \A a : /\ Sent(a, TRUE).id = a /\ Sent(a, TRUE).kept = TRUE /\ Sent(a, TRUE).unsettled = TRUE
             /\ Sent(a, FALSE).id = a /\ Sent(a, FALSE).kept = TRUE /\ Sent(a, FALSE).unsettled = FALSE
  BY DEF NoRecord, Sent, RunRecords

LEMMA PromptFields ==
    /\ Prompt \in RunCommands /\ Prompt.kind = "none" /\ Prompt.at = "idle" /\ Prompt.id = 0
    /\ InItsPlace(Prompt) /\ ~Fresh(Prompt) /\ ~PastSend(Prompt)
  BY PromptIsCommand DEF Prompt, InItsPlace, Fresh, PastSend, Sendings

LEMMA SubmitStarts == SubmitInit => SubmitInv
<1> SUFFICES ASSUME SubmitInit PROVE SubmitInv OBVIOUS
<1> USE DEF SubmitInit
<1>1. SubmitTypeOK
 <2>1. command \in RunCommands /\ command.id = 0 BY PromptFields
 <2>2. latest \in RunRecords /\ own \in RunRecords BY RecordsAreMade
 <2>3. /\ status \in [AttemptsOf -> Statuses] /\ job \in [AttemptsOf -> JobStates]
       /\ startOf \in [AttemptsOf -> Choices]
   BY DEF Statuses, JobStates, Choices
 <2>4. prepared \in BOOLEAN /\ tries = 0 /\ posts = {} /\ doubt = {} OBVIOUS
 <2>5. tries \in 0..Tries BY <2>4, TriesAssumption
 <2>6. command.id <= tries BY <2>1, <2>4
 <2> QED BY <2>1, <2>2, <2>3, <2>4, <2>5, <2>6, Zenon DEF SubmitTypeOK
<1>2. RecordOf(own) /\ RecordOf(latest) BY RecordsAreMade DEF RecordOf
<1>3. ServerFollows BY DEF ServerFollows, AttemptsOf
<1>4. InItsPlace(command) /\ CommandKnows BY PromptFields DEF CommandKnows
<1>5. DoubtIsRecorded BY DEF DoubtIsRecorded, Doubted
<1>6. RecordsFollow BY DEF RecordsFollow, NotBefore, WasSent, MayExist
<1>7. StartIsChosen BY PromptFields DEF StartIsChosen
<1>8. ReportedIsThere /\ RetriedAsChosen BY DEF ReportedIsThere, RetriedAsChosen
<1> QED BY <1>1, <1>2, <1>3, <1>4, <1>5, <1>6, <1>7, <1>8 DEF SubmitInv

(* Steps of the server, which never undo that a job exists or was asked for. *)
LEMMA ServerKeeps ==
    ASSUME SubmitInv, UNCHANGED <<prepared, tries, startOf, command, latest, own, doubt, forgotten, reported>>,
           posts' \subseteq posts, status' \in [AttemptsOf -> Statuses], job' \in [AttemptsOf -> JobStates],
           \A a \in AttemptsOf :
             /\ status[a] = "none" => status'[a] = "none"
             /\ MayExist(status'[a]) => WasSent(a)
             /\ job[a] = "over" => job'[a] = "over"
             /\ job[a] # "none" => job'[a] # "none"
             /\ job'[a] # "none" => status'[a] \in {"VERIFIED", "RECONCILE_REQUIRED"}
             /\ status'[a] = "VERIFIED" => job'[a] # "none"
    PROVE  SubmitInv'
<1>1. SubmitTypeOK' BY DEF SubmitInv, SubmitTypeOK
<1>2. (RecordOf(own) /\ RecordOf(latest) /\ InItsPlace(command))' BY DEF SubmitInv, RecordOf
<1>3. ServerFollows' BY DEF SubmitInv, ServerFollows
<1>4. command.id >= 1 => command.id \in AttemptsOf
 <2> QED BY CommandFields, TriesAssumption DEF AttemptsOf, SubmitInv, SubmitTypeOK
<1>5. CommandKnows'
 <2> QED BY <1>4 DEF SubmitInv, CommandKnows, InItsPlace
<1>6. DoubtIsRecorded'
 <2> QED BY DEF DoubtIsRecorded, Doubted, SubmitInv, OnRecord
<1>7. RecordsFollow'
 <2> SUFFICES ASSUME NEW a \in AttemptsOf PROVE NotBefore(a)' BY DEF RecordsFollow
 <2> QED BY DEF SubmitInv, RecordsFollow, NotBefore, WasSent
<1>8. StartIsChosen' BY DEF SubmitInv, StartIsChosen
<1>9. ReportedIsThere' /\ RetriedAsChosen'
 <2>1. \A r \in reported : r[1] \in AttemptsOf
  <3> QED BY TriesAssumption DEF AttemptsOf, SubmitInv, ReportedIsThere, SubmitTypeOK
 <2> QED BY <2>1 DEF SubmitInv, ReportedIsThere, RetriedAsChosen
<1> QED BY <1>1, <1>2, <1>3, <1>5, <1>6, <1>7, <1>8, <1>9 DEF SubmitInv

(* Steps of the client alone. *)
LEMMA ClientKeeps ==
    ASSUME SubmitInv, UNCHANGED <<submitServer, reported>>, doubt' \subseteq 1..tries,
           command' \in RunCommands, command'.id <= tries, InItsPlace(command'),
           own' \in RunRecords, latest' \in RunRecords, RecordOf(own)', RecordOf(latest)',
           CommandKnows', DoubtIsRecorded', RecordsFollow', StartIsChosen'
    PROVE  SubmitInv'
<1> QED BY DEF SubmitInv, SubmitTypeOK, submitServer, ServerFollows, ReportedIsThere, RetriedAsChosen

(* The command ends; what the records say is still enough. *)
LEMMA EndingKeeps ==
    ASSUME SubmitInv, UNCHANGED submitServer, command' = Prompt, doubt' \subseteq doubt,
           own' \in RunRecords, latest' \in RunRecords, RecordOf(own)', RecordOf(latest)',
           reported' = reported,
           \A a \in Doubted' : a \in Doubted /\ own' = Sent(a, TRUE) /\ (latest'.kept => latest' = Sent(a, TRUE)),
           \A a \in AttemptsOf : a >= 2 /\ WasSent(a) => own'.id >= a /\ (latest'.kept => latest'.id >= a)
    PROVE  SubmitInv'
<1>3. ~Fresh(command') /\ command'.at = "idle" /\ command'.kind = "none" /\ UNCHANGED <<tries, job, startOf, posts, status>>
  BY PromptFields DEF submitServer
<1>4. CommandKnows' BY <1>3 DEF CommandKnows
<1>5. DoubtIsRecorded'
 <2> QED BY <1>3 DEF DoubtIsRecorded, SubmitInv, OnRecord
<1>6. RecordsFollow' BY <1>3 DEF RecordsFollow, NotBefore, WasSent, AttemptsOf
<1>7. StartIsChosen' BY <1>3 DEF StartIsChosen
<1> QED BY PromptFields, <1>4, <1>5, <1>6, <1>7, ClientKeeps DEF SubmitInv, SubmitTypeOK

\* What the proofs below take from the invariant.
LEMMA SubmitFacts ==
    ASSUME SubmitInv
    PROVE  /\ tries \in Nat /\ tries <= Tries
           /\ status \in [AttemptsOf -> Statuses] /\ job \in [AttemptsOf -> JobStates]
           /\ startOf \in [AttemptsOf -> Choices]
           /\ command \in RunCommands /\ command.id \in Nat /\ command.id <= tries
           /\ own \in RunRecords /\ latest \in RunRecords /\ own.id \in Nat /\ latest.id \in Nat
           /\ RecordOf(own) /\ RecordOf(latest)
           /\ \A a \in 1..tries : a \in AttemptsOf /\ a \in Nat
           /\ posts \subseteq 1..tries /\ doubt \subseteq 1..tries
<1> QED BY TriesAssumption, CommandFields DEF SubmitInv, SubmitTypeOK, RunRecords, AttemptsOf

LEMMA ServerClaimsKeeps == ASSUME SubmitInv, NEW a \in AttemptsOf, ServerClaims(a) PROVE SubmitInv'
<1> USE DEF ServerClaims
<1>3. \A b \in AttemptsOf : job[b] # "none" => status[b] \in {"VERIFIED", "RECONCILE_REQUIRED"}
  BY DEF SubmitInv, ServerFollows
<1>4. \A b \in AttemptsOf : status[b] = "VERIFIED" => job[b] # "none" BY DEF SubmitInv, ServerFollows
<1> QED BY SubmitFacts, <1>3, <1>4, ServerKeeps DEF WasSent, MayExist, Statuses, Unsent

LEMMA ServerCallsKeeps == ASSUME SubmitInv, NEW a \in AttemptsOf, ServerCalls(a) PROVE SubmitInv'
<1> USE DEF ServerCalls
<1>1. status' \in [AttemptsOf -> Statuses] /\ job' \in [AttemptsOf -> JobStates]
  BY SubmitFacts DEF Statuses, JobStates
<1>2. \A b \in AttemptsOf \ {a} : status'[b] = status[b] /\ job'[b] = job[b] BY SubmitFacts
<1>3. /\ status[a] = "EXECUTING" /\ status'[a] \in {"VERIFIED", "RECONCILE_REQUIRED"}
      /\ status'[a] = "VERIFIED" => job'[a] # "none"
  BY SubmitFacts
<1>4. \A b \in AttemptsOf : job[b] # "none" => status[b] \in {"VERIFIED", "RECONCILE_REQUIRED"}
  BY DEF SubmitInv, ServerFollows
<1>5. \A b \in AttemptsOf : status[b] = "VERIFIED" => job[b] # "none" BY DEF SubmitInv, ServerFollows
<1>6. job[a] = "none" BY <1>3, <1>4
<1> QED BY <1>1, <1>2, <1>3, <1>4, <1>5, <1>6, ServerKeeps, SubmitFacts DEF WasSent, MayExist

LEMMA ServerExpiresKeeps == ASSUME SubmitInv, NEW a \in AttemptsOf, ServerExpires(a) PROVE SubmitInv'
<1> USE DEF ServerExpires
<1>3. \A b \in AttemptsOf : job[b] # "none" => status[b] \in {"VERIFIED", "RECONCILE_REQUIRED"}
  BY DEF SubmitInv, ServerFollows
<1>4. \A b \in AttemptsOf : status[b] = "VERIFIED" => job[b] # "none" BY DEF SubmitInv, ServerFollows
<1> QED BY SubmitFacts, <1>3, <1>4, ServerKeeps DEF WasSent, MayExist, Statuses, Unsent

LEMMA ServerIsLeft ==
    ASSUME SubmitInv, UNCHANGED <<prepared, tries, startOf, status, command, latest, own, doubt, forgotten, reported>>,
           posts' \subseteq posts, job' \in [AttemptsOf -> JobStates],
           \A a \in AttemptsOf : job'[a] = job[a] \/ (job[a] = "running" /\ job'[a] = "over")
    PROVE  SubmitInv'
<1> QED BY ServerKeeps, SubmitFacts DEF WasSent, SubmitInv, ServerFollows

LEMMA JobChangesKeeps ==
    ASSUME SubmitInv, NEW a \in AttemptsOf, RequestIsLost(a) \/ JobIsOver(a) PROVE SubmitInv'
<1>1. CASE RequestIsLost(a) BY <1>1, ServerIsLeft, SubmitFacts DEF RequestIsLost
<1>2. CASE JobIsOver(a)
 <2> QED BY <1>2, SubmitFacts, ServerIsLeft DEF JobIsOver, JobStates
<1> QED BY <1>1, <1>2

LEMMA CancelLatestKeeps == ASSUME SubmitInv, CancelLatest PROVE SubmitInv'
<1>1. latest.id \in AttemptsOf
 <2> QED BY SubmitFacts DEF CancelLatest, RecordOf
<1> QED BY <1>1, SubmitFacts, ServerIsLeft DEF CancelLatest, JobStates

LEMMA DoubtFacts ==
    ASSUME SubmitInv, NEW a \in Doubted
    PROVE  a = tries /\ a \in Nat /\ a >= 1 /\ a \in AttemptsOf /\ OnRecord(a)
<1>2. OnRecord(a) BY DEF SubmitInv, DoubtIsRecorded
<1>5. a = tries BY <1>2 DEF OnRecord
<1> QED BY <1>2, SubmitFacts, <1>5 DEF Doubted

\* An Attempt that was sent follows one with a job.
LEMMA SentFollows ==
    ASSUME SubmitInv, NEW a \in AttemptsOf, WasSent(a)
    PROVE  /\ a \in Nat /\ a <= tries /\ prepared
           /\ \A b \in AttemptsOf : b < a => MayExist(status[b]) /\ job[b] = "over"
<1>1. a \in Nat /\ a >= 1 BY TriesAssumption DEF AttemptsOf
<1>2. a <= tries
 <2>1. CASE a \in posts BY <2>1, SubmitFacts
 <2>2. CASE MayExist(status[a])
  <3> QED BY <1>1, <2>2, SubmitFacts DEF SubmitInv, ServerFollows, MayExist
 <2> QED BY <2>1, <2>2 DEF WasSent
<1>3. \A b \in AttemptsOf : b < a => job[b] = "over"
 <2> SUFFICES ASSUME NEW b \in AttemptsOf, b < a PROVE job[b] = "over" OBVIOUS
 <2> QED BY <1>1, <1>2, TriesAssumption, SubmitFacts DEF SubmitInv, ServerFollows, AttemptsOf
<1>5. prepared
 <2> QED BY <1>1, <1>2, SubmitFacts DEF SubmitInv, ServerFollows
<1> QED BY <1>1, <1>2, <1>3, <1>5 DEF SubmitInv, ServerFollows, MayExist

LEMMA ReportKeeps == ASSUME SubmitInv, Report PROVE SubmitInv'
<1> DEFINE c == command
<1>1. /\ c \in RunCommands /\ c.at = "watch" /\ c.id >= 1 /\ c.id \in Nat /\ c.id <= tries
      /\ c.id \in AttemptsOf /\ c.id \in 1..tries
 <2> QED BY SubmitFacts DEF SubmitInv, InItsPlace, Report
<1>4. doubt' \subseteq doubt /\ doubt' \subseteq 1..tries /\ UNCHANGED <<forgotten, own, latest, submitServer>> /\ command' = Prompt
  BY SubmitFacts DEF Report, Learned
<1>6. ReportedIsThere' /\ RetriedAsChosen'
 <2> SUFFICES ASSUME NEW r \in reported'
              PROVE  /\ r[1] \in 1..tries /\ job[r[1]] # "none"
                     /\ r[2] # "start" => startOf[r[1]] = r[2]
   BY <1>4 DEF ReportedIsThere, RetriedAsChosen, submitServer
 <2>2. CASE r \in reported BY <2>2 DEF SubmitInv, ReportedIsThere, RetriedAsChosen
 <2>3. CASE r = <<c.id, c.start>> /\ c.seen = "VERIFIED" /\ c.kind = "retry"
  <3> QED BY <1>1, CommandFields, <2>3 DEF SubmitInv, CommandKnows, StartIsChosen, PastSend
 <2> QED BY <2>2, <2>3 DEF Report
<1>7. SubmitTypeOK' BY <1>4, SubmitFacts, PromptFields DEF SubmitInv, SubmitTypeOK, submitServer
<1>8. (RecordOf(own) /\ RecordOf(latest) /\ ServerFollows)' BY <1>4 DEF SubmitInv, RecordOf, ServerFollows, submitServer
<1>9. InItsPlace(command') /\ ~Fresh(command') /\ command'.kind = "none" /\ command'.at = "idle"
  BY <1>4, PromptFields
<1>10. CommandKnows' BY <1>9 DEF CommandKnows
<1>11. DoubtIsRecorded'
 <2> QED BY <1>4, <1>9 DEF DoubtIsRecorded, SubmitInv, OnRecord, submitServer, Doubted
<1>12. RecordsFollow' BY <1>4, <1>9 DEF SubmitInv, RecordsFollow, NotBefore, WasSent, submitServer
<1>13. StartIsChosen' BY <1>9 DEF StartIsChosen
<1> QED BY <1>6, <1>7, <1>8, <1>9, <1>10, <1>11, <1>12, <1>13 DEF SubmitInv

LEMMA StopCommandKeeps == ASSUME SubmitInv, StopCommand PROVE SubmitInv'
<1>1. /\ UNCHANGED <<submitServer, own, latest, doubt, forgotten, reported>> /\ command' = Prompt
  BY DEF StopCommand
<1>2. \A a \in Doubted' : a \in Doubted /\ own' = Sent(a, TRUE) /\ (latest'.kept => latest' = Sent(a, TRUE))
  BY <1>1 DEF SubmitInv, DoubtIsRecorded, OnRecord, Doubted
<1>4. RecordOf(own)' /\ RecordOf(latest)' BY <1>1 DEF SubmitInv, RecordOf, submitServer
<1> QED BY <1>1, <1>2, <1>4, SubmitFacts, EndingKeeps DEF SubmitInv, RecordsFollow, NotBefore

LEMMA AnotherRunKeeps == ASSUME SubmitInv, AnotherRun PROVE SubmitInv'
<1>1. UNCHANGED <<submitServer, own, doubt, forgotten, reported>> /\ command' = Prompt /\ latest' = NoRecord
  BY DEF AnotherRun
<1>2. \A a \in Doubted' : a \in Doubted /\ own' = Sent(a, TRUE) /\ (latest'.kept => latest' = Sent(a, TRUE))
  BY <1>1, RecordsAreMade DEF SubmitInv, DoubtIsRecorded, OnRecord, Doubted
<1>3. \A a \in AttemptsOf : a >= 2 /\ WasSent(a) => own'.id >= a /\ (latest'.kept => latest'.id >= a)
  BY <1>1, RecordsAreMade DEF SubmitInv, RecordsFollow, NotBefore
<1>4. RecordOf(own)' /\ RecordOf(latest)'
  BY <1>1, SubmitFacts, RecordsAreMade DEF RecordOf, submitServer
<1> QED BY <1>1, <1>2, <1>3, <1>4, SubmitFacts, RecordsAreMade, EndingKeeps

(* The command moves, and the records stay. *)
LEMMA GoingKeeps ==
    ASSUME SubmitInv, UNCHANGED <<submitServer, own, latest, doubt, forgotten, reported>>,
           command' \in RunCommands, command'.id <= tries, InItsPlace(command'),
           Fresh(command') => tries <= 1,
           command'.at \in {"send", "reply"} => own = Sent(command'.id, TRUE) /\ latest = Sent(command'.id, TRUE),
           command'.at \in {"settle", "watch"} /\ command'.seen = "VERIFIED" => job[command'.id] # "none",
           command'.at = "renewed" => tries = command'.id + 1,
           \A a \in Doubted :
              /\ command'.kind = "retry" => command'.id = a /\ (command'.unsettled \/ PastSend(command'))
              /\ Fresh(command') => PastSend(command') /\ command'.id = a,
           command'.kind = "retry" => \A a \in AttemptsOf : a >= 2 /\ WasSent(a) => command'.id >= a,
           StartIsChosen'
    PROVE  SubmitInv'
<1>1. UNCHANGED <<tries, status, job, posts, prepared, startOf>> BY DEF submitServer
<1>3. DoubtIsRecorded'
 <2> QED BY <1>1 DEF DoubtIsRecorded, Doubted, SubmitInv, OnRecord
<1>4. RecordsFollow'
 <2> SUFFICES ASSUME NEW a \in AttemptsOf PROVE NotBefore(a)' BY DEF RecordsFollow
 <2> QED BY <1>1 DEF SubmitInv, RecordsFollow, NotBefore, WasSent
<1> QED BY <1>1, <1>3, <1>4, SubmitFacts, ClientKeeps DEF CommandKnows, SubmitInv, RecordOf

LEMMA BeginSubmitKeeps == ASSUME SubmitInv, BeginSubmit PROVE SubmitInv'
<1>1. /\ UNCHANGED <<submitServer, own, latest, doubt, forgotten, reported>>
      /\ command' = RunCommand("submit", "look", 0, "start", FALSE, FALSE, "none")
 <2>1. [Prompt EXCEPT !.kind = "submit", !.at = "look"] = RunCommand("submit", "look", 0, "start", FALSE, FALSE, "none")
  <3>1. "submit" \in Kinds /\ "look" \in Places BY DEF Kinds, Places
  <3> QED BY <3>1, SubmitIsBegun, Zenon
 <2> QED BY <2>1 DEF BeginSubmit
<1>2. /\ command' \in RunCommands /\ command'.kind = "submit" /\ command'.at = "look" /\ command'.id = 0
      /\ command'.repeat = FALSE
  BY <1>1 DEF RunCommand, RunCommands, Kinds, Places, Choices, Found
<1>3. InItsPlace(command') /\ ~Fresh(command') BY <1>2 DEF InItsPlace, Fresh, PastSend, Sendings
<1>5. command'.id <= tries BY <1>2, SubmitFacts
<1> QED BY <1>1, <1>2, <1>3, <1>5, GoingKeeps DEF StartIsChosen

LEMMA BeginRetryKeeps ==
    ASSUME SubmitInv, NEW s \in Starts, NEW record \in {latest, own}, BeginRetry(record, s)
    PROVE  SubmitInv'
<1>1. record \in RunRecords /\ record.kept /\ record.id \in Nat /\ record.id > 0 /\ record.id <= tries
      /\ record.unsettled \in BOOLEAN /\ s \in Choices
  BY SubmitFacts DEF BeginRetry, RecordOf, RunRecords, Choices
<1>2. /\ UNCHANGED <<submitServer, own, latest, doubt, forgotten, reported>>
      /\ command' = RunCommand("retry", "show", record.id, s, record.unsettled, FALSE, "none")
 <2>1. [Prompt EXCEPT !.kind = "retry", !.at = "show", !.id = record.id, !.unsettled = record.unsettled, !.start = s]
         = RunCommand("retry", "show", record.id, s, record.unsettled, FALSE, "none")
  <3> DEFINE i == record.id
             u == record.unsettled
  <3>2. i \in Nat /\ u \in BOOLEAN /\ s \in Choices BY <1>1
  <3> HIDE DEF i, u
  <3>3. [Prompt EXCEPT !.kind = "retry", !.at = "show", !.id = i, !.unsettled = u, !.start = s]
          = RunCommand("retry", "show", i, s, u, FALSE, "none")
    BY <3>2, RetryIsBegun, Zenon
  <3> QED BY <3>3 DEF i, u
 <2> QED BY <2>1 DEF BeginRetry
<1>3. /\ command' \in RunCommands /\ command'.kind = "retry" /\ command'.at = "show" /\ command'.id = record.id
      /\ command'.repeat = FALSE /\ command'.unsettled = record.unsettled
  BY <1>1, <1>2 DEF RunCommand, RunCommands, Kinds, Places, Found
<1>4. InItsPlace(command') /\ ~Fresh(command') BY <1>1, <1>3 DEF InItsPlace, Fresh, PastSend, Sendings
<1>5. StartIsChosen' BY <1>3 DEF StartIsChosen, Sendings, PastSend
<1>6. \A a \in Doubted : command'.id = a /\ command'.unsettled
 <2> SUFFICES ASSUME NEW a \in Doubted PROVE record.id = a /\ record.unsettled BY <1>3
 <2>1. a \in Nat /\ own = Sent(a, TRUE) /\ (latest.kept => latest = Sent(a, TRUE)) BY DoubtFacts DEF OnRecord
 <2> QED BY <2>1, <1>1, RecordsAreMade
<1>7. \A a \in AttemptsOf : a >= 2 /\ WasSent(a) => command'.id >= a
  BY <1>1, <1>3 DEF SubmitInv, RecordsFollow, NotBefore
<1> QED BY <1>1, <1>2, <1>3, <1>4, <1>5, <1>6, <1>7, GoingKeeps

LEMMA FinishUnsentKeeps == ASSUME SubmitInv, FinishUnsent PROVE SubmitInv'
<1> DEFINE c == command
<1>1. /\ UNCHANGED <<submitServer, own, latest, doubt, forgotten, reported>>
      /\ c.kind = "retry" /\ c.at = "show" /\ c.start = "start" /\ c \in RunCommands
  BY SubmitFacts DEF FinishUnsent, Doing, MayChoose
<1>2. Moves(c, command', "remember", c.id, c.repeat, c.seen)
  BY <1>1, CommandGoes DEF FinishUnsent, Go, Places
<1>3. InItsPlace(command') /\ ~Fresh(command') /\ command'.id <= tries
  BY <1>1, <1>2, SubmitFacts DEF SubmitInv, InItsPlace, Fresh, PastSend, Sendings, Moves
<1>5. \A a \in Doubted : c.id = a /\ c.unsettled BY <1>1, DoubtFacts DEF OnRecord, PastSend
<1>6. \A a \in AttemptsOf : a >= 2 /\ WasSent(a) => c.id >= a BY <1>1 DEF SubmitInv, RecordsFollow, NotBefore
<1> QED BY <1>1, <1>2, <1>3, <1>5, <1>6, GoingKeeps DEF Moves, StartIsChosen

LEMMA ObserveParentKeeps == ASSUME SubmitInv, ObserveParent PROVE SubmitInv'
<1> DEFINE c == command
<1>1. /\ UNCHANGED <<submitServer, own, latest, doubt, forgotten, reported>>
      /\ c.kind = "retry" /\ c.at = "show" /\ (c.start # "start" => ~c.unsettled) /\ c \in RunCommands
  BY SubmitFacts DEF ObserveParent, Doing, MayChoose
<1>2. Moves(c, command', "observe", c.id, TRUE, c.seen)
 <2> QED BY <1>1, CommandTurns DEF ObserveParent, Places
<1>3. InItsPlace(command') /\ ~Fresh(command') /\ command'.id <= tries
  BY <1>1, <1>2, SubmitFacts DEF SubmitInv, InItsPlace, Fresh, PastSend, Sendings, Moves
<1>4. StartIsChosen' BY <1>1, <1>2 DEF StartIsChosen, Moves, Sendings, PastSend
<1>5. \A a \in Doubted : c.id = a /\ c.unsettled BY <1>1, DoubtFacts DEF OnRecord, PastSend
<1>6. \A a \in AttemptsOf : a >= 2 /\ WasSent(a) => c.id >= a BY <1>1 DEF SubmitInv, RecordsFollow, NotBefore
<1> QED BY <1>1, <1>2, <1>3, <1>4, <1>5, <1>6, GoingKeeps DEF Moves

LEMMA ConfirmRetryKeeps == ASSUME SubmitInv, ConfirmRetry PROVE SubmitInv'
<1> DEFINE c == command
<1>1. /\ UNCHANGED <<submitServer, own, latest, doubt, forgotten, reported>>
      /\ c.kind = "retry" /\ c.at = "settle" /\ c.repeat /\ ~c.unsettled /\ c \in RunCommands
  BY SubmitFacts DEF ConfirmRetry, Doing, Unsettled
<1>2. Moves(c, command', "author", c.id, c.repeat, c.seen)
  BY <1>1, CommandGoes DEF ConfirmRetry, Go, Places
<1>3. InItsPlace(command') /\ ~Fresh(command') /\ command'.id <= tries
  BY <1>1, <1>2, SubmitFacts DEF SubmitInv, InItsPlace, Fresh, PastSend, Sendings, Moves
<1>4. StartIsChosen' BY <1>1, <1>2 DEF StartIsChosen, Moves, Sendings, PastSend
<1>5. Doubted = {} BY <1>1, DoubtFacts DEF OnRecord, PastSend
<1>6. \A a \in AttemptsOf : a >= 2 /\ WasSent(a) => c.id >= a BY <1>1 DEF SubmitInv, RecordsFollow, NotBefore
<1> QED BY <1>1, <1>2, <1>3, <1>4, <1>5, <1>6, GoingKeeps DEF Moves

LEMMA FoundKeeps == ASSUME SubmitInv, DispatchFindsIt \/ ReadReply PROVE SubmitInv'
<1> DEFINE c == command
<1>1. /\ UNCHANGED <<submitServer, own, latest, doubt, forgotten, reported>>
      /\ c.at \in {"send", "reply"} /\ c \in RunCommands
  BY SubmitFacts DEF DispatchFindsIt, ReadReply
<1>2. Moves(c, command', "observe", c.id, c.repeat, c.seen)
 <2> QED BY <1>1, CommandGoes DEF Places, DispatchFindsIt, ReadReply, Go
<1>3. ~c.repeat BY <1>1 DEF SubmitInv, InItsPlace, Sendings
<1>4. InItsPlace(command') /\ command'.id <= tries
  BY <1>1, <1>2, <1>3, SubmitFacts DEF SubmitInv, InItsPlace, Sendings, Moves
<1>5. Fresh(command') => Fresh(c) BY <1>1, <1>2, <1>3 DEF Fresh, PastSend, Moves
<1>6. PastSend(command') BY <1>2, <1>3 DEF PastSend, Moves
<1>7. StartIsChosen' BY <1>1, <1>2, <1>3 DEF SubmitInv, StartIsChosen, Moves, Sendings, PastSend, submitServer
<1>8. \A a \in Doubted : (c.kind = "retry" => c.id = a) /\ (Fresh(c) => c.id = a) BY DoubtFacts DEF OnRecord
<1>9. c.kind = "retry" => \A a \in AttemptsOf : a >= 2 /\ WasSent(a) => c.id >= a
  BY DEF SubmitInv, RecordsFollow, NotBefore
<1>10. Fresh(c) => tries <= 1 BY DEF SubmitInv, CommandKnows
<1> QED BY <1>1, <1>2, <1>4, <1>5, <1>6, <1>7, <1>8, <1>9, <1>10, GoingKeeps DEF Moves

(* A record is written first to the one file and then to the other; where
   the command stops between them, what the new one says must do. *)
LEMMA RememberKeeps ==
    ASSUME SubmitInv, NEW r \in RunRecords, NEW next, Remember(r, next), UNCHANGED <<submitServer, reported>>,
           RecordOf(r), doubt' \subseteq doubt,
           \A a \in Doubted' : a \in Doubted /\ r = Sent(a, TRUE),
           \A a \in AttemptsOf : a >= 2 /\ WasSent(a) => r.id >= a,
           next \in RunCommands, next.id <= tries, InItsPlace(next),
           Fresh(next) => tries <= 1,
           next.at \in {"send", "reply"} => r = Sent(next.id, TRUE),
           next.at \in {"settle", "watch"} /\ next.seen = "VERIFIED" => job[next.id] # "none",
           next.at # "renewed",
           \A a \in Doubted' :
              /\ next.kind = "retry" => next.id = a /\ (next.unsettled \/ PastSend(next))
              /\ Fresh(next) => PastSend(next) /\ next.id = a,
           next.kind = "retry" => \A a \in AttemptsOf : a >= 2 /\ WasSent(a) => next.id >= a,
           command' = next => StartIsChosen'
    PROVE  SubmitInv'
<1>1. latest' = r /\ ((own' = r /\ command' = next) \/ (own' = own /\ command' = Prompt)) BY DEF Remember
<1>2. UNCHANGED <<tries, status, job, posts, prepared, startOf>> BY DEF submitServer
<1>3. RecordOf(own)' /\ RecordOf(latest)' /\ own' \in RunRecords /\ latest' \in RunRecords
  BY <1>1, <1>2, SubmitFacts DEF RecordOf
<1>4. CASE own' = r /\ command' = next
 <2>1. CommandKnows' BY <1>1, <1>2, <1>4 DEF CommandKnows
 <2>2. DoubtIsRecorded'
  <3> QED BY <1>1, <1>2, <1>4 DEF DoubtIsRecorded, SubmitInv, OnRecord
 <2>3. RecordsFollow'
  <3> SUFFICES ASSUME NEW a \in AttemptsOf PROVE NotBefore(a)' BY DEF RecordsFollow
  <3> QED BY <1>1, <1>4, <1>2 DEF NotBefore, WasSent
 <2> QED BY <1>2, <1>3, <1>4, <2>1, <2>2, <2>3, SubmitFacts, ClientKeeps
<1>5. CASE own' = own /\ command' = Prompt
 <2>2. \A a \in AttemptsOf : a >= 2 /\ WasSent(a) => own'.id >= a /\ latest'.id >= a
   BY <1>1, <1>5 DEF SubmitInv, RecordsFollow, NotBefore
 <2> QED BY <1>3, <1>5, <1>1, DoubtFacts, <2>2, EndingKeeps DEF OnRecord
<1> QED BY <1>1, <1>4, <1>5

LEMMA FindExistingKeeps == ASSUME SubmitInv, FindExisting PROVE SubmitInv'
<1> DEFINE c == command
           r == IF Known.id > 0 THEN Known ELSE Sent(1, FALSE)
           next == [command EXCEPT !.at = "observe", !.id = 1, !.repeat = TRUE]
<1>1. /\ UNCHANGED <<submitServer, doubt, forgotten, reported>> /\ tries > 0 /\ Remember(r, next)
      /\ c.kind = "submit" /\ c.at = "look" /\ c \in RunCommands
  BY SubmitFacts DEF FindExisting, Doing
<1>2. Moves(c, next, "observe", 1, TRUE, c.seen)
 <2> QED BY <1>1, CommandTurnsTo DEF Places
<1> HIDE DEF next
<1>3. Known \in {own, latest} /\ (own.kept => Known = own) BY DEF Known
<1>4. r \in RunRecords /\ RecordOf(r)
 <2>1. 1 <= tries BY <1>1, SubmitFacts
 <2>3. Sent(1, FALSE) \in RunRecords /\ RecordOf(Sent(1, FALSE)) BY <2>1, RecordsAreMade DEF RecordOf
 <2> QED BY <1>3, <2>3, SubmitFacts
<1>5. \A a \in Doubted : r = Sent(a, TRUE)
 <2> SUFFICES ASSUME NEW a \in Doubted PROVE r = Sent(a, TRUE) OBVIOUS
 <2>1. own = Sent(a, TRUE) /\ a \in Nat /\ a >= 1 BY DoubtFacts DEF OnRecord
 <2>2. own.kept /\ own.id = a BY <2>1, RecordsAreMade
 <2> HIDE DEF r
 <2>3. Known = own BY <1>3, <2>2
 <2>4. a > 0 BY <2>1
 <2>5. Known.id > 0 BY <2>2, <2>3, <2>4, Zenon
 <2> QED BY <2>1, <2>3, <2>5, Zenon DEF r
<1>6. \A a \in AttemptsOf : a >= 2 /\ WasSent(a) => r.id >= a
 <2> SUFFICES ASSUME NEW a \in AttemptsOf, a >= 2, WasSent(a) PROVE r.id >= a OBVIOUS
 <2>1. a \in Nat /\ own.id >= a BY TriesAssumption DEF SubmitInv, RecordsFollow, NotBefore, AttemptsOf
 <2>2. own.id > 0 /\ own.kept BY <2>1, SubmitFacts DEF RecordOf
 <2> QED BY <1>3, <2>1, <2>2
<1> HIDE DEF r
<1>7. /\ next \in RunCommands /\ next.kind = "submit" /\ next.at = "observe" /\ next.id = 1 /\ next.repeat = TRUE
  BY <1>1, <1>2 DEF Moves
<1>8. InItsPlace(next) /\ ~Fresh(next) /\ next.id <= tries
  BY <1>1, <1>7, SubmitFacts DEF InItsPlace, Fresh, PastSend, Sendings
<1>9. command' = next => StartIsChosen' BY <1>7 DEF StartIsChosen
<1>10. \A a \in Doubted' : a \in Doubted BY <1>1 DEF Doubted
<1> QED BY <1>1, <1>4, <1>5, <1>6, <1>7, <1>8, <1>9, <1>10, RememberKeeps

LEMMA ConfirmSubmitKeeps == ASSUME SubmitInv, ConfirmSubmit PROVE SubmitInv'
<1> DEFINE c == command
           r == Sent(0, FALSE)
           next == [command EXCEPT !.at = "prepare"]
<1>1. /\ UNCHANGED <<submitServer, doubt, reported>> /\ Remember(r, next)
      /\ c.kind = "submit" /\ c.at = "look" /\ c \in RunCommands
      /\ ~(prepared /\ tries > 0 /\ MayExist(status[1])) /\ forgotten' = forgotten \cup doubt
  BY SubmitFacts DEF ConfirmSubmit, Doing, Go
<1>2. Moves(c, next, "prepare", c.id, c.repeat, c.seen) BY <1>1, CommandGoes DEF Places
<1> HIDE DEF next
<1>3. r \in RunRecords /\ r.id = 0 /\ RecordOf(r)
 <2>1. r \in RunRecords /\ r.id = 0 BY DEF Sent, RunRecords
 <2> HIDE DEF r
 <2> QED BY <2>1, SubmitFacts DEF RecordOf
<1>4. Doubted' = {} BY <1>1 DEF Doubted
<1>5. tries <= 1
 <2> SUFFICES ASSUME tries > 1 PROVE FALSE BY SubmitFacts
 <2>1. prepared /\ 1 \in AttemptsOf /\ job[1] = "over"
  <3> QED BY SubmitFacts DEF SubmitInv, ServerFollows
 <2> QED BY <1>1, <2>1, SubmitFacts DEF SubmitInv, ServerFollows, MayExist
<1>6. ~\E a \in AttemptsOf : a >= 2 /\ WasSent(a)
 <2> SUFFICES ASSUME NEW a \in AttemptsOf, a >= 2, WasSent(a) PROVE FALSE OBVIOUS
 <2> QED BY <1>5, SentFollows, SubmitFacts
<1> HIDE DEF r
<1>7. next \in RunCommands /\ next.kind = "submit" /\ next.at = "prepare" /\ next.id = c.id /\ next.repeat = c.repeat
  BY <1>1, <1>2 DEF Moves
<1>8. InItsPlace(next) /\ next.id <= tries
  BY <1>1, <1>7, SubmitFacts DEF SubmitInv, InItsPlace, Sendings
<1>9. command' = next => StartIsChosen' BY <1>7 DEF StartIsChosen
<1> QED BY <1>1, <1>3, <1>4, <1>5, <1>6, <1>7, <1>8, <1>9, RememberKeeps

LEMMA RememberBeforeSendKeeps == ASSUME SubmitInv, RememberBeforeSend PROVE SubmitInv'
<1> DEFINE c == command
           r == Sent(c.id, TRUE)
           next == [command EXCEPT !.at = "send"]
<1>1. /\ UNCHANGED <<submitServer, doubt, forgotten, reported>> /\ Remember(r, next)
      /\ c.at = "remember" /\ c \in RunCommands /\ c.id \in Nat
  BY SubmitFacts DEF RememberBeforeSend, Go
<1>2. Moves(c, next, "send", c.id, c.repeat, c.seen) BY <1>1, CommandGoes DEF Places
<1> HIDE DEF next
<1>3. c.kind \in {"submit", "retry"} /\ c.id >= 1 /\ ~c.repeat
  BY <1>1, CommandFields DEF SubmitInv, InItsPlace, Kinds, Sendings
<1>4. r \in RunRecords /\ r.id = c.id /\ RecordOf(r) BY <1>1, SubmitFacts, RecordsAreMade DEF RecordOf
<1>5. c.kind = "submit" => Fresh(c) /\ ~PastSend(c) /\ tries <= 1
  BY <1>1 DEF Fresh, PastSend, SubmitInv, CommandKnows
<1>6. \A a \in Doubted' : a \in Doubted /\ c.id = a /\ c.kind = "retry" /\ c.unsettled
 <2> QED BY <1>1, <1>3, <1>5, DoubtFacts DEF OnRecord, PastSend, Doubted
<1>7. \A a \in AttemptsOf : a >= 2 /\ WasSent(a) => c.id >= a
 <2> SUFFICES ASSUME NEW a \in AttemptsOf, a >= 2, WasSent(a) PROVE c.id >= a OBVIOUS
 <2> QED BY <1>3, <1>5, SentFollows, SubmitFacts DEF SubmitInv, RecordsFollow, NotBefore
<1>8. /\ next \in RunCommands /\ next.kind = c.kind /\ next.at = "send" /\ next.id = c.id
      /\ next.repeat = c.repeat /\ next.unsettled = c.unsettled /\ next.start = c.start
  BY <1>1, <1>2 DEF Moves
<1>9. InItsPlace(next) /\ next.id <= tries
  BY <1>1, <1>3, <1>8, SubmitFacts DEF SubmitInv, InItsPlace, Sendings
<1>10. command' = next => StartIsChosen'
  BY <1>1, <1>3, <1>8 DEF SubmitInv, StartIsChosen, Sendings, PastSend, submitServer
<1>11. Fresh(next) => c.kind = "submit" BY <1>8 DEF Fresh
<1> HIDE DEF r
<1>12. r = Sent(c.id, TRUE) BY DEF r
<1> QED BY <1>1, <1>3, <1>4, <1>5, <1>6, <1>7, <1>8, <1>9, <1>10, <1>11, <1>12, RememberKeeps

LEMMA SettleSentKeeps == ASSUME SubmitInv, SettleSent PROVE SubmitInv'
<1> DEFINE c == command
           u == Unverified
           r == Sent(c.id, u)
           next == [command EXCEPT !.at = "watch"]
<1>1. /\ UNCHANGED <<submitServer, forgotten, reported>> /\ Remember(r, next)
      /\ c.at = "settle" /\ ~c.repeat /\ c \in RunCommands /\ c.id \in Nat
      /\ doubt' = Learned
  BY SubmitFacts DEF SettleSent, Go
<1>2. Moves(c, next, "watch", c.id, c.repeat, c.seen) BY <1>1, CommandGoes DEF Places
<1> HIDE DEF next
<1>3. c.kind \in {"submit", "retry"} /\ c.id >= 1
  BY <1>1, CommandFields DEF SubmitInv, InItsPlace, Kinds
<1>4. u \in BOOLEAN /\ (u <=> c.seen # "VERIFIED") BY DEF Unverified
<1> HIDE DEF u
<1>5. r \in RunRecords /\ r.id = c.id /\ r.kept BY <1>1, <1>4 DEF RunRecords, Sent
<1>6. u => r = Sent(c.id, TRUE) BY <1>4
<1> HIDE DEF r
<1>7. RecordOf(r) BY <1>5, SubmitFacts DEF RecordOf
<1>8. doubt' \subseteq doubt /\ (c.seen = "VERIFIED" => c.id \notin doubt') BY <1>1 DEF Learned
<1>9. PastSend(c) /\ (c.kind = "submit" => Fresh(c) /\ tries <= 1)
  BY <1>1 DEF Fresh, PastSend, SubmitInv, CommandKnows
<1>10. \A a \in Doubted' : a \in Doubted /\ c.id = a /\ u
 <2> QED BY <1>4, <1>8, <1>1, <1>3, <1>9, DoubtFacts DEF OnRecord, Doubted
<1>11. \A a \in AttemptsOf : a >= 2 /\ WasSent(a) => c.id >= a
 <2> SUFFICES ASSUME NEW a \in AttemptsOf, a >= 2, WasSent(a) PROVE c.id >= a OBVIOUS
 <2> QED BY <1>3, <1>9, SentFollows, SubmitFacts DEF SubmitInv, RecordsFollow, NotBefore
<1>12. c.seen = "VERIFIED" => job[c.id] # "none" BY <1>1 DEF SubmitInv, CommandKnows
<1>13. /\ next \in RunCommands /\ next.kind = c.kind /\ next.at = "watch" /\ next.id = c.id
       /\ next.repeat = c.repeat /\ next.unsettled = c.unsettled /\ next.start = c.start /\ next.seen = c.seen
  BY <1>1, <1>2 DEF Moves
<1>14. InItsPlace(next) /\ next.id <= tries /\ PastSend(next) /\ (Fresh(next) => c.kind = "submit")
  BY <1>1, <1>3, <1>13, SubmitFacts DEF SubmitInv, InItsPlace, Sendings, PastSend, Fresh
<1>15. command' = next => StartIsChosen'
  BY <1>1, <1>9, <1>13 DEF SubmitInv, StartIsChosen, Sendings, submitServer
<1> QED BY <1>1, <1>5, <1>6, <1>7, <1>8, <1>9, <1>10, <1>11, <1>12, <1>13, <1>14, <1>15, RememberKeeps

LEMMA RefuseUnresolvedKeeps == ASSUME SubmitInv, RefuseUnresolved PROVE SubmitInv'
<1> DEFINE c == command
           r == Sent(c.id, TRUE)
<1>1. /\ UNCHANGED <<submitServer, doubt, forgotten, reported>> /\ Remember(r, Prompt)
      /\ c.kind = "retry" /\ c \in RunCommands /\ c.id \in Nat
  BY SubmitFacts DEF RefuseUnresolved, Doing
<1>2. r \in RunRecords /\ r.id = c.id /\ r.kept BY <1>1, RecordsAreMade
<1>3. RecordOf(r) BY <1>2, SubmitFacts DEF RecordOf
<1>4. \A a \in Doubted' : a \in Doubted /\ r = Sent(a, TRUE)
 <2> QED BY <1>1, DoubtFacts DEF Doubted, OnRecord
<1>5. \A a \in AttemptsOf : a >= 2 /\ WasSent(a) => r.id >= a BY <1>1, <1>2 DEF SubmitInv, RecordsFollow, NotBefore
<1> HIDE DEF r
<1>6. Prompt.id <= tries BY PromptFields, SubmitFacts
<1>7. command' = Prompt => StartIsChosen' BY PromptFields DEF StartIsChosen
<1> QED BY <1>1, <1>2, <1>3, <1>4, <1>5, <1>6, <1>7, PromptFields, RememberKeeps

LEMMA SettleEarlierKeeps == ASSUME SubmitInv, SettleEarlier PROVE SubmitInv'
<1> DEFINE c == command
           r == Sent(c.id, FALSE)
           next == [command EXCEPT !.at = "watch"]
<1>1. /\ UNCHANGED <<submitServer, forgotten, reported>> /\ Remember(r, next)
      /\ c.kind = "retry" /\ c.at = "settle" /\ c.repeat /\ c.unsettled /\ c.seen = "VERIFIED"
      /\ c \in RunCommands /\ c.id \in Nat /\ doubt' = doubt \ {c.id}
  BY SubmitFacts DEF SettleEarlier, Go, Doing, Unsettled, Learned
<1>2. Moves(c, next, "watch", c.id, c.repeat, c.seen) BY <1>1, CommandGoes DEF Places
<1> HIDE DEF next
<1>3. r \in RunRecords /\ r.id = c.id /\ r.kept BY <1>1 DEF RunRecords, Sent
<1> HIDE DEF r
<1>4. RecordOf(r) BY <1>3, SubmitFacts DEF RecordOf
<1>5. Doubted' = {}
 <2> QED BY <1>1, DoubtFacts DEF Doubted, OnRecord
<1>6. \A a \in AttemptsOf : a >= 2 /\ WasSent(a) => c.id >= a BY <1>1 DEF SubmitInv, RecordsFollow, NotBefore
<1>8. job[c.id] # "none" BY <1>1 DEF SubmitInv, CommandKnows
<1>9. /\ next \in RunCommands /\ next.kind = "retry" /\ next.at = "watch" /\ next.id = c.id
      /\ next.repeat = c.repeat /\ next.start = c.start
  BY <1>1, <1>2 DEF Moves
<1>10. InItsPlace(next) /\ next.id <= tries /\ ~Fresh(next)
  BY <1>1, <1>9, SubmitFacts DEF SubmitInv, InItsPlace, Sendings, Fresh
<1>11. command' = next => StartIsChosen' BY <1>1, <1>9 DEF StartIsChosen, SubmitInv
<1>12. doubt' \subseteq doubt BY <1>1
<1> QED BY <1>1, <1>3, <1>4, <1>5, <1>6, <1>8, <1>9, <1>10, <1>11, <1>12, RememberKeeps

LEMMA SavePreparationKeeps == ASSUME SubmitInv, SavePreparation PROVE SubmitInv'
<1>1. /\ UNCHANGED <<tries, status, job, startOf, posts, command, latest, own, doubt, forgotten, reported>>
      /\ prepared' = TRUE
  BY DEF SavePreparation
<1>2. SubmitTypeOK' /\ (RecordOf(own) /\ RecordOf(latest) /\ ServerFollows)'
  BY <1>1 DEF SubmitInv, SubmitTypeOK, RecordOf, ServerFollows
<1>4. DoubtIsRecorded' BY <1>1 DEF SubmitInv, DoubtIsRecorded, Doubted, OnRecord
<1>5. RecordsFollow' BY <1>1 DEF SubmitInv, RecordsFollow, NotBefore, WasSent
<1>6. (StartIsChosen /\ ReportedIsThere /\ RetriedAsChosen)'
  BY <1>1 DEF SubmitInv, StartIsChosen, ReportedIsThere, RetriedAsChosen
<1> QED BY <1>2, <1>1, <1>4, <1>5, <1>6 DEF SubmitInv, CommandKnows

LEMMA AdvancePreparationKeeps == ASSUME SubmitInv, AdvancePreparation PROVE SubmitInv'
<1> DEFINE c == command
<1>1. /\ UNCHANGED <<prepared, job, startOf, posts, latest, own, doubt, forgotten, reported>> /\ prepared
      /\ c.kind = "submit" /\ c.at = "prepare" /\ c \in RunCommands
      /\ command' = [command EXCEPT !.at = "remember", !.id = 1]
  BY SubmitFacts DEF AdvancePreparation, Doing
<1>2. Moves(c, command', "remember", 1, c.repeat, c.seen)
 <2> QED BY <1>1, CommandNames DEF Places
<1>3. Fresh(c) /\ ~PastSend(c) /\ tries <= 1 /\ ~c.repeat
  BY <1>1 DEF Fresh, PastSend, SubmitInv, CommandKnows, InItsPlace
<1>5. tries' = 1 /\ (tries = 1 \/ tries = 0) /\ 1 \in 0..Tries
 <2>1. CASE tries > 0
  <3> QED BY <1>3, <2>1, SubmitFacts, TriesAssumption DEF AdvancePreparation
 <2>2. CASE ~(tries > 0)
  <3> QED BY <2>2, SubmitFacts, TriesAssumption DEF AdvancePreparation
 <2> QED BY <2>1, <2>2
<1>7. \A a \in AttemptsOf : ~WasSent(a) \/ a = 1
 <2> SUFFICES ASSUME NEW a \in AttemptsOf, WasSent(a) PROVE a = 1 OBVIOUS
 <2> QED BY <1>3, SentFollows, TriesAssumption, SubmitFacts DEF AttemptsOf
<1>8. /\ command' \in RunCommands /\ command'.kind = "submit" /\ command'.at = "remember" /\ command'.id = 1
      /\ command'.repeat = FALSE
  BY <1>1, <1>2, <1>3, CommandFields DEF Moves
<1>9. 1 \in AttemptsOf BY TriesAssumption DEF AttemptsOf
<1>10. status' \in [AttemptsOf -> Statuses] /\ (\A a \in AttemptsOf : a # 1 => status'[a] = status[a])
       /\ (status'[1] = status[1] \/ (tries = 0 /\ status'[1] = "PREPARED"))
  BY SubmitFacts, <1>9 DEF Statuses, AdvancePreparation
<1>11. SubmitTypeOK'
 <2> QED BY <1>1, <1>8, <1>10, <1>5, SubmitFacts DEF SubmitTypeOK, SubmitInv
<1>12. RecordOf(own)' /\ RecordOf(latest)' BY <1>1, <1>5, SubmitFacts DEF RecordOf
<1>13. \A a \in AttemptsOf : a >= 1 /\ a \in Nat BY TriesAssumption DEF AttemptsOf
<1>15. ServerFollows'
 <2>3. \A a \in AttemptsOf : a > tries' => status'[a] = "none"
  <3> SUFFICES ASSUME NEW a \in AttemptsOf, a > tries' PROVE status'[a] = "none" OBVIOUS
  <3> QED BY <1>10, <1>5, <1>13 DEF SubmitInv, ServerFollows
 <2>4. \A a \in AttemptsOf : job[a] # "none" => status[a] \in {"VERIFIED", "RECONCILE_REQUIRED"}
   BY DEF SubmitInv, ServerFollows
 <2>5. \A a \in AttemptsOf : status[a] = "VERIFIED" => job[a] # "none" BY DEF SubmitInv, ServerFollows
 <2>6. tries = 0 => job[1] = "none"
  <3> QED BY <1>9, <2>4, <1>5 DEF SubmitInv, ServerFollows
 <2>7. \A a \in AttemptsOf :
         /\ job'[a] # "none" => status'[a] \in {"VERIFIED", "RECONCILE_REQUIRED"}
         /\ status'[a] = "VERIFIED" => job'[a] # "none"
  <3> SUFFICES ASSUME NEW a \in AttemptsOf
               PROVE  /\ job[a] # "none" => status'[a] \in {"VERIFIED", "RECONCILE_REQUIRED"}
                      /\ status'[a] = "VERIFIED" => job[a] # "none"
    BY <1>1
  <3>1. CASE a # 1 BY <1>10, <2>4, <2>5, <3>1
  <3>2. CASE a = 1 BY <1>9, <1>10, <2>4, <2>5, <2>6, <3>2
  <3> QED BY <3>1, <3>2
 <2> QED BY <1>1, <2>3, <2>7, <1>5, <1>13 DEF ServerFollows
<1>16. InItsPlace(command') BY <1>8 DEF InItsPlace, Sendings
<1>17. CommandKnows' BY <1>5, <1>8 DEF CommandKnows
<1>18. DoubtIsRecorded' BY <1>1, <1>3, DoubtFacts DEF DoubtIsRecorded, Doubted, OnRecord
<1>19. RecordsFollow'
 <2>1. \A a \in AttemptsOf : a >= 2 => ~WasSent(a)'
  <3> SUFFICES ASSUME NEW a \in AttemptsOf, a >= 2 PROVE ~WasSent(a)' OBVIOUS
  <3> QED BY <1>1, <1>7, <1>10 DEF WasSent
 <2> QED BY <2>1 DEF RecordsFollow, NotBefore
<1>20. StartIsChosen' BY <1>8 DEF StartIsChosen
<1>21. (ReportedIsThere /\ RetriedAsChosen)'
 <2> QED BY <1>1, <1>5 DEF SubmitInv, ReportedIsThere, RetriedAsChosen
<1> QED BY <1>11, <1>12, <1>15, <1>16, <1>17, <1>18, <1>19, <1>20, <1>21 DEF SubmitInv

LEMMA SendExecuteKeeps == ASSUME SubmitInv, SendExecute PROVE SubmitInv'
<1> DEFINE c == command
           a == c.id
<1>1. /\ UNCHANGED <<prepared, tries, status, job, startOf, latest, own, reported>>
      /\ c.at = "send" /\ status[a] = "PREPARED" /\ c \in RunCommands /\ a \in Nat /\ a <= tries
      /\ posts' = posts \cup {a} /\ doubt' = doubt \cup {a} /\ forgotten' = forgotten \ {a}
  BY SubmitFacts DEF SendExecute, Unsent
<1>2. Moves(c, command', "reply", a, c.repeat, c.seen)
 <2> QED BY <1>1, CommandGoes DEF Places, SendExecute, Go
<1>3. a >= 1 /\ c.kind \in {"submit", "retry"} /\ ~c.repeat /\ a \in AttemptsOf /\ a \in 1..tries
 <2> QED BY <1>1, CommandFields, SubmitFacts DEF SubmitInv, InItsPlace, Sendings, Kinds
<1>4. a = tries
 <2> QED BY <1>1, <1>3, SubmitFacts DEF SubmitInv, ServerFollows
<1>5. own = Sent(a, TRUE) /\ latest = Sent(a, TRUE) BY <1>1 DEF SubmitInv, CommandKnows
<1>6. c.kind = "submit" => Fresh(c) /\ tries <= 1 BY <1>1 DEF Fresh, SubmitInv, CommandKnows
<1>8. \A b \in Doubted' : b = a BY <1>1, <1>4, DoubtFacts DEF Doubted
<1>9. /\ command' \in RunCommands /\ command'.kind = c.kind /\ command'.at = "reply" /\ command'.id = a
      /\ command'.repeat = FALSE /\ command'.start = c.start
  BY <1>2, <1>3, CommandFields DEF Moves
<1> HIDE DEF c, a
<1>10. SubmitTypeOK'
 <2> QED BY <1>1, <1>9, <1>3, SubmitFacts DEF SubmitInv, SubmitTypeOK
<1>11. (RecordOf(own) /\ RecordOf(latest) /\ ServerFollows)' BY <1>1 DEF SubmitInv, RecordOf, ServerFollows
<1>12. InItsPlace(command') /\ PastSend(command') BY <1>3, <1>9 DEF InItsPlace, PastSend, Sendings
<1>13. CommandKnows' BY <1>1, <1>5, <1>6, <1>9 DEF CommandKnows, Fresh
<1>14. DoubtIsRecorded'
 <2> QED BY <1>1, <1>4, <1>5, <1>8, <1>9, <1>12 DEF DoubtIsRecorded, OnRecord
<1>15. RecordsFollow'
 <2> SUFFICES ASSUME NEW b \in AttemptsOf PROVE NotBefore(b)' BY DEF RecordsFollow
 <2>2. own.id = a /\ latest.id = a BY <1>5, RecordsAreMade
 <2>3. CASE b = a BY <1>1, <1>9, <2>2, <2>3 DEF NotBefore
 <2>4. CASE b # a
  <3> QED BY <1>1, <1>9, <2>2, <2>4, <1>4, SentFollows DEF NotBefore, WasSent
 <2> QED BY <2>3, <2>4
<1>16. StartIsChosen'
 <2> QED BY <1>1, <1>9 DEF StartIsChosen, SubmitInv, Sendings, c, a
<1>17. (ReportedIsThere /\ RetriedAsChosen)' BY <1>1 DEF SubmitInv, ReportedIsThere, RetriedAsChosen
<1> QED BY <1>10, <1>11, <1>12, <1>13, <1>14, <1>15, <1>16, <1>17 DEF SubmitInv

LEMMA ObserveKeeps == ASSUME SubmitInv, Observe PROVE SubmitInv'
<1> DEFINE c == command
           a == c.id
<1>1. PICK s \in Reconciled(a) :
        /\ status' = [status EXCEPT ![a] = s]
        /\ command' = [command EXCEPT !.seen = s,
                         !.at = IF c.repeat /\ c.kind = "submit" THEN "watch" ELSE "settle"]
  BY DEF Observe
<1>2. /\ UNCHANGED <<prepared, tries, job, startOf, posts, latest, own, doubt, forgotten, reported>>
      /\ c.at = "observe" /\ MayExist(status[a]) /\ c \in RunCommands /\ a \in Nat /\ a <= tries
  BY SubmitFacts DEF Observe
<1>3. a >= 1 /\ a \in AttemptsOf
 <2> QED BY <1>2, SubmitFacts DEF SubmitInv, InItsPlace
<1>4. /\ s \in {"EXECUTING", "RECONCILE_REQUIRED", "VERIFIED"}
      /\ s = status[a] \/ (s = "VERIFIED" /\ status[a] = "RECONCILE_REQUIRED" /\ job[a] # "none")
  BY <1>1, <1>2 DEF Reconciled, MayExist
<1> DEFINE at == IF c.repeat /\ c.kind = "submit" THEN "watch" ELSE "settle"
<1>5. Moves(c, command', at, a, c.repeat, s)
 <2>1. at \in Places /\ s \in Found BY <1>4 DEF Places, Found
 <2>2. command' = [command EXCEPT !.seen = s, !.at = at] BY <1>1
 <2> HIDE DEF at
 <2> QED BY <1>2, <2>1, <2>2, CommandSees
<1>6. /\ at \in {"watch", "settle"}
      /\ at = "watch" => c.repeat /\ c.kind = "submit"
      /\ at = "settle" => ~(c.repeat /\ c.kind = "submit")
  OBVIOUS
<1> HIDE DEF at
<1>7. /\ command' \in RunCommands /\ command'.kind = c.kind /\ command'.at = at /\ command'.id = a
      /\ command'.repeat = c.repeat /\ command'.start = c.start /\ command'.seen = s
      /\ command'.unsettled = c.unsettled
  BY <1>5 DEF Moves
<1>8. status' \in [AttemptsOf -> Statuses] /\ status'[a] = s /\ \A b \in AttemptsOf \ {a} : status'[b] = status[b]
  BY <1>1, <1>3, <1>4, SubmitFacts DEF Statuses
<1>9. /\ \A b \in AttemptsOf : job[b] # "none" => status[b] \in {"VERIFIED", "RECONCILE_REQUIRED"}
      /\ \A b \in AttemptsOf : status[b] = "VERIFIED" => job[b] # "none"
  BY DEF SubmitInv, ServerFollows
<1>10. s = "VERIFIED" => job[a] # "none" BY <1>3, <1>4, <1>9
<1>11. PastSend(c) <=> PastSend(command') BY <1>2, <1>6, <1>7 DEF PastSend
<1>12. Fresh(command') => Fresh(c) BY <1>6, <1>7, <1>11 DEF Fresh
<1> HIDE DEF c, a
<1>13. SubmitTypeOK' BY <1>2, <1>7, <1>8, SubmitFacts DEF SubmitInv, SubmitTypeOK
<1>14. RecordOf(own)' /\ RecordOf(latest)' BY <1>2 DEF SubmitInv, RecordOf
<1>15. ServerFollows'
 <2>2. \A b \in AttemptsOf : b > tries' => status'[b] = "none"
  <3> SUFFICES ASSUME NEW b \in AttemptsOf, b > tries PROVE status'[b] = "none" BY <1>2
  <3> QED BY <1>8, <1>2, SubmitFacts DEF SubmitInv, ServerFollows
 <2>3. \A b \in AttemptsOf : job'[b] # "none" => status'[b] \in {"VERIFIED", "RECONCILE_REQUIRED"}
   BY <1>2, <1>3, <1>4, <1>8, <1>9
 <2>4. \A b \in AttemptsOf : status'[b] = "VERIFIED" => job'[b] # "none" BY <1>2, <1>3, <1>8, <1>9, <1>10
 <2> QED BY <1>2, <2>2, <2>3, <2>4 DEF ServerFollows, SubmitInv
<1>16. InItsPlace(command')
 <2> QED BY <1>2, <1>3, <1>6, <1>7 DEF InItsPlace, Sendings, SubmitInv, c
<1>17. CommandKnows'
 <2> QED BY <1>2, <1>6, <1>7, <1>10, <1>12 DEF CommandKnows, SubmitInv, c
<1>18. DoubtIsRecorded'
 <2>1. \A b \in Doubted : OnRecord(b) BY DEF SubmitInv, DoubtIsRecorded
 <2>2. \A b \in Doubted : OnRecord(b)' BY <1>2, <1>7, <1>11, <1>12, <2>1 DEF OnRecord, c, a
 <2> QED BY <1>2, <2>2 DEF DoubtIsRecorded, Doubted
<1>19. RecordsFollow'
 <2> SUFFICES ASSUME NEW b \in AttemptsOf PROVE NotBefore(b)' BY DEF RecordsFollow
 <2>2. NotBefore(b) BY DEF SubmitInv, RecordsFollow
 <2> QED BY <1>2, <1>7, <1>8, <2>2 DEF NotBefore, c, a, WasSent
<1>20. StartIsChosen'
 <2>1. StartIsChosen BY DEF SubmitInv
 <2> QED BY <1>2, <1>6, <1>7, <1>11, <2>1 DEF StartIsChosen, Sendings, PastSend, c, a
<1>21. (ReportedIsThere /\ RetriedAsChosen)' BY <1>2 DEF SubmitInv, ReportedIsThere, RetriedAsChosen
<1> QED BY <1>13, <1>14, <1>15, <1>16, <1>17, <1>18, <1>19, <1>20, <1>21 DEF SubmitInv

LEMMA AuthorRetryKeeps == ASSUME SubmitInv, AuthorRetry PROVE SubmitInv'
<1> DEFINE c == command
           a == c.id
<1>1. /\ UNCHANGED <<prepared, status, job, posts, latest, own, doubt, forgotten, reported>>
      /\ c.kind = "retry" /\ c.at = "author" /\ a < Tries /\ c \in RunCommands /\ a \in Nat /\ a <= tries
  BY SubmitFacts DEF AuthorRetry, Doing
<1>2. Moves(c, command', "renewed", a, c.repeat, c.seen)
 <2> QED BY <1>1, CommandGoes DEF Places, AuthorRetry, Go
<1>3. c.repeat /\ ~c.unsettled /\ a >= 1 BY <1>1 DEF SubmitInv, InItsPlace
<1>4. Doubted = {} BY <1>1, <1>3, DoubtFacts DEF OnRecord, PastSend
<1>5. a \in AttemptsOf /\ a + 1 \in AttemptsOf
 <2> QED BY <1>1, <1>3, TriesAssumption DEF AttemptsOf
<1>6. \A b \in AttemptsOf : b >= 2 /\ WasSent(b) => a >= b BY <1>1 DEF SubmitInv, RecordsFollow, NotBefore
<1>7. tries = a \/ tries = a + 1
 <2> SUFFICES ASSUME tries > a + 1 PROVE FALSE BY <1>1, SubmitFacts
 <2>4. WasSent(a + 1) /\ a + 1 >= 2
   BY <1>1, <1>3, <1>5, SubmitFacts DEF WasSent, SubmitInv, ServerFollows, MayExist
 <2> QED BY <1>1, <1>5, <1>6, <2>4
<1>8. /\ tries = a => job[a] = "over" /\ tries' = a + 1 /\ startOf' = [startOf EXCEPT ![a + 1] = c.start]
      /\ tries # a => startOf[a + 1] = c.start /\ UNCHANGED <<tries, startOf>>
  BY <1>1 DEF AuthorRetry
<1>9. tries' = a + 1 /\ (tries = a => job[a] = "over")
  BY <1>7, <1>8
<1>10. startOf' \in [AttemptsOf -> Choices] /\ startOf'[a + 1] = c.start
       /\ \A b \in AttemptsOf : b # a + 1 => startOf'[b] = startOf[b]
 <2>2. CASE tries = a BY <1>5, <1>8, <1>1, CommandFields, <2>2, SubmitFacts
 <2>3. CASE tries # a BY <1>8, <2>3, SubmitFacts
 <2> QED BY <2>2, <2>3
<1>11. /\ command' \in RunCommands /\ command'.kind = "retry" /\ command'.at = "renewed" /\ command'.id = a
       /\ command'.repeat = c.repeat /\ command'.start = c.start /\ command'.unsettled = c.unsettled
  BY <1>1, <1>2 DEF Moves
<1>12. \A b : b \in 1..tries => b \in 1..tries'
 <2> QED BY <1>1, <1>7, <1>9, SubmitFacts
<1> HIDE DEF c, a
<1>13. SubmitTypeOK'
 <2>2. tries' \in 0..Tries /\ command'.id <= tries' BY <1>1, <1>9, <1>11, TriesAssumption
 <2> QED BY <1>1, <1>10, <1>11, <1>12, SubmitFacts, <2>2 DEF SubmitInv, SubmitTypeOK
<1>14. RecordOf(own)' /\ RecordOf(latest)'
 <2> QED BY <1>1, <1>7, <1>9, SubmitFacts DEF RecordOf
<1>15. ServerFollows'
 <2>1. (tries > 0 => prepared)'
  <3> QED BY <1>1, <1>3, SubmitFacts DEF SubmitInv, ServerFollows, a, c
 <2>2. \A b \in AttemptsOf : b < tries' => job'[b] = "over"
  <3> SUFFICES ASSUME NEW b \in AttemptsOf, b < a + 1 PROVE job[b] = "over" BY <1>1, <1>9
  <3>2. CASE tries = a
   <4> QED BY <1>9, <3>2, <1>1, TriesAssumption DEF SubmitInv, ServerFollows, AttemptsOf
  <3>3. CASE tries = a + 1 BY <3>3 DEF SubmitInv, ServerFollows
  <3> QED BY <1>7, <3>2, <3>3
 <2>3. \A b \in AttemptsOf : b > tries' => status'[b] = "none"
  <3> SUFFICES ASSUME NEW b \in AttemptsOf, b > a + 1 PROVE status[b] = "none" BY <1>1, <1>9
  <3> QED BY <1>1, <1>7, TriesAssumption DEF SubmitInv, ServerFollows, AttemptsOf
 <2> QED BY <1>1, <2>1, <2>2, <2>3 DEF SubmitInv, ServerFollows
<1>16. InItsPlace(command') /\ ~Fresh(command') BY <1>3, <1>11 DEF InItsPlace, Fresh, Sendings
<1>17. CommandKnows' BY <1>9, <1>11, <1>16 DEF CommandKnows
<1>18. DoubtIsRecorded' BY <1>1, <1>4 DEF DoubtIsRecorded, Doubted
<1>19. RecordsFollow'
 <2> SUFFICES ASSUME NEW b \in AttemptsOf PROVE NotBefore(b)' BY DEF RecordsFollow
 <2> QED BY <1>1, <1>6, <1>11 DEF NotBefore, WasSent, SubmitInv, RecordsFollow
<1>20. StartIsChosen' BY <1>9, <1>10, <1>11 DEF StartIsChosen, Sendings, PastSend
<1>21. (ReportedIsThere /\ RetriedAsChosen)'
 <2> SUFFICES ASSUME NEW r \in reported
              PROVE  /\ r[1] \in 1..tries' /\ job[r[1]] # "none"
                     /\ r[2] # "start" => startOf'[r[1]] = r[2]
   BY <1>1 DEF ReportedIsThere, RetriedAsChosen
 <2>1. r[1] \in 1..tries /\ job[r[1]] # "none" /\ (r[2] # "start" => startOf[r[1]] = r[2])
   BY DEF SubmitInv, ReportedIsThere, RetriedAsChosen
 <2>2. r[1] \in AttemptsOf /\ r[1] \in Nat /\ r[1] <= tries BY <2>1, SubmitFacts
 <2>3. r[1] # a + 1
  <3>1. CASE tries = a BY <1>1, <2>2, <3>1
  <3>2. CASE tries = a + 1
   <4> SUFFICES ASSUME r[1] = a + 1 PROVE FALSE OBVIOUS
   <4>2. WasSent(a + 1) /\ a + 1 >= 2
     BY <1>1, <1>3, <2>1, <2>2 DEF WasSent, SubmitInv, ServerFollows, MayExist
   <4> QED BY <1>1, <1>5, <1>6, <4>2
  <3> QED BY <1>7, <3>1, <3>2
 <2> QED BY <1>10, <1>12, <2>1, <2>2, <2>3
<1> QED BY <1>13, <1>14, <1>15, <1>16, <1>17, <1>18, <1>19, <1>20, <1>21 DEF SubmitInv

LEMMA PrepareRetryKeeps == ASSUME SubmitInv, PrepareRetry PROVE SubmitInv'
<1> DEFINE c == command
           a == tries
<1>1. /\ UNCHANGED <<prepared, tries, job, startOf, posts, latest, own, doubt, forgotten, reported>>
      /\ c.kind = "retry" /\ c.at = "renewed" /\ c \in RunCommands /\ a \in Nat
      /\ command' = [command EXCEPT !.at = "remember", !.id = a, !.repeat = FALSE]
      /\ status' = IF status[a] = "none" THEN [status EXCEPT ![a] = "PREPARED"] ELSE status
  BY SubmitFacts DEF PrepareRetry, Doing
<1>2. Moves(c, command', "remember", a, FALSE, c.seen)
 <2> QED BY <1>1, CommandTurnsTo DEF Places
<1>3. c.repeat /\ ~c.unsettled /\ c.id >= 1 /\ a = c.id + 1
  BY <1>1 DEF SubmitInv, InItsPlace, CommandKnows
<1>4. Doubted = {} BY <1>1, <1>3, DoubtFacts DEF OnRecord, PastSend
<1>5. a \in AttemptsOf /\ a >= 1
 <2> QED BY <1>1, <1>3, SubmitFacts
<1>6. /\ command' \in RunCommands /\ command'.kind = "retry" /\ command'.at = "remember" /\ command'.id = a
      /\ command'.repeat = FALSE /\ command'.start = c.start
  BY <1>1, <1>2 DEF Moves
<1>7. /\ status' \in [AttemptsOf -> Statuses] /\ \A b \in AttemptsOf \ {a} : status'[b] = status[b]
      /\ status'[a] = status[a] \/ (status[a] = "none" /\ status'[a] = "PREPARED")
  BY <1>1, <1>5, SubmitFacts DEF Statuses
<1>8. /\ \A b \in AttemptsOf : job[b] # "none" => status[b] \in {"VERIFIED", "RECONCILE_REQUIRED"}
      /\ \A b \in AttemptsOf : status[b] = "VERIFIED" => job[b] # "none"
  BY DEF SubmitInv, ServerFollows
<1>9. c.start # "start" => startOf[a] = c.start BY <1>1 DEF SubmitInv, StartIsChosen
<1>10. \A b \in AttemptsOf : WasSent(b) => a >= b
 <2> SUFFICES ASSUME NEW b \in AttemptsOf, WasSent(b) PROVE a >= b OBVIOUS
 <2> QED BY <1>1, SentFollows
<1> HIDE DEF c
<1>11. SubmitTypeOK' BY <1>1, <1>6, <1>7, SubmitFacts DEF SubmitInv, SubmitTypeOK
<1>12. RecordOf(own)' /\ RecordOf(latest)' BY <1>1 DEF SubmitInv, RecordOf
<1>13. ServerFollows'
 <2>2. \A b \in AttemptsOf : b > tries' => status'[b] = "none"
  <3> SUFFICES ASSUME NEW b \in AttemptsOf, b > tries PROVE status'[b] = "none" BY <1>1
  <3> QED BY <1>7, <1>1 DEF SubmitInv, ServerFollows
 <2> QED BY <1>1, <2>2, <1>5, <1>7, <1>8 DEF ServerFollows, SubmitInv
<1>14. InItsPlace(command') /\ ~Fresh(command') BY <1>5, <1>6 DEF InItsPlace, Fresh, Sendings
<1>15. CommandKnows' BY <1>6, <1>14 DEF CommandKnows
<1>16. DoubtIsRecorded' BY <1>1, <1>4 DEF DoubtIsRecorded, Doubted
<1>17. RecordsFollow'
 <2> SUFFICES ASSUME NEW b \in AttemptsOf PROVE NotBefore(b)' BY DEF RecordsFollow
 <2>2. NotBefore(b) BY DEF SubmitInv, RecordsFollow
 <2> QED BY <1>1, <1>6, <1>10, <1>7, <2>2 DEF NotBefore, WasSent, MayExist
<1>18. StartIsChosen' BY <1>1, <1>6, <1>9 DEF StartIsChosen, Sendings, PastSend
<1>19. (ReportedIsThere /\ RetriedAsChosen)' BY <1>1 DEF SubmitInv, ReportedIsThere, RetriedAsChosen
<1> QED BY <1>11, <1>12, <1>13, <1>14, <1>15, <1>16, <1>17, <1>18, <1>19 DEF SubmitInv

LEMMA SubmitSteps == SubmitInv /\ [SubmitNext]_submitVars => SubmitInv'
<1> SUFFICES ASSUME SubmitInv, [SubmitNext]_submitVars PROVE SubmitInv' OBVIOUS
<1>1. CASE UNCHANGED submitVars
 <2> QED BY <1>1, ServerIsLeft, SubmitFacts DEF submitServer, submitVars
<1>2. ASSUME NEW s \in Starts, BeginRetry(latest, s) \/ BeginRetry(own, s) PROVE SubmitInv'
  BY <1>2, BeginRetryKeeps
<1>3. ASSUME NEW a \in AttemptsOf,
             ServerClaims(a) \/ ServerCalls(a) \/ ServerExpires(a) \/ RequestIsLost(a) \/ JobIsOver(a)
      PROVE  SubmitInv'
  BY <1>3, ServerClaimsKeeps, ServerCallsKeeps, ServerExpiresKeeps, JobChangesKeeps
<1> QED
  BY <1>1, <1>2, <1>3, BeginSubmitKeeps, FindExistingKeeps, ConfirmSubmitKeeps, SavePreparationKeeps,
     AdvancePreparationKeeps, RememberBeforeSendKeeps, SendExecuteKeeps, FoundKeeps, ObserveKeeps, SettleSentKeeps,
     FinishUnsentKeeps, ObserveParentKeeps, RefuseUnresolvedKeeps, SettleEarlierKeeps, ConfirmRetryKeeps,
     AuthorRetryKeeps, PrepareRetryKeeps, CancelLatestKeeps, ReportKeeps, StopCommandKeeps, AnotherRunKeeps
  DEF SubmitNext

------------
(* A batch.  What keeps it within its limit: whatever may run at the end
   of a pass was counted by it, is behind the child it dispatches, or was
   read as expired. *)
ChildStates == {"none", "PREPARED", "EXPIRED", "sent"}
WorkStates == {"none", "running", "over"}
ChildIds == InOrder \X Nat
ChildViews == [status : ChildStates \cup WorkStates \cup {"unknown"}, id : ChildIds]
PassPlaces == {"read", "dispatch", "send", "reply"}
Passes == [at : PassPlaces, next : Nat, view : Seq(ChildViews), active : Nat]

BatchTypeOK ==
    /\ child \in [InOrder -> ChildStates] /\ work \in [InOrder -> WorkStates] /\ renewed \in [InOrder -> Nat]
    /\ sending \subseteq claims /\ held \subseteq claims /\ claims \subseteq ChildIds
    /\ pass = NoPass \/ pass \in Passes

Potential == {i \in InOrder : MayRun(i)}
Exempt == behind \cup lapsed

\* A claim is of a Submission that was made, and so is a job.
ClaimIsMade(i) ==
    /\ \A n \in Nat : <<i, n>> \in claims => n <= renewed[i] /\ child[i] # "none"
    /\ work[i] # "none" => child[i] # "none"
    /\ child[i] = "sent" => work[i] # "none"

Underway == pass.at # "none"
Viewed == 1..Len(pass.view)
Counted == {i \in Viewed :
              \/ Occupied(pass.view[i].status)
              \/ pass.at # "read" /\ i < pass.next /\ pass.view[i].status = "PREPARED"}

\* What a pass has read of a child, and what it may have become since.
ViewExplains(i) ==
    LET v == pass.view[i]
    IN /\ v.id[1] = i /\ v.id[2] <= renewed[i]
       /\ v.status = "PREPARED" => child[i] # "none"
       /\ MayRun(i) => Occupied(v.status) \/ v.status \in {"PREPARED", "EXPIRED"}

PassExplains ==
    /\ Len(pass.view) = IF pass.at = "read" THEN pass.next - 1 ELSE Children
    /\ pass.next >= 1 /\ (pass.at = "read" => pass.next <= Children + 1)
    /\ pass.active = Cardinality(Counted)
    /\ \A i \in Viewed : ViewExplains(i)
    /\ pass.at \in {"send", "reply"} =>
         /\ pass.next <= Children /\ pass.active < Cap
         /\ View.status = "PREPARED" /\ View.id \in claims

BatchInv ==
    /\ BatchTypeOK /\ \A i \in InOrder : ClaimIsMade(i)
    /\ Cardinality(Potential \ Exempt) <= Cap
    /\ Underway => PassExplains

------------
PassRecord(a, n, v, k) == [at |-> a, next |-> n, view |-> v, active |-> k]

LEMMA PassFields ==
    ASSUME NEW p \in Passes
    PROVE  p.at \in PassPlaces /\ p.next \in Nat /\ p.view \in Seq(ChildViews) /\ p.active \in Nat
  BY DEF Passes

LEMMA PassIsMade ==
    ASSUME NEW a \in PassPlaces, NEW n \in Nat, NEW v \in Seq(ChildViews), NEW k \in Nat
    PROVE  LET p == PassRecord(a, n, v, k)
           IN p \in Passes /\ p.at = a /\ p.next = n /\ p.view = v /\ p.active = k
  BY DEF Passes, PassRecord

LEMMA AtOfPass ==
    \A p \in Passes, a \in PassPlaces : [p EXCEPT !.at = a] = PassRecord(a, p.next, p.view, p.active)
  BY DEF Passes, PassRecord
LEMMA NextOfPass ==
    \A p \in Passes, n \in Nat : [p EXCEPT !.next = n] = PassRecord(p.at, n, p.view, p.active)
  BY DEF Passes, PassRecord
LEMMA ViewOfPass ==
    \A p \in Passes, v \in Seq(ChildViews) : [p EXCEPT !.view = v] = PassRecord(p.at, p.next, v, p.active)
<1> SUFFICES ASSUME NEW p \in Passes, NEW v
             PROVE  [p EXCEPT !.view = v] = PassRecord(p.at, p.next, v, p.active)
  OBVIOUS
<1>1. PICK V : Passes = [at : PassPlaces, next : Nat, view : V, active : Nat] BY DEF Passes
<1> QED BY <1>1 DEF PassRecord
LEMMA ActiveOfPass ==
    \A p \in Passes, k \in Nat : [p EXCEPT !.active = k] = PassRecord(p.at, p.next, p.view, k)
  BY DEF Passes, PassRecord

\* A pass that has moved.
PassIs(p, a, n, v, k) == p \in Passes /\ p.at = a /\ p.next = n /\ p.view = v /\ p.active = k

LEMMA PassGoes ==
    ASSUME NEW p \in Passes, NEW a \in PassPlaces
    PROVE  PassIs([p EXCEPT !.at = a], a, p.next, p.view, p.active)
<1>1. [p EXCEPT !.at = a] = PassRecord(a, p.next, p.view, p.active) BY AtOfPass, Zenon
<1> QED BY <1>1, PassFields, PassIsMade DEF PassIs

LEMMA PassTurns ==
    ASSUME NEW p \in Passes, NEW a \in PassPlaces, NEW n \in Nat
    PROVE  PassIs([p EXCEPT !.at = a, !.next = n], a, n, p.view, p.active)
<1> DEFINE d == [p EXCEPT !.at = a]
           x == [d EXCEPT !.next = n]
<1>1. d \in Passes /\ d.at = a /\ d.view = p.view /\ d.active = p.active BY PassGoes DEF PassIs
<1>2. x = [p EXCEPT !.at = a, !.next = n] BY Zenon
<1> HIDE DEF d
<1>3. x = PassRecord(d.at, n, d.view, d.active) BY <1>1, NextOfPass, Zenon
<1> HIDE DEF x
<1>5. PassIs(x, a, n, p.view, p.active) BY <1>1, <1>3, PassFields, PassIsMade DEF PassIs
<1> QED BY <1>2, <1>5, Zenon

LEMMA PassAdvances ==
    ASSUME NEW p \in Passes, NEW n \in Nat, NEW k \in Nat
    PROVE  PassIs([p EXCEPT !.next = n, !.active = k], p.at, n, p.view, k)
<1> DEFINE d == [p EXCEPT !.next = n]
           x == [d EXCEPT !.active = k]
<1>1. d = PassRecord(p.at, n, p.view, p.active) BY NextOfPass, Zenon
<1>2. x = [p EXCEPT !.next = n, !.active = k] BY Zenon
<1> HIDE DEF d
<1>3. d \in Passes /\ d.at = p.at /\ d.next = n /\ d.view = p.view BY <1>1, PassFields, PassIsMade
<1>4. x = PassRecord(d.at, d.next, d.view, k) BY <1>3, ActiveOfPass, Zenon
<1> HIDE DEF x
<1>6. PassIs(x, p.at, n, p.view, k) BY <1>3, <1>4, PassFields, PassIsMade DEF PassIs
<1> QED BY <1>2, <1>6, Zenon

LEMMA PassReads ==
    ASSUME NEW p \in Passes, NEW n \in Nat, NEW k \in Nat, NEW v \in Seq(ChildViews)
    PROVE  PassIs([p EXCEPT !.next = n, !.active = k, !.view = v], p.at, n, v, k)
<1> DEFINE d == [p EXCEPT !.next = n, !.active = k]
           x == [d EXCEPT !.view = v]
<1>0. PassIs(d, p.at, n, p.view, k) BY PassAdvances
<1>1. d \in Passes /\ d.at = p.at /\ d.next = n /\ d.active = k BY <1>0 DEF PassIs
<1>2. x = [p EXCEPT !.next = n, !.active = k, !.view = v] BY Zenon
<1> HIDE DEF d
<1>3. x = PassRecord(d.at, d.next, v, d.active) BY <1>1, ViewOfPass, Zenon
<1> HIDE DEF x
<1>5. PassIs(x, p.at, n, v, k) BY <1>1, <1>3, PassFields, PassIsMade DEF PassIs
<1> QED BY <1>2, <1>5, Zenon

LEMMA PassOrNone == NoPass.at = "none" /\ \A p \in Passes : p.at # "none" /\ p # NoPass
  BY DEF NoPass, Passes, PassPlaces

------------
LEMMA BatchStarts == BatchInit => BatchInv
<1> SUFFICES ASSUME BatchInit PROVE BatchInv OBVIOUS
<1>2. \A i \in InOrder : ClaimIsMade(i) /\ ~MayRun(i) BY DEF BatchInit, ClaimIsMade, MayRun
<1>4. Cardinality(Potential \ Exempt) <= Cap
 <2> QED BY <1>2, FS_EmptySet, BatchAssumption DEF Potential
<1> QED BY <1>2, <1>4, PassOrNone DEF BatchInv, BatchTypeOK, Underway, BatchInit, ChildStates, WorkStates

LEMMA ChildrenAreFinite ==
    /\ IsFiniteSet(InOrder) /\ IsFiniteSet(Potential)
    /\ \A S \in SUBSET InOrder : IsFiniteSet(S)
<1>1. IsFiniteSet(InOrder) BY FS_Interval, BatchAssumption DEF InOrder
<1> QED BY <1>1, FS_Subset DEF Potential

LEMMA BatchFacts ==
    ASSUME BatchInv
    PROVE  /\ child \in [InOrder -> ChildStates] /\ work \in [InOrder -> WorkStates] /\ renewed \in [InOrder -> Nat]
           /\ sending \subseteq claims /\ held \subseteq claims /\ claims \subseteq ChildIds
           /\ pass = NoPass \/ pass \in Passes
           /\ pass \in Passes <=> Underway
           /\ pass \in Passes => PassExplains
           /\ \A i \in InOrder : ClaimIsMade(i)
           /\ Cardinality(Potential \ Exempt) \in Nat /\ Cardinality(Potential \ Exempt) <= Cap
<1>1. Cardinality(Potential \ Exempt) \in Nat
 <2> QED BY ChildrenAreFinite, FS_CardinalityType DEF Potential
<1> QED BY <1>1, PassOrNone DEF BatchInv, BatchTypeOK, Underway

\* What the view of a pass holds, when it has one.
LEMMA ViewFacts ==
    ASSUME BatchInv, pass \in Passes
    PROVE  /\ pass.at \in PassPlaces /\ pass.next \in Nat /\ pass.next >= 1 /\ pass.active \in Nat
           /\ pass.view \in Seq(ChildViews) /\ Len(pass.view) \in Nat
           /\ Viewed \subseteq InOrder \/ pass.at = "read"
           /\ \A i \in Viewed :
                /\ i \in Nat /\ pass.view[i] \in ChildViews
                /\ pass.view[i].id \in ChildIds /\ ViewExplains(i)
           /\ IsFiniteSet(Counted) /\ pass.active = Cardinality(Counted)
<1>1. /\ pass.at \in PassPlaces /\ pass.next \in Nat /\ pass.active \in Nat
      /\ pass.view \in Seq(ChildViews) /\ Len(pass.view) \in Nat
  BY PassFields
<1>2. PassExplains BY BatchFacts
<1>3. \A i \in Viewed : i \in Nat /\ pass.view[i] \in ChildViews BY <1>1 DEF Viewed
<1>6. IsFiniteSet(Counted)
 <2>1. IsFiniteSet(Viewed) BY <1>1, FS_Interval DEF Viewed
 <2> QED BY <2>1, FS_Subset DEF Counted
<1> QED BY <1>1, <1>2, <1>3, <1>6 DEF PassExplains, ChildViews, Viewed, InOrder

(* Steps of the children, none of which may run unless it could. *)
LEMMA ChildrenKeeps ==
    ASSUME BatchInv, UNCHANGED <<claims, pass, behind, lapsed>>, sending' \subseteq claims, held' \subseteq claims,
           child' \in [InOrder -> ChildStates], work' \in [InOrder -> WorkStates], renewed' \in [InOrder -> Nat],
           \A i \in InOrder : /\ MayRun(i)' => MayRun(i)
                              /\ renewed[i] <= renewed'[i]
                              /\ child[i] # "none" => child'[i] # "none"
                              /\ work'[i] # "none" => child'[i] # "none"
                              /\ child'[i] = "sent" => work'[i] # "none"
    PROVE  BatchInv'
<1>2. \A i \in InOrder : ClaimIsMade(i)'
 <2> SUFFICES ASSUME NEW i \in InOrder PROVE ClaimIsMade(i)' OBVIOUS
 <2>1. ASSUME NEW n \in Nat, <<i, n>> \in claims PROVE n <= renewed'[i] /\ child'[i] # "none"
  <3> QED BY <2>1, BatchFacts DEF ClaimIsMade
 <2> QED BY <2>1 DEF ClaimIsMade
<1>3. Cardinality(Potential \ Exempt)' <= Cap
 <2>1. (Potential \ Exempt)' \subseteq Potential \ Exempt BY DEF Potential, Exempt
 <2>3. /\ Cardinality((Potential \ Exempt)') <= Cardinality(Potential \ Exempt)
       /\ Cardinality((Potential \ Exempt)') \in Nat
   BY <2>1, ChildrenAreFinite, FS_Subset, FS_CardinalityType DEF Potential
 <2> QED BY <2>3, BatchFacts, BatchAssumption
<1>4. Underway' => PassExplains'
 <2> SUFFICES ASSUME Underway PROVE PassExplains' BY DEF Underway
 <2>1. pass \in Passes /\ PassExplains BY BatchFacts
 <2>2. \A i \in Viewed : ViewExplains(i)'
  <3> SUFFICES ASSUME NEW i \in Viewed PROVE ViewExplains(i)' OBVIOUS
  <3> DEFINE v == pass.view[i]
  <3>1. ViewExplains(i) /\ v.id \in ChildIds BY <2>1, ViewFacts
  <3> QED BY <3>1, BatchFacts DEF ViewExplains, ChildIds
 <2> QED BY <2>1, <2>2 DEF PassExplains, Viewed, Counted, View
<1> QED BY <1>2, <1>3, <1>4 DEF BatchInv, BatchTypeOK

(* Steps of the pass alone. *)
LEMMA PassKeeps ==
    ASSUME BatchInv, UNCHANGED <<childVars, claims, behind, lapsed>>,
           pass' = NoPass \/ (pass' \in Passes /\ PassExplains')
    PROVE  BatchInv'
<1>5. Underway' => PassExplains' BY PassOrNone DEF Underway
<1> QED BY <1>5 DEF BatchInv, BatchTypeOK, ClaimIsMade, Potential, MayRun, Exempt, childVars

ChildStep(i) ==
    \/ PrepareChild(i) \/ ChildExpires(i) \/ RenewChild(i) \/ ChildArrives(i)
    \/ ChildStarts(i) \/ ChildIsRefused(i) \/ ChildEnds(i)

\* Only the Submission or the job of a child moves, and no request.
LEMMA ChildMoves ==
    ASSUME BatchInv, NEW i \in InOrder, UNCHANGED <<claims, sending, held, pass, behind, lapsed>>,
           child' \in [InOrder -> ChildStates], work' \in [InOrder -> WorkStates], renewed' \in [InOrder -> Nat],
           \A j \in InOrder \ {i} : child'[j] = child[j] /\ work'[j] = work[j] /\ renewed'[j] = renewed[j],
           renewed[i] <= renewed'[i], child'[i] # "none", child'[i] = "sent" => child[i] = "sent",
           work'[i] = work[i] \/ (work[i] = "running" /\ work'[i] = "over")
    PROVE  BatchInv'
<1>1. \A j \in InOrder : ClaimIsMade(j) /\ renewed[j] \in Nat BY BatchFacts
<1>2. \A j \in InOrder : MayRun(j)' => MayRun(j)
 <2> SUFFICES ASSUME NEW j \in InOrder, MayRun(j)' PROVE MayRun(j) OBVIOUS
 <2>1. work'[j] = work[j] \/ (work[j] = "running" /\ work'[j] = "over") OBVIOUS
 <2> QED BY <2>1 DEF MayRun
<1>3. \A j \in InOrder : /\ renewed[j] <= renewed'[j]
                         /\ child[j] # "none" => child'[j] # "none"
                         /\ work'[j] # "none" => child'[j] # "none"
                         /\ child'[j] = "sent" => work'[j] # "none"
 <2> SUFFICES ASSUME NEW j \in InOrder
              PROVE  /\ renewed[j] <= renewed'[j]
                     /\ child[j] # "none" => child'[j] # "none"
                     /\ work'[j] # "none" => child'[j] # "none"
                     /\ child'[j] = "sent" => work'[j] # "none"
   OBVIOUS
 <2>1. CASE j = i BY <2>1, <1>1 DEF ClaimIsMade
 <2>2. CASE j # i BY <2>2, <1>1 DEF ClaimIsMade
 <2> QED BY <2>1, <2>2
<1> QED BY <1>2, <1>3, BatchFacts, ChildrenKeeps

\* A request is on its way, is held, or is no more; and a held one starts.
LEMMA RequestMoves ==
    ASSUME BatchInv, UNCHANGED <<child, work, renewed, claims, pass, behind, lapsed>>,
           (sending \cup held)' \subseteq sending \cup held
    PROVE  BatchInv'
<1>1. \A j \in InOrder : MayRun(j)' => MayRun(j) BY DEF MayRun
<1>2. \A j \in InOrder : ClaimIsMade(j) /\ renewed[j] \in Nat BY BatchFacts
<1>3. sending' \subseteq claims /\ held' \subseteq claims BY BatchFacts
<1> QED BY <1>1, <1>2, <1>3, BatchFacts, ChildrenKeeps DEF ClaimIsMade

LEMMA ChildStartsKeeps == ASSUME BatchInv, NEW i \in InOrder, ChildStarts(i) PROVE BatchInv'
<1>1. PICK n \in 0..Renewals :
        /\ <<i, n>> \in held /\ held' = held \ {<<i, n>>}
        /\ child' = IF n = renewed[i] THEN [child EXCEPT ![i] = "sent"] ELSE child
  BY DEF ChildStarts
<1>2. /\ UNCHANGED <<renewed, claims, sending, pass, behind, lapsed>>
      /\ work' = IF work[i] = "none" THEN [work EXCEPT ![i] = "running"] ELSE work
  BY DEF ChildStarts
<1>3. /\ child \in [InOrder -> ChildStates] /\ work \in [InOrder -> WorkStates] /\ renewed \in [InOrder -> Nat]
      /\ \A j \in InOrder : ClaimIsMade(j)
      /\ sending \subseteq claims /\ held \subseteq claims
  BY BatchFacts
<1>4. child[i] # "none" BY <1>1, <1>3 DEF ClaimIsMade
<1>5. /\ child' \in [InOrder -> ChildStates] /\ work' \in [InOrder -> WorkStates]
      /\ child'[i] # "none" /\ work'[i] # "none"
      /\ \A j \in InOrder \ {i} : child'[j] = child[j] /\ work'[j] = work[j]
 <2>1. child' \in [InOrder -> ChildStates] /\ child'[i] # "none" /\ \A j \in InOrder \ {i} : child'[j] = child[j]
   BY <1>1, <1>3, <1>4 DEF ChildStates
 <2>2. work' \in [InOrder -> WorkStates] /\ work'[i] # "none" /\ \A j \in InOrder \ {i} : work'[j] = work[j]
   BY <1>2, <1>3 DEF WorkStates
 <2> QED BY <2>1, <2>2
<1>6. \A j \in InOrder : MayRun(j)' => MayRun(j)
 <2> SUFFICES ASSUME NEW j \in InOrder, MayRun(j)' PROVE MayRun(j) OBVIOUS
 <2>1. CASE j # i BY <2>1, <1>1, <1>2, <1>5 DEF MayRun
 <2>2. CASE j = i /\ work[i] = "none" BY <2>2, <1>1 DEF MayRun
 <2>3. CASE j = i /\ work[i] # "none" BY <2>3, <1>2 DEF MayRun
 <2> QED BY <2>1, <2>2, <2>3
<1>7. \A j \in InOrder : /\ renewed[j] <= renewed'[j]
                         /\ child[j] # "none" => child'[j] # "none"
                         /\ work'[j] # "none" => child'[j] # "none"
                         /\ child'[j] = "sent" => work'[j] # "none"
 <2> SUFFICES ASSUME NEW j \in InOrder
              PROVE  /\ child[j] # "none" => child'[j] # "none"
                     /\ work'[j] # "none" => child'[j] # "none"
                     /\ child'[j] = "sent" => work'[j] # "none"
   BY <1>2, <1>3
 <2>1. CASE j = i BY <2>1, <1>5
 <2>2. CASE j # i BY <2>2, <1>3, <1>5 DEF ClaimIsMade
 <2> QED BY <2>1, <2>2
<1>8. sending' \subseteq claims /\ held' \subseteq claims BY <1>1, <1>2, <1>3
<1>9. renewed' \in [InOrder -> Nat] BY <1>2, <1>3
<1> QED BY <1>2, <1>5, <1>6, <1>7, <1>8, <1>9, ChildrenKeeps

LEMMA ChildStepsKeep == ASSUME BatchInv, NEW i \in InOrder, ChildStep(i) PROVE BatchInv'
<1>1. /\ child \in [InOrder -> ChildStates] /\ work \in [InOrder -> WorkStates] /\ renewed \in [InOrder -> Nat]
  BY BatchFacts
<1>2. CASE PrepareChild(i) BY <1>1, <1>2, ChildMoves DEF PrepareChild, ChildStates
<1>3. CASE ChildExpires(i) BY <1>1, <1>3, ChildMoves DEF ChildExpires, ChildStates
<1>4. CASE RenewChild(i) BY <1>1, <1>4, ChildMoves DEF RenewChild, ChildStates
<1>5. CASE ChildArrives(i) BY <1>5, RequestMoves DEF ChildArrives
<1>6. CASE ChildStarts(i) BY <1>6, ChildStartsKeeps
<1>7. CASE ChildIsRefused(i) BY <1>7, RequestMoves DEF ChildIsRefused
<1>8. CASE ChildEnds(i)
 <2>1. child[i] # "none" BY <1>8, BatchFacts DEF ChildEnds, ClaimIsMade
 <2> QED BY <1>1, <1>8, <2>1, ChildMoves DEF ChildEnds, WorkStates
<1> QED BY <1>2, <1>3, <1>4, <1>5, <1>6, <1>7, <1>8 DEF ChildStep

\* A pass that goes on is right about what it has read.
LEMMA ViewStays ==
    ASSUME UNCHANGED childVars, NEW i, ViewExplains(i), pass'.view[i] = pass.view[i]
    PROVE  ViewExplains(i)'
<1>1. MayRun(i)' <=> MayRun(i) BY DEF MayRun, childVars
<1>2. UNCHANGED <<child, renewed>> BY DEF childVars
<1> QED BY <1>1, <1>2 DEF ViewExplains

LEMMA PassBegins == ASSUME BatchInv, BeginPass \/ EndPass PROVE BatchInv'
<1>1. CASE EndPass BY <1>1, PassKeeps DEF EndPass
<1>2. CASE BeginPass
 <2>1. pass' = PassRecord("read", 1, <<>>, 0) /\ UNCHANGED <<childVars, claims, behind, lapsed>>
   BY <1>2 DEF BeginPass, PassRecord
 <2>3. pass' \in Passes /\ pass'.at = "read" /\ pass'.next = 1 /\ pass'.view = <<>> /\ pass'.active = 0
   BY <2>1 DEF Passes, PassRecord, PassPlaces
 <2>4. Viewed' = {} /\ Len(pass'.view) = 0 BY <2>3 DEF Viewed
 <2>5. Cardinality(Counted') = 0
  <3> QED BY <2>4, FS_EmptySet DEF Counted
 <2> QED BY <2>1, <2>3, <2>4, <2>5, BatchAssumption, PassKeeps DEF PassExplains
<1> QED BY <1>1, <1>2

\* What the current Submission of a child that may run shows.
LEMMA ShownExplains ==
    ASSUME BatchInv, NEW i \in InOrder, MayRun(i)
    PROVE  Shown(i) \in {"PREPARED", "EXPIRED", "running"}
<1>1. ClaimIsMade(i) /\ child[i] \in ChildStates /\ work[i] \in WorkStates BY BatchFacts
<1>2. CASE child[i] = "sent" BY <1>1, <1>2 DEF Shown, MayRun, ClaimIsMade, WorkStates
<1>3. CASE child[i] = "none"
 <2>1. work[i] = "none" BY <1>1, <1>3 DEF ClaimIsMade
 <2>2. PICK n \in 0..Renewals : <<i, n>> \in sending \cup held BY <2>1 DEF MayRun
 <2>3. <<i, n>> \in claims BY <2>2, BatchFacts
 <2> QED BY <1>1, <1>3, <2>3 DEF ClaimIsMade
<1>4. CASE child[i] \notin {"none", "sent"} BY <1>1, <1>4 DEF Shown, ChildStates
<1> QED BY <1>2, <1>3, <1>4

LEMMA ReadChildKeeps == ASSUME BatchInv, ReadChild PROVE BatchInv'
<1> DEFINE i == pass.next
<1>1. PICK view \in {Shown(i), "unknown"} :
        pass' = [pass EXCEPT !.next = i + 1, !.active = pass.active + IF Occupied(view) THEN 1 ELSE 0,
                   !.view = Append(pass.view, [status |-> view, id |-> <<i, renewed[i]>>])]
  BY DEF ReadChild
<1>2. /\ pass.at = "read" /\ i <= Children /\ UNCHANGED <<childVars, claims, behind, lapsed>>
      /\ pass \in Passes
 <2> QED BY PassOrNone, BatchFacts DEF ReadChild
<1>3. /\ i \in InOrder /\ i \in Nat /\ pass.active \in Nat /\ pass.view \in Seq(ChildViews) /\ Len(pass.view) = i - 1
      /\ Len(pass.view) \in Nat
 <2> QED BY <1>2, ViewFacts, BatchAssumption, BatchFacts DEF InOrder, PassExplains
<1> DEFINE v == [status |-> view, id |-> <<i, renewed[i]>>]
           k == pass.active + IF Occupied(view) THEN 1 ELSE 0
           w == Append(pass.view, v)
<1>4. v \in ChildViews /\ v.status = view /\ v.id = <<i, renewed[i]>> /\ renewed[i] \in Nat
 <2>1. child[i] \in ChildStates /\ work[i] \in WorkStates /\ renewed[i] \in Nat BY <1>3, BatchFacts
 <2>2. view \in ChildStates \cup WorkStates \cup {"unknown"} BY <1>1, <2>1 DEF Shown
 <2> QED BY <1>3, <2>1, <2>2 DEF ChildViews, ChildIds
<1>5. k \in Nat BY <1>3
<1> HIDE DEF v
<1>6. w \in Seq(ChildViews) /\ Len(w) = i /\ w[i] = v /\ \A j \in 1..(i - 1) : w[j] = pass.view[j]
  BY <1>3, <1>4
<1> HIDE DEF w, k
<1>7. pass' \in Passes /\ pass'.at = "read" /\ pass'.next = i + 1 /\ pass'.view = w /\ pass'.active = k
 <2>1. pass' = [pass EXCEPT !.next = i + 1, !.active = k, !.view = w] BY <1>1 DEF k, w, v
 <2>2. i + 1 \in Nat BY <1>3
 <2>3. PassIs(pass', pass.at, i + 1, w, k) BY <1>2, <1>5, <1>6, <2>1, <2>2, PassReads
 <2> QED BY <1>2, <2>3 DEF PassIs
<1>8. Viewed = 1..(i - 1) /\ Viewed' = 1..i BY <1>3, <1>6, <1>7 DEF Viewed
<1>9. Counted' = IF Occupied(view) THEN Counted \cup {i} ELSE Counted
 <2>1. \A j \in Viewed' : j \in Viewed \/ j = i BY <1>3, <1>8
 <2>2. \A j \in Viewed : j \in Viewed' /\ j # i /\ w[j] = pass.view[j] BY <1>3, <1>6, <1>8
 <2>3. i \in Viewed' BY <1>3, <1>8
 <2> QED BY <1>2, <1>4, <1>6, <1>7, <2>1, <2>2, <2>3 DEF Counted
<1>10. pass'.active = Cardinality(Counted')
 <2>1. pass.active = Cardinality(Counted) /\ IsFiniteSet(Counted) BY <1>2, ViewFacts
 <2>2. i \notin Counted BY <1>3, <1>8 DEF Counted
 <2>3. Cardinality(Counted \cup {i}) = Cardinality(Counted) + 1 BY <2>1, <2>2, FS_AddElement
 <2> QED BY <1>3, <1>7, <1>9, <2>1, <2>3 DEF k
<1>11. \A j \in Viewed' : ViewExplains(j)'
 <2> SUFFICES ASSUME NEW j \in Viewed' PROVE ViewExplains(j)' OBVIOUS
 <2>1. CASE j \in 1..(i - 1)
  <3> QED BY <1>2, <1>6, <1>7, <2>1, <1>8, ViewFacts, ViewStays
 <2>2. CASE j = i
  <3>1. v.id[1] = i /\ v.id[2] = renewed[i] BY <1>4
  <3>2. view = "PREPARED" => child[i] # "none"
   <4> QED BY <1>1, <1>3, BatchFacts DEF Shown, WorkStates
  <3>3. MayRun(i) => Occupied(view) \/ view \in {"PREPARED", "EXPIRED"} BY <1>1, <1>3, ShownExplains DEF Occupied
  <3>4. pass'.view[j] = v BY <1>6, <1>7, <2>2
  <3>5. UNCHANGED <<childVars, claims>> BY <1>2
  <3>6. renewed[i] <= renewed[i] BY <1>4
  <3> QED BY <1>4, <2>2, <3>1, <3>2, <3>3, <3>4, <3>5, <3>6 DEF ViewExplains, MayRun, childVars
 <2> QED BY <1>3, <1>8, <2>1, <2>2
<1>12. pass'.next <= Children + 1 /\ pass'.next >= 1 /\ Len(pass'.view) = pass'.next - 1
 <2>2. pass'.next = i + 1 /\ Len(pass'.view) = i BY <1>6, <1>7
 <2> HIDE DEF i
 <2> QED BY <1>2, <1>3, BatchAssumption, <2>2
<1>13. PassExplains'
 <2> QED BY <1>10, <1>11, <1>12, <1>7 DEF PassExplains
<1> QED BY <1>2, <1>7, <1>13, PassKeeps

LEMMA BeginDispatchKeeps == ASSUME BatchInv, BeginDispatch PROVE BatchInv'
<1>1. /\ pass.at = "read" /\ pass.next > Children /\ UNCHANGED <<childVars, claims, behind, lapsed>>
      /\ pass' = [pass EXCEPT !.at = "dispatch", !.next = 1] /\ pass \in Passes
 <2> QED BY PassOrNone, BatchFacts DEF BeginDispatch
<1>2. /\ pass' \in Passes /\ pass'.at = "dispatch" /\ pass'.next = 1 /\ pass'.view = pass.view
      /\ pass'.active = pass.active
 <2>2. PassIs(pass', "dispatch", 1, pass.view, pass.active) BY <1>1, PassTurns DEF PassPlaces
 <2> QED BY <2>2 DEF PassIs
<1>3. Viewed' = Viewed BY <1>2 DEF Viewed
<1>4. Counted' = Counted
 <2> QED BY <1>1, <1>2, <1>3, ViewFacts DEF Counted, Viewed
<1>5. Len(pass.view) = Children
 <2> QED BY <1>1, BatchFacts, ViewFacts, BatchAssumption DEF PassExplains
<1>6. \A i \in Viewed' : ViewExplains(i)'
 <2>1. \A i \in Viewed : ViewExplains(i) BY <1>1, ViewFacts
 <2> QED BY <1>1, <1>2, <1>3, <2>1, ViewStays
<1> QED BY <1>1, <1>2, <1>5, <1>6, <1>4, ViewFacts, PassKeeps DEF PassExplains

\* A pass that dispatches: what it knows of the child it has reached.
LEMMA DispatchFacts ==
    ASSUME BatchInv, pass.at \in {"dispatch", "send", "reply"}, pass.next <= Children
    PROVE  /\ pass \in Passes /\ PassExplains /\ Len(pass.view) = Children
           /\ pass.next \in InOrder /\ pass.next \in Nat /\ pass.next >= 1 /\ pass.next \in Viewed
           /\ Viewed = InOrder /\ Counted \subseteq InOrder
           /\ View = pass.view[pass.next] /\ View.id \in ChildIds /\ ViewExplains(pass.next)
           /\ IsFiniteSet(Counted) /\ pass.active = Cardinality(Counted) /\ pass.active \in Nat
<1>1. pass \in Passes
 <2> QED BY PassOrNone, BatchFacts
<1>2. PassExplains BY <1>1, BatchFacts
<1>3. Len(pass.view) = Children BY <1>2 DEF PassExplains
<1>4. pass.next \in InOrder /\ pass.next \in Nat /\ pass.next >= 1
 <2> QED BY <1>1, ViewFacts, BatchAssumption DEF InOrder
<1>5. Viewed = InOrder BY <1>3 DEF Viewed, InOrder
<1>6. Counted \subseteq InOrder BY <1>5 DEF Counted
<1>7. View = pass.view[pass.next] BY DEF View
<1>8. pass.next \in Viewed BY <1>4, <1>5
<1>9. View.id \in ChildIds /\ ViewExplains(pass.next) BY <1>1, <1>7, <1>8, ViewFacts
<1>10. IsFiniteSet(Counted) /\ pass.active = Cardinality(Counted) /\ pass.active \in Nat BY <1>1, ViewFacts
<1> QED BY <1>1, <1>2, <1>3, <1>4, <1>5, <1>6, <1>7, <1>8, <1>9, <1>10

(* The pass goes on to the next child, having counted this one if it was
   ready. *)
LEMMA GoingOnKeeps ==
    ASSUME BatchInv, pass.at \in {"dispatch", "reply"}, pass.next <= Children,
           UNCHANGED <<childVars, claims, behind, lapsed>>,
           NEW k \in Nat, PassIs(pass', "dispatch", pass.next + 1, pass.view, k),
           k = pass.active + IF View.status = "PREPARED" THEN 1 ELSE 0
    PROVE  BatchInv'
<1> DEFINE i == pass.next
<1>1. pass' \in Passes /\ pass'.at = "dispatch" /\ pass'.next = i + 1 /\ pass'.view = pass.view /\ pass'.active = k
  BY DEF PassIs
<1>2. Viewed' = Viewed BY <1>1 DEF Viewed
<1>3. i \in Viewed /\ i \in Nat /\ \A j \in Viewed : j \in Nat BY DispatchFacts, ViewFacts
<1>4. Counted' = IF View.status = "PREPARED" THEN Counted \cup {i} ELSE Counted
 <2> QED BY <1>1, <1>2, <1>3 DEF Counted, View
<1>5. View.status = "PREPARED" => i \notin Counted
 <2> QED BY <1>3 DEF Counted, Occupied, View
<1>6. pass'.active = Cardinality(Counted')
 <2>1. pass.active = Cardinality(Counted) /\ IsFiniteSet(Counted) /\ pass.active \in Nat BY DispatchFacts
 <2>2. i \notin Counted => Cardinality(Counted \cup {i}) = Cardinality(Counted) + 1 BY <2>1, FS_AddElement
 <2> QED BY <1>1, <1>4, <1>5, <2>1, <2>2
<1>7. \A j \in Viewed' : ViewExplains(j)'
 <2>1. \A j \in Viewed : ViewExplains(j) BY DispatchFacts, ViewFacts
 <2> QED BY <1>1, <1>2, <2>1, ViewStays
<1> QED BY <1>1, <1>6, <1>7, <1>3, DispatchFacts, PassKeeps DEF PassExplains

LEMMA PassOverKeeps == ASSUME BatchInv, PassOver \/ AlreadyRequested PROVE BatchInv'
<1>1. /\ pass.at = "dispatch" /\ pass.next <= Children /\ UNCHANGED <<childVars, claims, behind, lapsed>>
  BY DEF PassOver, AlreadyRequested, Reached
<1>2. pass \in Passes /\ pass.active \in Nat /\ pass.next + 1 \in Nat BY <1>1, DispatchFacts
<1> DEFINE k == pass.active + IF View.status = "PREPARED" THEN 1 ELSE 0
<1>3. pass' = [pass EXCEPT !.next = pass.next + 1, !.active = k]
 <2>1. CASE PassOver
  <3>1. k = pass.active BY <1>2, <2>1 DEF PassOver
  <3> QED BY <2>1, <3>1 DEF PassOver, Advance
 <2>2. CASE AlreadyRequested
  <3> QED BY <2>2 DEF AlreadyRequested, Advance, AlreadyCount
 <2> QED BY <2>1, <2>2
<1>4. k \in Nat BY <1>2
<1> HIDE DEF k
<1> QED BY <1>1, <1>4, <1>2, <1>3, PassAdvances, GoingOnKeeps DEF k

LEMMA ChildReplyKeeps == ASSUME BatchInv, ChildReply PROVE BatchInv'
<1>1. pass.at = "reply" /\ UNCHANGED <<childVars, claims, behind, lapsed>> BY DEF ChildReply
<1>2. pass \in Passes /\ pass.next <= Children /\ View.status = "PREPARED"
 <2> QED BY <1>1, PassOrNone, BatchFacts DEF PassExplains
<1>3. pass.active \in Nat /\ pass.next + 1 \in Nat BY <1>1, <1>2, DispatchFacts
<1> DEFINE k == pass.active + 1
           q == [pass EXCEPT !.next = pass.next + 1, !.active = k]
<1>4. k \in Nat BY <1>3
<1>5. pass' = [q EXCEPT !.at = "dispatch"] BY DEF ChildReply, Advance
<1> HIDE DEF k
<1>6. PassIs(q, pass.at, pass.next + 1, pass.view, k) BY <1>2, <1>3, <1>4, PassAdvances
<1> HIDE DEF q
<1>7. q \in Passes /\ q.next = pass.next + 1 /\ q.view = pass.view /\ q.active = k BY <1>6 DEF PassIs
<1>8. PassIs(pass', "dispatch", q.next, q.view, q.active) BY <1>5, <1>7, PassGoes DEF PassPlaces
<1> QED BY <1>1, <1>2, <1>4, <1>7, <1>8, GoingOnKeeps DEF k, PassIs

LEMMA ClaimChildKeeps == ASSUME BatchInv, ClaimChild PROVE BatchInv'
<1> DEFINE i == pass.next
<1>1. /\ pass.at = "dispatch" /\ i <= Children /\ pass.active < Cap /\ UNCHANGED <<childVars, behind, lapsed>>
      /\ View.status = "PREPARED" /\ claims' = claims \cup {View.id} /\ pass' = [pass EXCEPT !.at = "send"]
  BY DEF ClaimChild, Reached
<1>2. /\ pass \in Passes /\ i \in InOrder /\ View.id \in ChildIds /\ View.id[1] = i
      /\ View.id[2] <= renewed[i] /\ child[i] # "none"
  BY <1>1, DispatchFacts DEF ViewExplains
<1>4. UNCHANGED <<child, work, renewed, sending, held>> BY <1>1 DEF childVars
<1>3. /\ pass' \in Passes /\ pass'.at = "send" /\ pass'.next = i /\ pass'.view = pass.view /\ pass'.active = pass.active
 <2> QED BY <1>1, <1>2, PassGoes DEF PassIs, PassPlaces
<1>5. \A j \in InOrder : ClaimIsMade(j)'
 <2> SUFFICES ASSUME NEW j \in InOrder, NEW n \in Nat, <<j, n>> \in claims'
              PROVE  n <= renewed[j] /\ child[j] # "none"
   BY <1>4, BatchFacts DEF ClaimIsMade
 <2>1. CASE <<j, n>> \in claims BY <2>1, BatchFacts DEF ClaimIsMade
 <2>2. CASE <<j, n>> = View.id
  <3> QED BY <1>2, <2>2
 <2> QED BY <1>1, <2>1, <2>2
<1>6. Cardinality(Potential \ Exempt)' <= Cap
 <2> QED BY <1>1, <1>4 DEF BatchInv, Potential, MayRun, Exempt
<1>7. PassExplains'
 <2>1. Viewed' = Viewed /\ Counted' = Counted /\ View' = View BY <1>1, <1>3 DEF Viewed, Counted, View
 <2>2. \A j \in Viewed' : ViewExplains(j)'
  <3> QED BY <1>1, <1>3, <2>1, <1>2, ViewFacts, ViewStays
 <2> QED BY <1>1, <1>3, <2>1, <2>2, DispatchFacts DEF PassExplains
<1> QED BY <1>1, <1>4, <1>2, <1>3, <1>5, <1>6, <1>7 DEF BatchInv, BatchTypeOK

LEMMA SendChildKeeps == ASSUME BatchInv, SendChild PROVE BatchInv'
<1> DEFINE i == pass.next
<1>1. /\ pass.at = "send" /\ UNCHANGED <<child, work, renewed, claims, held>> /\ sending' = sending \cup {View.id}
      /\ pass' = [pass EXCEPT !.at = "reply"]
      /\ behind' = Uncounted("PREPARED") \ 1..i /\ lapsed' = Uncounted("EXPIRED")
  BY DEF SendChild
<1>2. i <= Children /\ pass.active < Cap /\ View.status = "PREPARED" /\ View.id \in claims
 <2> QED BY <1>1, PassOrNone, BatchFacts DEF PassExplains
<1>3. /\ pass \in Passes /\ i \in InOrder /\ i \in Nat /\ i >= 1 /\ View.id \in ChildIds /\ View.id[1] = i
      /\ View = pass.view[i] /\ Viewed = InOrder
  BY <1>1, <1>2, DispatchFacts DEF ViewExplains
<1>4. /\ pass' \in Passes /\ pass'.at = "reply" /\ pass'.next = i /\ pass'.view = pass.view /\ pass'.active = pass.active
 <2> QED BY <1>1, <1>3, PassGoes DEF PassIs, PassPlaces
<1>7. \A j \in InOrder : MayRun(j)' => MayRun(j) \/ j = i
 <2> SUFFICES ASSUME NEW j \in InOrder, j # i, MayRun(j)' PROVE MayRun(j) OBVIOUS
 <2>1. \A n \in 0..Renewals : <<j, n>> # View.id BY <1>3
 <2> QED BY <1>1, <2>1 DEF MayRun
<1>8. \A j \in InOrder : ViewExplains(j) BY <1>3, ViewFacts
<1>9. (Potential \ Exempt)' \subseteq Counted \cup {i}
 <2> SUFFICES ASSUME NEW j \in InOrder, MayRun(j)', j \notin behind', j \notin lapsed', j # i PROVE j \in Counted
   BY DEF Potential, Exempt
 <2>1. MayRun(j) /\ ViewExplains(j) BY <1>7, <1>8
 <2>3. CASE Occupied(pass.view[j].status) BY <1>3, <2>3 DEF Counted
 <2>4. CASE pass.view[j].status = "PREPARED"
  <3>1. j \in 1..i BY <1>1, <2>1, <2>4 DEF Uncounted
  <3>2. j < i BY <1>3, <3>1
  <3> QED BY <1>1, <1>3, <2>4, <3>2 DEF Counted
 <2>5. CASE pass.view[j].status = "EXPIRED" BY <1>1, <2>1, <2>5 DEF Uncounted
 <2> QED BY <2>1, <2>3, <2>4, <2>5 DEF ViewExplains
<1>10. Cardinality(Potential \ Exempt)' <= Cap
 <2>1. IsFiniteSet(Counted) /\ pass.active = Cardinality(Counted) /\ pass.active \in Nat BY <1>1, <1>2, DispatchFacts
 <2>2. IsFiniteSet(Counted \cup {i}) /\ Cardinality(Counted \cup {i}) <= Cardinality(Counted) + 1
       /\ Cardinality(Counted \cup {i}) \in Nat
  <3>2. /\ IsFiniteSet(Counted \cup {i})
        /\ i \notin Counted => Cardinality(Counted \cup {i}) = Cardinality(Counted) + 1
    BY <2>1, FS_AddElement
  <3>4. Cardinality(Counted \cup {i}) = Cardinality(Counted) \/ Cardinality(Counted \cup {i}) = Cardinality(Counted) + 1
    BY <3>2
  <3> QED BY <3>2, FS_CardinalityType, <3>4, <2>1
 <2> QED BY <1>2, <2>1, <2>2, <1>9, FS_Subset, FS_CardinalityType, BatchAssumption
<1>11. PassExplains'
 <2>1. Viewed' = Viewed /\ Counted' = Counted /\ View' = View BY <1>1, <1>4 DEF Viewed, Counted, View
 <2>2. \A j \in Viewed' : ViewExplains(j)'
  <3> SUFFICES ASSUME NEW j \in InOrder PROVE ViewExplains(j)' BY <1>3, <2>1
  <3>1. ViewExplains(j) BY <1>8
  <3>2. CASE j = i BY <1>1, <1>2, <1>3, <1>4, <3>1, <3>2 DEF ViewExplains
  <3>3. CASE j # i BY <1>1, <1>4, <1>7, <3>1, <3>3 DEF ViewExplains
  <3> QED BY <3>2, <3>3
 <2> QED BY <1>1, <1>2, <1>3, <1>4, <2>1, <2>2, DispatchFacts DEF PassExplains
<1>12. \A j \in InOrder : ClaimIsMade(j)' BY <1>1, BatchFacts DEF ClaimIsMade
<1>13. sending' \subseteq claims BY <1>1, <1>2, BatchFacts
<1> QED BY <1>1, <1>4, <1>10, <1>11, <1>12, <1>13 DEF BatchInv, BatchTypeOK

LEMMA BatchSteps == BatchInv /\ [BatchNext]_batchVars => BatchInv'
<1> SUFFICES ASSUME BatchInv, [BatchNext]_batchVars PROVE BatchInv' OBVIOUS
<1>1. CASE UNCHANGED batchVars
 <2> QED BY <1>1, RequestMoves DEF batchVars
<1>2. ASSUME NEW i \in InOrder, ChildStep(i) PROVE BatchInv' BY <1>2, ChildStepsKeep
<1> QED BY <1>1, <1>2, PassBegins, ReadChildKeeps, BeginDispatchKeeps, PassOverKeeps, ClaimChildKeeps,
           SendChildKeeps, ChildReplyKeeps
        DEF BatchNext, ChildStep

(* For every number of Attempts, and of children and renewals of a batch:
   as long as it was not learned what became of an Attempt that was sent,
   there is no later one; a retry that ends well speaks of an Attempt that
   starts from what was chosen; and no more children of a batch are active
   than its cap, but for those of requests under way that the last pass
   came to too late or read as expired (submit.rs, batch.rs). *)
THEOREM CommandsDoOnce == ClientSpec => []ClientDoesOnce
<1> DEFINE Inv == SubmitInv /\ BatchInv
<1>1. ClientInit => Inv BY SubmitStarts, BatchStarts DEF ClientInit
<1>2. Inv /\ [ClientNext]_<<submitVars, batchVars>> => Inv'
 <2> SUFFICES ASSUME Inv, [ClientNext]_<<submitVars, batchVars>> PROVE Inv' OBVIOUS
 <2>1. [SubmitNext]_submitVars /\ [BatchNext]_batchVars BY Zenon DEF ClientNext
 <2> QED BY <2>1, SubmitSteps, BatchSteps
<1>3. Inv => ClientDoesOnce
 <2> SUFFICES ASSUME Inv PROVE ClientDoesOnce OBVIOUS
 <2>3. WithinCap
  <3> DEFINE S == AtWork \ (behind \cup lapsed)
  <3>1. S \subseteq Potential \ Exempt BY DEF Potential, Exempt, AtWork, MayRun
  <3>3. Cardinality(S) <= Cardinality(Potential \ Exempt) /\ Cardinality(S) \in Nat
    BY <3>1, ChildrenAreFinite, FS_Subset, FS_CardinalityType DEF Potential
  <3> QED BY <3>3, BatchFacts, BatchAssumption DEF WithinCap
 <2> QED BY <2>3 DEF ClientDoesOnce, SubmitInv, DoubtIsRecorded, OnRecord, Doubted, NothingBeyondADoubt
<1> QED BY <1>1, <1>2, <1>3, PTL DEF ClientSpec

------------
(* What a command shows.  The plan on every screen is the one that its
   table resolves to or the frozen one, and only what is not saved is
   posted; a request that was sent was enabled, and its outcome says what
   its reply said. *)
PlanStates == {"idle", "offers", "ask", "post", "agreed"}
Plans == {NoPlanYet} \cup {ResolvedOn(r, e) : r \in Requests, e \in UNION Tables}
Screens == [at : PlanStates, plan : Plans, saved : BOOLEAN, table : Tables \cup {{}}]
Screen(at, p, saved, table) == [at |-> at, plan |-> p, saved |-> saved, table |-> table]

ScreenExplains(t) ==
    LET s == terminal[t]
    IN  /\ s.at \in {"idle", "offers"} => s.plan = NoPlanYet /\ s.table = {} /\ ~s.saved
        /\ s.at \in {"ask", "post", "agreed"} => s.plan # NoPlanYet
        /\ s.at = "post" => ~s.saved
        /\ s.saved \/ s.at = "agreed" => s.plan = frozen
        /\ s.table # {} => s.plan \in Resolve(asked, s.table)

PlanInv ==
    /\ offered \in Tables /\ asked \in Requests /\ frozen \in Plans
    /\ terminal \in [Terminals -> Screens]
    /\ \A t \in Terminals : ScreenExplains(t)

RequestInv ==
    /\ request # NoRequest => request \in [command : Commands, target : Objects]
    /\ outcome = "none" => ~acted
    /\ outcome # "none" => request # NoRequest
    /\ outcome \notin {"none", "no request sent"} => Enabled(request.command)
    /\ outcome = "no request sent" => ~acted
    /\ acted => Mutates(request.command)
    /\ outcome = "error" => ~Mutates(request.command) \/ request.command \in Refreshing
    /\ outcome = "done" => reply.kind = "view" /\ reply.about = request.target

------------
LEMMA ResolvedIsAPlan ==
    ASSUME NEW r, NEW rows, NEW p \in Resolve(r, rows)
    PROVE  p # NoPlanYet /\ \E e \in rows : p = ResolvedOn(r, e)
<1>1. PICK e \in Choose(r, rows) : p = ResolvedOn(r, e) BY DEF Resolve
<1>3. p # NoPlanYet
 <2> QED BY <1>1 DEF ResolvedOn, NoPlanYet
<1> QED BY <1>1, <1>3 DEF Choose, Family

\* What a request resolves to: within what the executor offers, and the smallest of its family.
LEMMA ResolvedIsOffered ==
    ASSUME NEW r, NEW rows, NEW p \in Resolve(r, rows), r.gpus \in Nat, r.cpus \in Nat,
           \A e \in rows : e.gpus \in Nat /\ e.cpus \in Nat
    PROVE  /\ \E e \in rows : /\ e.id = p.executor /\ e.open
                              /\ r.gpus <= p.gpus /\ p.gpus <= e.gpus
                              /\ r.cpus <= p.cpus /\ p.cpus <= e.cpus
           /\ p.executor # r.executor => \A f \in Family(r, rows) : Holds(f, r) => p.gpus <= f.gpus
<1>1. PICK e \in Choose(r, rows) : p = ResolvedOn(r, e) /\ Within(r, e) /\ e.open BY DEF Resolve
<1>2. e \in rows /\ e.gpus \in Nat /\ e.cpus \in Nat
 <2> QED BY <1>1 DEF Choose, Family
<1>3. p.executor = e.id /\ p.gpus = Sized(r, e).gpus /\ p.cpus = Sized(r, e).cpus BY <1>1 DEF ResolvedOn
<1>4. r.gpus <= p.gpus /\ p.gpus <= e.gpus /\ (e.fixed => p.gpus = e.gpus)
 <2>1. CASE e.fixed BY <1>1, <1>2, <1>3, <2>1 DEF Sized, Within
 <2>2. CASE ~e.fixed BY <1>1, <1>2, <1>3, <2>2 DEF Sized, Within
 <2> QED BY <2>1, <2>2
<1>5. r.cpus <= p.cpus /\ p.cpus <= e.cpus
 <2>1. CASE e.fixed
  <3> QED BY <1>1, <1>2, <1>3, <2>1 DEF Within, Sized
 <2>2. CASE ~e.fixed /\ r.cpus > 0
  <3> QED BY <1>1, <1>2, <2>2, <1>3 DEF Within, Sized
 <2>3. CASE ~e.fixed /\ ~(r.cpus > 0)
  <3> QED BY <1>2, <1>3, <2>3 DEF AtMost, AtLeast, Sized
 <2> QED BY <2>1, <2>2, <2>3
<1>6. ASSUME p.executor # r.executor, NEW f \in Family(r, rows), Holds(f, r) PROVE p.gpus <= f.gpus
 <2> DEFINE fit == {x \in Family(r, rows) : Holds(x, r)}
 <2> QED BY <1>2, <1>4, <1>6, <1>1, <1>3 DEF NoLarger, Family, Choose
<1> QED BY <1>2, <1>3, <1>1, <1>4, <1>5, <1>6

------------
LEMMA ScreenMoves ==
    /\ \A s \in Screens, at \in PlanStates : [s EXCEPT !.at = at] = Screen(at, s.plan, s.saved, s.table)
    /\ \A at \in PlanStates, p \in Plans, saved \in BOOLEAN, table \in Tables \cup {{}} :
         Screen(at, p, saved, table) \in Screens
    /\ AtRest = Screen("idle", NoPlanYet, FALSE, {})
  BY DEF Screens, Screen, AtRest

\* What a terminal shows after it asked for the offers.
LEMMA ScreenShows ==
    ASSUME NEW s \in Screens, NEW p \in Plans, NEW table \in Tables \cup {{}}
    PROVE  [s EXCEPT !.at = "ask", !.plan = p, !.table = table] = Screen("ask", p, s.saved, table)
<1> DEFINE d == [s EXCEPT !.at = "ask"]
           c == [d EXCEPT !.plan = p]
           x == [c EXCEPT !.table = table]
<1>1. \A u \in Screens, q \in Plans : [u EXCEPT !.plan = q] = Screen(u.at, q, u.saved, u.table)
  BY DEF Screens, Screen
<1>2. \A u \in Screens, b \in Tables \cup {{}} : [u EXCEPT !.table = b] = Screen(u.at, u.plan, u.saved, b)
  BY DEF Screens, Screen
<1>3. d = Screen("ask", s.plan, s.saved, s.table) BY ScreenMoves DEF PlanStates
<1>4. "ask" \in PlanStates /\ s.plan \in Plans /\ s.saved \in BOOLEAN /\ s.table \in Tables \cup {{}}
  BY DEF Screens, PlanStates
<1>5. d \in Screens /\ d.at = "ask" /\ d.saved = s.saved /\ d.table = s.table
  BY <1>3, <1>4, ScreenMoves DEF Screen
<1>6. x = [s EXCEPT !.at = "ask", !.plan = p, !.table = table] BY Zenon
<1> HIDE DEF d
<1>7. c = Screen("ask", p, s.saved, s.table) BY <1>1, <1>5, Zenon
<1>8. c \in Screens /\ c.at = "ask" /\ c.plan = p /\ c.saved = s.saved BY <1>4, <1>7, ScreenMoves DEF Screen
<1> HIDE DEF c
<1>9. x = Screen("ask", p, s.saved, table) BY <1>2, <1>8, Zenon
<1> QED BY <1>6, <1>9, Zenon

\* A step of one terminal that leaves what is frozen: it suffices to look at that one.
LEMMA TerminalKeeps ==
    ASSUME PlanInv, NEW t \in Terminals, NEW at \in PlanStates, NEW p \in Plans, NEW saved \in BOOLEAN,
           NEW table \in Tables \cup {{}}, UNCHANGED <<offered, asked, frozen>>,
           terminal' = [terminal EXCEPT ![t] = Screen(at, p, saved, table)],
           at \in {"idle", "offers"} => p = NoPlanYet /\ table = {} /\ ~saved,
           at \in {"ask", "post", "agreed"} => p # NoPlanYet,
           at = "post" => ~saved,
           saved \/ at = "agreed" => p = frozen,
           table # {} => p \in Resolve(asked, table)
    PROVE  PlanInv'
<1> DEFINE s == Screen(at, p, saved, table)
<1>1. s \in Screens /\ s.at = at /\ s.plan = p /\ s.saved = saved /\ s.table = table
  BY ScreenMoves DEF Screen
<1> HIDE DEF s
<1>3. terminal' \in [Terminals -> Screens] /\ terminal'[t] = s
      /\ \A u \in Terminals \ {t} : terminal'[u] = terminal[u] BY <1>1 DEF PlanInv, s
<1>4. \A u \in Terminals : ScreenExplains(u)'
 <2> SUFFICES ASSUME NEW u \in Terminals PROVE ScreenExplains(u)' OBVIOUS
 <2>1. CASE u = t BY <1>1, <1>3, <2>1 DEF ScreenExplains
 <2>2. CASE u # t
  <3> QED BY <1>3, <2>2 DEF ScreenExplains, PlanInv
 <2> QED BY <2>1, <2>2
<1> QED BY <1>3, <1>4 DEF PlanInv

LEMMA ScreenFacts ==
    ASSUME PlanInv, NEW t \in Terminals
    PROVE  /\ terminal[t] \in Screens /\ terminal[t].at \in PlanStates /\ terminal[t].plan \in Plans
           /\ terminal[t].saved \in BOOLEAN /\ terminal[t].table \in Tables \cup {{}} /\ ScreenExplains(t)
           /\ NoPlanYet \in Plans
  BY DEF PlanInv, Screens, Plans

LEMMA PlanStep == ASSUME PlanInv, [PlanNext]_planVars PROVE PlanInv'
<1>1. CASE UNCHANGED planVars BY <1>1 DEF planVars, PlanInv, ScreenExplains
<1>2. CASE OperatorChanges
 <2> QED BY <1>2 DEF PlanInv, ScreenExplains, OperatorChanges
<1>3. ASSUME NEW t \in Terminals, LookForSaved(t) PROVE PlanInv'
 <2>1. terminal[t] = AtRest /\ UNCHANGED <<offered, asked, frozen>> BY <1>3 DEF LookForSaved
 <2>2. CASE IsSaved
  <3>2. frozen \in Plans /\ frozen # NoPlanYet BY <2>2 DEF IsSaved, PlanInv
  <3> QED BY <2>1, <1>3, <2>2, <3>2, TerminalKeeps DEF LookForSaved, Screen, PlanStates
 <2>3. CASE ~IsSaved
  <3>1. terminal' = [terminal EXCEPT ![t] = Screen("offers", NoPlanYet, FALSE, {})]
   <4>1. [AtRest EXCEPT !.at = "offers"] = Screen("offers", NoPlanYet, FALSE, {})
    <5>1. AtRest \in Screens /\ AtRest.plan = NoPlanYet /\ AtRest.saved = FALSE /\ AtRest.table = {}
      BY <2>1, ScreenFacts DEF AtRest
    <5> QED BY <5>1, ScreenMoves DEF PlanStates
   <4>2. terminal' = [terminal EXCEPT ![t] = [AtRest EXCEPT !.at = "offers"]]
     BY <1>3, <2>3, Zenon DEF LookForSaved
   <4> QED BY <4>1, <4>2, Zenon
  <3>2. "offers" \in PlanStates /\ FALSE \in BOOLEAN /\ {} \in Tables \cup {{}} /\ NoPlanYet \in Plans
    BY DEF PlanStates, Plans
  <3> QED BY <2>1, <3>1, <3>2, TerminalKeeps
 <2> QED BY <2>2, <2>3
<1>4. ASSUME NEW t \in Terminals, ReadOffers(t) PROVE PlanInv'
 <2>1. PICK p \in Resolve(asked, offered) :
         terminal' = [terminal EXCEPT ![t] = [@ EXCEPT !.at = "ask", !.plan = p, !.table = offered]]
   BY <1>4 DEF ReadOffers
 <2>2. terminal[t].at = "offers" /\ UNCHANGED <<offered, asked, frozen>> BY <1>4 DEF ReadOffers
 <2>3. offered \in Tables /\ asked \in Requests BY DEF PlanInv
 <2>4. p \in Plans /\ p # NoPlanYet
  <3>1. PICK e \in offered : p = ResolvedOn(asked, e) BY ResolvedIsAPlan
  <3> QED BY <2>3, <3>1, ResolvedIsAPlan DEF Plans
 <2>5. terminal[t] \in Screens /\ terminal[t].saved = FALSE
   BY <2>2, ScreenFacts DEF ScreenExplains, Screens
 <2>6. [terminal[t] EXCEPT !.at = "ask", !.plan = p, !.table = offered] = Screen("ask", p, FALSE, offered)
  <3>1. offered \in Tables \cup {{}} BY <2>3
  <3>2. [terminal[t] EXCEPT !.at = "ask", !.plan = p, !.table = offered]
          = Screen("ask", p, terminal[t].saved, offered)
    BY <2>4, <2>5, <3>1, ScreenShows, Zenon
  <3> QED BY <2>5, <3>2, Zenon
 <2> QED BY <2>2, <2>4, <2>1, <2>6, <2>3, TerminalKeeps DEF PlanStates
<1>5. ASSUME NEW t \in Terminals, Agree(t) PROVE PlanInv'
 <2> DEFINE s == terminal[t]
            at == IF s.saved THEN "agreed" ELSE "post"
 <2>1. terminal[t].at = "ask" /\ UNCHANGED <<offered, asked, frozen>>
       /\ terminal' = [terminal EXCEPT ![t] = [s EXCEPT !.at = at]]
   BY <1>5 DEF Agree
 <2>2. at \in PlanStates BY DEF PlanStates
 <2>5. (at \in {"post", "agreed"}) /\ (at = "post" <=> ~s.saved) OBVIOUS
 <2> DEFINE p == s.plan
            saved == s.saved
            table == s.table
 <2>6. terminal' = [terminal EXCEPT ![t] = Screen(at, p, saved, table)]
   BY <2>1, <2>2, ScreenMoves, ScreenFacts
 <2>7. p # NoPlanYet /\ (saved => p = frozen) /\ (table # {} => p \in Resolve(asked, table))
       /\ p \in Plans /\ saved \in BOOLEAN /\ table \in Tables \cup {{}}
   BY <2>1, ScreenFacts DEF ScreenExplains
 <2>8. (at = "post" <=> ~saved) /\ at # "idle" /\ at # "offers" BY <2>5
 <2> HIDE DEF s, at, p, saved, table
 <2>9. (saved \/ at = "agreed") => p = frozen BY <2>5, <2>7, <2>8
 <2>10. at \in {"idle", "offers"} => p = NoPlanYet /\ table = {} /\ ~saved BY <2>8
 <2>11. at \in {"ask", "post", "agreed"} => p # NoPlanYet BY <2>7
 <2>12. at = "post" => ~saved BY <2>8
 <2>13. table # {} => p \in Resolve(asked, table) BY <2>7
 <2>14. UNCHANGED <<offered, asked, frozen>> BY <2>1
 <2>15. p \in Plans /\ saved \in BOOLEAN /\ table \in Tables \cup {{}} BY <2>7
 <2> QED BY <2>2, <2>6, <2>9, <2>10, <2>11, <2>12, <2>13, <2>14, <2>15, TerminalKeeps, Zenon
<1>6. ASSUME NEW t \in Terminals, PostPreparation(t) PROVE PlanInv'
 <2> DEFINE s == terminal[t]
 <2>1. s.at = "post" /\ UNCHANGED <<offered, asked>> /\ frozen \in {NoPlanYet, s.plan}
       /\ frozen' = (IF IsSaved THEN frozen ELSE s.plan)
       /\ terminal' = [terminal EXCEPT ![t] = [s EXCEPT !.at = "agreed"]]
   BY <1>6 DEF PostPreparation, SameRequest
 <2>2. frozen' = s.plan BY <2>1 DEF IsSaved
 <2>3. s \in Screens /\ s.plan \in Plans /\ s.plan # NoPlanYet /\ ~s.saved /\ ScreenExplains(t)
   BY <2>1, ScreenFacts DEF ScreenExplains
 <2> DEFINE w == Screen("agreed", s.plan, s.saved, s.table)
 <2>5. w \in Screens /\ w.at = "agreed" /\ w.plan = s.plan /\ w.saved = s.saved /\ w.table = s.table
   BY <2>3, ScreenMoves, ScreenFacts DEF Screen, PlanStates
 <2>6. terminal' = [terminal EXCEPT ![t] = w] BY <2>1, <2>3, ScreenMoves DEF PlanStates
 <2> HIDE DEF w
 <2>7. terminal' \in [Terminals -> Screens] /\ terminal'[t] = w
       /\ \A u \in Terminals \ {t} : terminal'[u] = terminal[u]
   BY <2>5, <2>6 DEF PlanInv
 <2>8. \A u \in Terminals : ScreenExplains(u)'
  <3> SUFFICES ASSUME NEW u \in Terminals PROVE ScreenExplains(u)' OBVIOUS
  <3>1. CASE u = t BY <2>1, <2>2, <2>3, <2>5, <2>7, <3>1 DEF ScreenExplains
  <3>2. CASE u # t
   <4>1. ScreenExplains(u) /\ terminal'[u] = terminal[u] BY <2>7, <3>2 DEF PlanInv
   <4>2. CASE frozen = s.plan BY <2>1, <2>2, <4>1, <4>2 DEF ScreenExplains
   <4>3. CASE frozen = NoPlanYet
    <5>1. ~(terminal[u].saved \/ terminal[u].at = "agreed")
     <6> QED BY <4>1, <4>3, ScreenFacts DEF ScreenExplains, PlanStates
    <5> QED BY <2>1, <4>1, <5>1 DEF ScreenExplains
   <4> QED BY <2>1, <4>2, <4>3
  <3> QED BY <3>1, <3>2
 <2> QED BY <2>7, <2>8, <2>1, <2>2, <2>3 DEF PlanInv
<1>7. ASSUME NEW t \in Terminals, Leave(t) PROVE PlanInv'
 <2>2. "idle" \in PlanStates /\ FALSE \in BOOLEAN /\ {} \in Tables \cup {{}} /\ NoPlanYet \in Plans
   BY DEF PlanStates, Plans
 <2> QED BY <1>7, ScreenMoves, <2>2, TerminalKeeps DEF Leave
<1> QED BY <1>1, <1>2, <1>3, <1>4, <1>5, <1>6, <1>7 DEF PlanNext

LEMMA RequestStep == ASSUME RequestInv, [RequestNext]_requestVars PROVE RequestInv'
<1>1. CASE UNCHANGED requestVars BY <1>1 DEF requestVars, RequestInv, Enabled
<1>2. ASSUME NEW c \in Commands, NEW t \in Objects, NEW confirmed \in Objects, PlanRequest(c, t, confirmed)
      PROVE RequestInv'
 <2> QED BY <1>2 DEF PlanRequest, RequestInv
<1>3. CASE RefuseRequest BY <1>3 DEF RefuseRequest, RequestInv
<1>4. CASE SendRequest BY <1>4 DEF SendRequest, RequestInv, Enabled
<1>5. CASE ServerActs BY <1>5 DEF ServerActs, RequestInv, Enabled
<1>6. CASE ServerReplies
 <2> QED BY <1>6 DEF RequestInv, Enabled, ServerReplies
<1>7. CASE Believe BY <1>7 DEF Believe, Valid, RequestInv, Enabled
<1>8. CASE Disbelieve \/ LoseConnection
 <2>1. outcome = "sent" /\ outcome' = NotBelieved(request.command) /\ UNCHANGED <<health, request, acted, reply>>
   BY <1>8 DEF Disbelieve, LoseConnection
 <2>3. NotBelieved(request.command) = "error" => ~Mutates(request.command) \/ request.command \in Refreshing
   BY DEF NotBelieved
 <2> QED BY <2>1, <2>3 DEF RequestInv, Enabled, NotBelieved
<1>9. CASE ReportFailure BY <1>9 DEF ReportFailure, RequestInv, Enabled
<1> QED BY <1>1, <1>2, <1>3, <1>4, <1>5, <1>6, <1>7, <1>8, <1>9 DEF RequestNext

------------
LEMMA PlanIsShown == PlanInv => AgreedIsFrozen /\ ShownIsOffered /\ SmallestIsTaken
<1> SUFFICES ASSUME PlanInv PROVE AgreedIsFrozen /\ ShownIsOffered /\ SmallestIsTaken OBVIOUS
<1>2. ASSUME NEW t \in Terminals, terminal[t].table # {}
      PROVE  /\ terminal[t].plan \in Resolve(asked, terminal[t].table)
             /\ asked.gpus \in Nat /\ asked.cpus \in Nat
             /\ \A e \in terminal[t].table : e.gpus \in Nat /\ e.cpus \in Nat
 <2> QED BY <1>2, ScreenFacts, OffersAssumption DEF ScreenExplains, PlanInv
<1>3. ShownIsOffered
 <2> SUFFICES ASSUME NEW t \in Terminals, terminal[t].table # {}
              PROVE  \E e \in terminal[t].table :
                       /\ e.id = terminal[t].plan.executor /\ e.open
                       /\ asked.gpus <= terminal[t].plan.gpus /\ terminal[t].plan.gpus <= e.gpus
                       /\ asked.cpus <= terminal[t].plan.cpus /\ terminal[t].plan.cpus <= e.cpus
   BY DEF ShownIsOffered
 <2> QED BY <1>2, ResolvedIsOffered
<1> QED BY ScreenFacts, <1>3, <1>2, ResolvedIsOffered DEF AgreedIsFrozen, ScreenExplains, SmallestIsTaken

LEMMA RequestIsTold == RequestInv => EffectIsNotDenied /\ DoneIsAbout
  BY DEF RequestInv, EffectIsNotDenied, DoneIsAbout, Enabled

(* For every offer an operator makes and every request: whoever agreed
   agreed to what was frozen, a plan is within what was offered and no
   smaller shape of its family holds it, no effect is denied, and what is
   said to be done is what was asked (submit.rs, submissions.rs). *)
THEOREM WhatIsShownIsDone == CommandSpec => []ShownIsDone
<1>1. CommandInit => PlanInv /\ RequestInv
 <2>1. PlanInit => PlanInv
  <3> SUFFICES ASSUME PlanInit PROVE PlanInv OBVIOUS
  <3>3. terminal \in [Terminals -> Screens] /\ \A t \in Terminals : terminal[t] = AtRest
    BY DEF PlanInit, AtRest, Screens, PlanStates, Plans
  <3>4. \A t \in Terminals : ScreenExplains(t) BY <3>3 DEF ScreenExplains, AtRest
  <3> QED BY <3>3, <3>4 DEF PlanInit, PlanInv, Plans
 <2> QED BY <2>1 DEF CommandInit, RequestInit, RequestInv
<1>2. PlanInv /\ RequestInv /\ [CommandNext]_<<planVars, requestVars>> => (PlanInv /\ RequestInv)'
  BY PlanStep, RequestStep DEF CommandNext
<1>3. PlanInv /\ RequestInv => ShownIsDone BY PlanIsShown, RequestIsTold DEF ShownIsDone
<1> QED BY <1>1, <1>2, <1>3, PTL DEF CommandSpec
=============================================================================

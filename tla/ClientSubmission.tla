-------------------------- MODULE ClientSubmission --------------------------
(* `ml-exp submit`, `ml-exp retry` and `ml-exp cancel` of one user for one
   Run.  A command may stop after any step, a reply may be lost, and an
   execute request may reach the server after the client gave up on it.
   The client keeps a record of the Submission it acted on last, in two
   files: the latest of the machine and the one of the Run. *)
EXTENDS Integers, FiniteSets, Sequences

CONSTANTS
    Tries,     \* bound: Attempts of the Run
    Starts     \* what a retry may start from: "start" or a checkpoint

ASSUME TriesAssumption == Tries \in Nat \ {0}

VARIABLES
    prepared,     \* the preparation of the Run is saved at the server
    tries,     \* Attempts that were authored
    status,    \* of the Submission of each Attempt
    job,       \* of each Attempt: "none", "running" or "over"
    startOf,   \* what each Attempt starts from
    posts,     \* execute requests the server has not answered yet
    command,   \* the command that runs
    latest,    \* latest.json, if it is of this Run
    own,       \* the record of the Run
    doubt,     \* sent, and what came of it is neither on the record nor reported
    forgotten, \* sent, still unsent when it was asked about again: the record starts anew
    reported   \* what a finished retry said: the Attempt and its start

submitServer == <<prepared, tries, status, job, startOf, posts>>
submitVars == <<submitServer, command, latest, own, doubt, forgotten, reported>>

NoRecord == [kept |-> FALSE, id |-> 0, unsettled |-> FALSE]
Sent(a, u) == [kept |-> TRUE, id |-> a, unsettled |-> u]
Prompt == [kind |-> "none", at |-> "idle", id |-> 0, start |-> "start", unsettled |-> FALSE,
           repeat |-> FALSE, seen |-> "none"]
AttemptsOf == 1..Tries

SubmitInit ==
    /\ prepared = FALSE /\ tries = 0
    /\ status = [a \in AttemptsOf |-> "none"] /\ job = [a \in AttemptsOf |-> "none"]
    /\ startOf = [a \in AttemptsOf |-> "start"]
    /\ posts = {} /\ command = Prompt /\ latest = NoRecord /\ own = NoRecord
    /\ doubt = {} /\ forgotten = {} /\ reported = {}

Unsent(s) == s = "PREPARED"
MayExist(s) == s \in {"EXECUTING", "RECONCILE_REQUIRED", "VERIFIED"}

------------
\* The server, by its own modules: one claim, one outcome, one job.
ServerClaims(a) ==
    /\ a \in posts /\ posts' = posts \ {a}
    /\ status' = IF Unsent(status[a]) THEN [status EXCEPT ![a] = "EXECUTING"] ELSE status
    /\ UNCHANGED <<prepared, tries, job, startOf, command, latest, own, doubt, forgotten, reported>>

ServerCalls(a) ==
    /\ status[a] = "EXECUTING"
    /\ \/ status' = [status EXCEPT ![a] = "VERIFIED"] /\ job' = [job EXCEPT ![a] = "running"]
       \/ status' = [status EXCEPT ![a] = "RECONCILE_REQUIRED"]
          /\ \E j \in {"none", "running"} : job' = [job EXCEPT ![a] = j]
    /\ UNCHANGED <<prepared, tries, startOf, posts, command, latest, own, doubt, forgotten, reported>>

ServerExpires(a) ==
    /\ Unsent(status[a]) /\ status' = [status EXCEPT ![a] = "BLOCKED"]
    /\ UNCHANGED <<prepared, tries, job, startOf, posts, command, latest, own, doubt, forgotten, reported>>

RequestIsLost(a) ==
    /\ a \in posts /\ posts' = posts \ {a}
    /\ UNCHANGED <<prepared, tries, status, job, startOf, command, latest, own, doubt, forgotten, reported>>

JobIsOver(a) ==
    /\ job[a] = "running" /\ job' = [job EXCEPT ![a] = "over"]
    /\ UNCHANGED <<prepared, tries, status, startOf, posts, command, latest, own, doubt, forgotten, reported>>

------------
\* remember writes the latest and then the record of the Run; it may stop between them.
Remember(record, next) ==
    /\ latest' = record
    /\ \/ own' = record /\ command' = next
       \/ UNCHANGED own /\ command' = Prompt

Doing(kind, at) == command.kind = kind /\ command.at = at
Go(at) == [command EXCEPT !.at = at]

\* What came of the Submission is known, on the record or to the user.
Learned == IF command.seen = "VERIFIED" THEN doubt \ {command.id} ELSE doubt

(* A command that ends well has learned what came of the Submission, and
   says so unless it is not confirmed. *)
Report ==
    /\ command.at = "watch"
    /\ doubt' = Learned
    /\ reported' = IF command.kind = "retry" /\ command.seen = "VERIFIED"
                   THEN reported \cup {<<command.id, command.start>>} ELSE reported
    /\ command' = Prompt
    /\ UNCHANGED <<submitServer, latest, own, forgotten>>

\* An error of any request, the user's refusal, a deadline, Ctrl-C.
StopCommand ==
    /\ command # Prompt /\ command' = Prompt
    /\ UNCHANGED <<submitServer, latest, own, doubt, forgotten, reported>>

\* Another Run of this machine becomes the latest.
AnotherRun ==
    /\ command = Prompt /\ latest.kept /\ latest' = NoRecord
    /\ UNCHANGED <<submitServer, command, own, doubt, forgotten, reported>>

------------
BeginSubmit ==
    /\ command = Prompt
    /\ command' = [Prompt EXCEPT !.kind = "submit", !.at = "look"]
    /\ UNCHANGED <<submitServer, latest, own, doubt, forgotten, reported>>

\* A job that exists stays reachable, and the record of a later retry stays.
Known == IF own.kept THEN own ELSE latest
FindExisting ==
    /\ Doing("submit", "look") /\ prepared /\ tries > 0 /\ MayExist(status[1])
    /\ Remember(IF Known.id > 0 THEN Known ELSE Sent(1, FALSE),
                [command EXCEPT !.at = "observe", !.id = 1, !.repeat = TRUE])
    /\ UNCHANGED <<submitServer, doubt, forgotten, reported>>

ConfirmSubmit ==
    /\ Doing("submit", "look") /\ ~(prepared /\ tries > 0 /\ MayExist(status[1]))
    /\ Remember(Sent(0, FALSE), Go("prepare"))
    /\ forgotten' = forgotten \cup doubt
    /\ UNCHANGED <<submitServer, doubt, reported>>

\* Sources are published and the preparation is posted, unless one is saved.
SavePreparation ==
    /\ Doing("submit", "prepare") /\ ~prepared /\ prepared' = TRUE
    /\ UNCHANGED <<tries, status, job, startOf, posts, command, latest, own, doubt, forgotten, reported>>

\* prepared: continue until there is a Submission.
AdvancePreparation ==
    /\ Doing("submit", "prepare") /\ prepared
    /\ IF tries > 0 THEN UNCHANGED <<tries, status>>
       ELSE tries' = 1 /\ status' = [status EXCEPT ![1] = "PREPARED"]
    /\ command' = [command EXCEPT !.at = "remember", !.id = 1]
    /\ UNCHANGED <<prepared, job, startOf, posts, latest, own, doubt, forgotten, reported>>

------------
\* From here nobody knows whether a job was started, until it is settled.
RememberBeforeSend ==
    /\ command.at = "remember"
    /\ Remember(Sent(command.id, TRUE), Go("send"))
    /\ UNCHANGED <<submitServer, doubt, forgotten, reported>>

\* dispatch: the one request that can start a job.
SendExecute ==
    /\ command.at = "send" /\ Unsent(status[command.id])
    /\ posts' = posts \cup {command.id} /\ doubt' = doubt \cup {command.id}
    /\ forgotten' = forgotten \ {command.id} /\ command' = Go("reply")
    /\ UNCHANGED <<prepared, tries, status, job, startOf, latest, own, reported>>

\* It was sent already, by a request that arrived late.
DispatchFindsIt ==
    /\ command.at = "send" /\ MayExist(status[command.id])
    /\ command' = Go("observe")
    /\ UNCHANGED <<submitServer, latest, own, doubt, forgotten, reported>>

\* The reply came, or was lost and the Submission is shown instead.
ReadReply ==
    /\ command.at = "reply" /\ MayExist(status[command.id])
    /\ command' = Go("observe")
    /\ UNCHANGED <<submitServer, latest, own, doubt, forgotten, reported>>

\* observe: what is unresolved is reconciled, and the view says what is known.
Reconciled(a) == {status[a]} \cup (IF status[a] = "RECONCILE_REQUIRED" /\ job[a] # "none" THEN {"VERIFIED"} ELSE {})
Observe ==
    /\ command.at = "observe" /\ MayExist(status[command.id])
    /\ \E s \in Reconciled(command.id) :
         /\ status' = [status EXCEPT ![command.id] = s]
         /\ command' = [command EXCEPT !.seen = s,
                            !.at = IF command.repeat /\ command.kind = "submit" THEN "watch" ELSE "settle"]
    /\ UNCHANGED <<prepared, tries, job, startOf, posts, latest, own, doubt, forgotten, reported>>

Unverified == command.seen # "VERIFIED"

\* What was just sent is recorded as settled only when it is verified.
SettleSent ==
    /\ command.at = "settle" /\ ~command.repeat
    /\ Remember(Sent(command.id, Unverified), Go("watch"))
    /\ doubt' = Learned
    /\ UNCHANGED <<submitServer, forgotten, reported>>

------------
\* retry of the latest, or of the Run by its name.
BeginRetry(record, start) ==
    /\ command = Prompt /\ record.kept /\ record.id > 0
    /\ command' = [Prompt EXCEPT !.kind = "retry", !.at = "show", !.id = record.id,
                                 !.unsettled = record.unsettled, !.start = start]
    /\ UNCHANGED <<submitServer, latest, own, doubt, forgotten, reported>>

\* Mutant: a checkpoint is taken for an Attempt that exists already.
TakesAny(s) == TRUE

\* A checkpoint applies to a new Attempt only.
MayChoose(s) == command.start = "start" \/ ~(Unsent(s) \/ command.unsettled)

\* It was prepared and not sent: that one is sent.
FinishUnsent ==
    /\ Doing("retry", "show") /\ Unsent(status[command.id]) /\ MayChoose(status[command.id])
    /\ command' = Go("remember")
    /\ UNCHANGED <<submitServer, latest, own, doubt, forgotten, reported>>

ObserveParent ==
    /\ Doing("retry", "show") /\ MayExist(status[command.id]) /\ MayChoose(status[command.id])
    /\ command' = [command EXCEPT !.at = "observe", !.repeat = TRUE]
    /\ UNCHANGED <<submitServer, latest, own, doubt, forgotten, reported>>

RefuseUnresolved ==
    /\ Doing("retry", "settle") /\ command.repeat /\ command.seen # "VERIFIED"
    /\ Remember(Sent(command.id, TRUE), Prompt)
    /\ UNCHANGED <<submitServer, doubt, forgotten, reported>>

\* Mutant: the repeat of a command that was cut off goes on to a new Attempt.
NothingUnsettled == FALSE

Unsettled == command.unsettled

\* The repeat of a command that was cut off only finds out what happened.
SettleEarlier ==
    /\ Doing("retry", "settle") /\ command.repeat /\ command.seen = "VERIFIED" /\ Unsettled
    /\ Remember(Sent(command.id, FALSE), Go("watch"))
    /\ doubt' = Learned
    /\ UNCHANGED <<submitServer, forgotten, reported>>

\* The client refuses where its own view is fresh; the server decides.
ConfirmRetry ==
    /\ Doing("retry", "settle") /\ command.repeat /\ command.seen = "VERIFIED" /\ ~Unsettled
    /\ command' = Go("author")
    /\ UNCHANGED <<submitServer, latest, own, doubt, forgotten, reported>>

\* The Retry request: the server authors the next Attempt once.
AuthorRetry ==
    /\ Doing("retry", "author") /\ command.id < Tries
    /\ IF tries = command.id
       THEN /\ job[command.id] = "over"
            /\ tries' = tries + 1 /\ startOf' = [startOf EXCEPT ![tries'] = command.start]
       ELSE startOf[command.id + 1] = command.start /\ UNCHANGED <<tries, startOf>>
    /\ command' = Go("renewed")
    /\ UNCHANGED <<prepared, status, job, posts, latest, own, doubt, forgotten, reported>>

\* Prepare: the Submission of the current Attempt, a new one or the one that is there.
PrepareRetry ==
    /\ Doing("retry", "renewed")
    /\ status' = IF status[tries] = "none" THEN [status EXCEPT ![tries] = "PREPARED"] ELSE status
    /\ command' = [command EXCEPT !.at = "remember", !.id = tries, !.repeat = FALSE]
    /\ UNCHANGED <<prepared, tries, job, startOf, posts, latest, own, doubt, forgotten, reported>>

CancelLatest ==
    /\ command = Prompt /\ latest.kept /\ latest.id > 0 /\ job[latest.id] = "running"
    /\ status[latest.id] = "VERIFIED"
    /\ job' = [job EXCEPT ![latest.id] = "over"]
    /\ UNCHANGED <<prepared, tries, status, startOf, posts, command, latest, own, doubt, forgotten, reported>>

SubmitNext ==
    \/ BeginSubmit \/ FindExisting \/ ConfirmSubmit \/ SavePreparation \/ AdvancePreparation
    \/ RememberBeforeSend \/ SendExecute \/ DispatchFindsIt \/ ReadReply \/ Observe \/ SettleSent
    \/ \E s \in Starts : BeginRetry(latest, s) \/ BeginRetry(own, s)
    \/ FinishUnsent \/ ObserveParent \/ RefuseUnresolved \/ SettleEarlier \/ ConfirmRetry
    \/ AuthorRetry \/ PrepareRetry \/ CancelLatest \/ Report \/ StopCommand \/ AnotherRun
    \/ \E a \in AttemptsOf : ServerClaims(a) \/ ServerCalls(a) \/ ServerExpires(a) \/ RequestIsLost(a)
                             \/ JobIsOver(a)

------------
(* While it was not learned what came of an Attempt that was sent, there
   is no later one: repeating a command never starts a further job by
   accident, wherever the earlier one was cut off.  One gap is named: a
   submit that asks anew, while an execute request it gave up on is still
   under way, starts its record anew as well. *)
NothingBeyondADoubt == \A a \in doubt \ forgotten : tries = a

(* A retry that ends well speaks of an Attempt with a job, which starts
   from the checkpoint the user chose: also after one that was cut off,
   and when an Attempt that starts elsewhere is there already. *)
RetriedAsChosen == \A r \in reported : job[r[1]] # "none" /\ (r[2] # "start" => startOf[r[1]] = r[2])

------------
(* `ml-exp batch`: the children of one saved batch are prepared one by one
   and dispatched by passes that keep at most Cap of them active.  A pass
   reads every child first and then goes through them in order; a claim
   file is written before the one request that can start a job.  A pass
   may stop anywhere, and its last request may go on after it stopped.
   The server reads its clock when a request arrives, and then waits for
   a lock: an Action starts although its gate expired meanwhile. *)
CONSTANTS
    Children,  \* number of experiments the batch expands to
    Renewals,  \* bound: renewals of one child
    Cap        \* --max-active of every pass

ASSUME BatchAssumption == Children \in Nat /\ Renewals \in Nat /\ Cap \in Nat \ {0}

VARIABLES
    child,     \* the current Submission of each: "none", "PREPARED", "EXPIRED" or "sent"
    work,      \* the job of each: "none", "running" or "over"
    renewed,   \* renewals of each: its Submission is <<child, renewals>>
    claims,    \* <action>.dispatch.json
    sending,   \* execute requests that have not reached the server
    held,      \* those that reached it in time, and wait for its lock
    pass,      \* the pass that holds .dispatch.lock
    behind,    \* read as ready behind the child that was dispatched last, and may run
    lapsed      \* read as expired by that pass, and may run

batchVars == <<child, work, renewed, claims, sending, held, pass, behind, lapsed>>
childVars == <<child, work, renewed, sending, held>>
NoPass == [at |-> "none"]
InOrder == 1..Children

BatchInit ==
    /\ child = [i \in InOrder |-> "none"] /\ work = [i \in InOrder |-> "none"]
    /\ renewed = [i \in InOrder |-> 0]
    /\ claims = {} /\ sending = {} /\ held = {}
    /\ pass = NoPass /\ behind = {} /\ lapsed = {}

------------
\* advance: a pass over the preparations freezes the Submissions that are ready.
PrepareChild(i) ==
    /\ child[i] = "none" /\ child' = [child EXCEPT ![i] = "PREPARED"]
    /\ UNCHANGED <<work, renewed, claims, sending, held, pass, behind, lapsed>>

(* The gate of a prepared Submission expires; a renewal is a Submission of
   its own.  A request for the old one that waits does not hinder it. *)
ChildExpires(i) ==
    /\ child[i] = "PREPARED" /\ child' = [child EXCEPT ![i] = "EXPIRED"]
    /\ UNCHANGED <<work, renewed, claims, sending, held, pass, behind, lapsed>>
RenewChild(i) ==
    /\ child[i] = "EXPIRED" /\ child' = [child EXCEPT ![i] = "PREPARED"]
    /\ renewed[i] < Renewals /\ renewed' = [renewed EXCEPT ![i] = @ + 1]
    /\ UNCHANGED <<work, claims, sending, held, pass, behind, lapsed>>

\* The clock is read: the gate of this very Submission is open.
ChildArrives(i) ==
    /\ child[i] = "PREPARED" /\ <<i, renewed[i]>> \in sending
    /\ sending' = sending \ {<<i, renewed[i]>>} /\ held' = held \cup {<<i, renewed[i]>>}
    /\ UNCHANGED <<child, work, renewed, claims, pass, behind, lapsed>>

(* Then the lock: the Submission is claimed, the current one or one that
   was renewed meanwhile.  They have one job between them. *)
ChildStarts(i) ==
    /\ \E n \in 0..Renewals :
         /\ <<i, n>> \in held /\ held' = held \ {<<i, n>>}
         /\ child' = IF n = renewed[i] THEN [child EXCEPT ![i] = "sent"] ELSE child
    /\ work' = IF work[i] = "none" THEN [work EXCEPT ![i] = "running"] ELSE work
    /\ UNCHANGED <<renewed, claims, sending, pass, behind, lapsed>>

\* The gate had expired, the server refuses for another reason, or it stops.
ChildIsRefused(i) ==
    /\ \E n \in 0..Renewals :
         /\ <<i, n>> \in sending \cup held
         /\ sending' = sending \ {<<i, n>>} /\ held' = held \ {<<i, n>>}
    /\ UNCHANGED <<child, work, renewed, claims, pass, behind, lapsed>>

ChildEnds(i) ==
    /\ work[i] = "running" /\ work' = [work EXCEPT ![i] = "over"]
    /\ UNCHANGED <<child, renewed, claims, sending, held, pass, behind, lapsed>>

------------
BeginPass ==
    /\ pass = NoPass
    /\ pass' = [at |-> "read", next |-> 1, view |-> <<>>, active |-> 0]
    /\ UNCHANGED <<childVars, claims, behind, lapsed>>

\* occupied: only exact terminal evidence releases a slot.
Occupied(view) == view \in {"running", "unknown"}

\* What the current Submission of a child shows.
Shown(i) == IF child[i] = "sent" THEN work[i] ELSE child[i]

\* status: the children are read one after the other; a failed read is UNKNOWN.
ReadChild ==
    /\ pass.at = "read" /\ pass.next <= Children
    /\ \E view \in {Shown(pass.next), "unknown"} :
         pass' = [pass EXCEPT !.next = @ + 1, !.active = @ + IF Occupied(view) THEN 1 ELSE 0,
                    !.view = Append(@, [status |-> view, id |-> <<pass.next, renewed[pass.next]>>])]
    /\ UNCHANGED <<childVars, claims, behind, lapsed>>

BeginDispatch ==
    /\ pass.at = "read" /\ pass.next > Children
    /\ pass' = [pass EXCEPT !.at = "dispatch", !.next = 1]
    /\ UNCHANGED <<childVars, claims, behind, lapsed>>

Reached == pass.at = "dispatch" /\ pass.next <= Children /\ pass.active < Cap
View == pass.view[pass.next]
Advance(active) == [pass EXCEPT !.next = @ + 1, !.active = active]

\* Not PREPARED, or REPREPARE: an expired one takes no slot.
PassOver ==
    /\ Reached /\ View.status # "PREPARED"
    /\ pass' = Advance(pass.active)
    /\ UNCHANGED <<childVars, claims, behind, lapsed>>

\* Mutant: a claim that did not start yet takes no slot.
ClaimedCount == 0

AlreadyCount == 1

\* A request was made for it: it may still start.
AlreadyRequested ==
    /\ Reached /\ View.status = "PREPARED" /\ View.id \in claims
    /\ pass' = Advance(pass.active + AlreadyCount)
    /\ UNCHANGED <<childVars, claims, behind, lapsed>>

ClaimChild ==
    /\ Reached /\ View.status = "PREPARED" /\ View.id \notin claims
    /\ claims' = claims \cup {View.id}
    /\ pass' = [pass EXCEPT !.at = "send"]
    /\ UNCHANGED <<childVars, behind, lapsed>>

\* Its job runs, or a request for it is under way.
MayRun(i) == work[i] = "running" \/ (work[i] = "none" /\ \E n \in 0..Renewals : <<i, n>> \in sending \cup held)
Uncounted(view) == {i \in InOrder : pass.view[i].status = view /\ MayRun(i)}

SendChild ==
    /\ pass.at = "send"
    /\ sending' = sending \cup {View.id}
    /\ pass' = [pass EXCEPT !.at = "reply"]
    /\ behind' = Uncounted("PREPARED") \ 1..pass.next
    /\ lapsed' = Uncounted("EXPIRED")
    /\ UNCHANGED <<child, work, renewed, claims, held>>

ChildReply ==
    /\ pass.at = "reply" /\ View.id \notin sending \cup held /\ work[pass.next] # "none"
    /\ pass' = [Advance(pass.active + 1) EXCEPT !.at = "dispatch"]
    /\ UNCHANGED <<childVars, claims, behind, lapsed>>

\* The pass is over, an error or a lost reply ends it, or it is killed.
EndPass ==
    /\ pass # NoPass /\ pass' = NoPass
    /\ UNCHANGED <<childVars, claims, behind, lapsed>>

BatchNext ==
    \/ BeginPass \/ ReadChild \/ BeginDispatch \/ PassOver \/ AlreadyRequested \/ ClaimChild
    \/ SendChild \/ ChildReply \/ EndPass
    \/ \E i \in InOrder : PrepareChild(i) \/ ChildExpires(i) \/ RenewChild(i) \/ ChildArrives(i)
                          \/ ChildStarts(i) \/ ChildIsRefused(i) \/ ChildEnds(i)

------------
(* At most Cap children are active, whatever passes stopped, which reads
   failed and when a request arrived.  Two gaps are named, both of a
   request that a stopped pass left under way.  Its child is counted only
   when the pass reaches it, and an earlier one that has become ready is
   reached first; and once its gate has expired it is not counted. *)
AtWork == {i \in InOrder : work[i] = "running"}
WithinCap == Cardinality(AtWork \ (behind \cup lapsed)) <= Cap

(* The second gap.  "The cap covers this saved batch": an expired gate
   frees the slot of a child "because an Action still PREPARED past its
   gate cannot start" (batch.rs).  It can: its request waits for a lock. *)
ExpiredTakesNoSlot == Cardinality(AtWork \ behind) <= Cap

------------
(* The commands of a Run and those of a batch share no state. *)
ClientInit == SubmitInit /\ BatchInit
ClientNext == (SubmitNext /\ UNCHANGED batchVars) \/ (BatchNext /\ UNCHANGED submitVars)
ClientSpec == ClientInit /\ [][ClientNext]_<<submitVars, batchVars>>

(* The client asks for nothing new while an effect it asked for is in
   doubt, retries what the user chose, and keeps a batch within its cap
   (submit.rs, batch.rs). *)
ClientDoesOnce == NothingBeyondADoubt /\ RetriedAsChosen /\ WithinCap
=============================================================================

-------------------------- MODULE CloudSubmission --------------------------
(* The cloud service over its outbox: requests that renew, execute,
   reconcile, refresh and cancel the submission of one Attempt, and the
   observer that refreshes it.  They wait for one service lock, which a
   refresh gives up before it asks the provider.  An original Action and
   its renewals share one job and so one outbox entry. *)
EXTENDS CloudOutbox

CONSTANTS
    Actions,  \* Actions of the Attempt: the prepared one and its renewals
    Observer, \* the caller that is the observer thread, if there is one
    Commands  \* the requests this instance offers

ASSUME CloudAssumption ==
    /\ None \notin Actions
    /\ Commands \subseteq {"Renew", "Execute", "Reconcile", "Refresh", "Cancel"}

VARIABLES
    status,    \* the execution status of each Action
    result,    \* the job recorded in its result
    expired,   \* Actions whose gate has expired
    slot,      \* the Action of the Attempt's preparation slot
    origin,    \* the Action a replacement renews
    successor, \* renewal-next links
    lock,      \* the holder of .cloud-runs.lock
    thread     \* what each caller is doing

saved == <<status, result, slot, origin, successor>>
serviceVars == <<saved, expired, lock, thread>>
vars == <<outboxVars, serviceVars>>

Statuses == {"NONE", "PREPARED", "EXECUTING", "RECONCILE_REQUIRED", "VERIFIED"}
AllCommands == {"Renew", "Execute", "Reconcile", "Refresh", "Cancel"}
NoThread == [step |-> "idle", command |-> "Refresh", action |-> None,
             late |-> FALSE, other |-> None]

\* One Action is prepared; nothing of it has been executed.
Init ==
    /\ OutboxInit
    /\ \E a \in Actions :
         /\ slot = a
         /\ status = [b \in Actions |-> IF b = a THEN "PREPARED" ELSE "NONE"]
    /\ result = [a \in Actions |-> None]
    /\ expired = {}
    /\ origin = [a \in Actions |-> None]
    /\ successor = [a \in Actions |-> None]
    /\ lock = None
    /\ thread = [r \in Callers |-> NoThread]

Action(r) == thread[r].action
Serves(r, command) == thread[r].step = "arrived" /\ thread[r].command = command /\ lock = None
At(r, step) == thread[r].step = step
Enter(r, changed) == lock' = r /\ thread' = [thread EXCEPT ![r] = changed]
Enters(r, step) == Enter(r, [thread[r] EXCEPT !.step = step])
Continue(r, step) == thread' = [thread EXCEPT ![r].step = step] /\ UNCHANGED lock
Release(r) == lock' = IF lock = r THEN None ELSE lock
Leave(r) == thread' = [thread EXCEPT ![r] = NoThread] /\ Release(r)
Using(r) == op[r].step \notin {"idle", "done", "failed"}

Arrives(r, command, a) ==
    /\ thread[r] = NoThread
    /\ status[a] # "NONE"
    /\ thread' = [thread EXCEPT ![r] = [NoThread EXCEPT
                    !.step = "arrived", !.command = command, !.action = a,
                    !.late = command \in {"Renew", "Execute"} /\ a \in expired]]
    /\ UNCHANGED <<outboxVars, saved, expired, lock>>

(* A request arrives.  Its clock is read now, before any lock. *)
Arrive(r, command, a) == r # Observer /\ Arrives(r, command, a)

\* Mutant: an Action whose last observation failed is no candidate.
PollsHealthy(a) ==
    /\ Observer \in Callers
    /\ status[a] = "VERIFIED" /\ slot = a /\ ~ entry.diagnostic
    /\ ~ IsTerminal(entry.observation)
    /\ Arrives(Observer, "Refresh", a)

(* observer_candidates: the Action in the slot, once VERIFIED and as long
   as no terminal state was observed. *)
Poll(a) ==
    /\ Observer \in Callers
    /\ status[a] = "VERIFIED" /\ slot = a
    /\ ~ IsTerminal(entry.observation)
    /\ Arrives(Observer, "Refresh", a)

(* The lock is not free in time, the fence or the facts of the Run refuse,
   or the backend is disabled: nothing more is done. *)
Refuse(r) ==
    /\ thread[r].step \in {"arrived", "claim", "plan", "link", "slot"}
    /\ Leave(r)
    /\ UNCHANGED <<outboxVars, saved, expired>>

------------
(* renew: an expired Action that was never started, unless the outbox has
   an entry; a repeated request goes on with its own replacement.  The
   archives it keeps are those of the Slurm service. *)
BeginRenew(r) ==
    LET a == Action(r)
    IN /\ Serves(r, "Renew")
       /\ \E b \in Actions \ {a} :
            /\ \/ origin[b] = a
               \/ /\ status[b] = "NONE" /\ origin[b] = None
                  /\ slot = a /\ ~ entry.exists
                  /\ thread[r].late /\ status[a] = "PREPARED"
            /\ origin' = [origin EXCEPT ![b] = a]
            /\ Enter(r, [thread[r] EXCEPT !.step = "plan", !.other = b])
       /\ UNCHANGED <<outboxVars, status, result, expired, slot, successor>>

SavePlan(r) ==
    LET b == thread[r].other
    IN /\ At(r, "plan")
       /\ status' = [status EXCEPT ![b] = IF @ = "NONE" THEN "PREPARED" ELSE @]
       /\ Continue(r, "link")
       /\ UNCHANGED <<outboxVars, result, expired, slot, origin, successor>>

\* The link is immutable: another replacement than the linked one stops here.
Link(r) ==
    LET b == thread[r].other
    IN /\ At(r, "link")
       /\ IF successor[Action(r)] \in {None, b}
            THEN successor' = [successor EXCEPT ![Action(r)] = b] /\ Continue(r, "slot")
            ELSE Leave(r) /\ UNCHANGED successor
       /\ UNCHANGED <<outboxVars, status, result, expired, slot, origin>>

\* Mutant: the slot is replaced whatever it has become.
ReplacesAny(r) ==
    /\ At(r, "slot")
    /\ slot' = thread[r].other
    /\ Leave(r)
    /\ UNCHANGED <<outboxVars, status, result, expired, origin, successor>>

\* Mutant: the slot is removed before it is published again.
ClearsSlot(r) ==
    /\ At(r, "slot")
    /\ IF slot = None THEN slot' = thread[r].other /\ Leave(r)
                      ELSE slot' = None /\ Continue(r, "slot")
    /\ UNCHANGED <<outboxVars, status, result, expired, origin, successor>>

ReplaceSlot(r) ==
    /\ At(r, "slot")
    /\ slot' = IF slot = Action(r) THEN thread[r].other ELSE slot
    /\ Leave(r)
    /\ UNCHANGED <<outboxVars, status, result, expired, origin, successor>>

------------
(* execute: the outbox entry comes before the claim, so what the claim
   would refuse is refused before both. *)
BeginExecute(r) ==
    /\ Serves(r, "Execute")
    /\ status[Action(r)] = "PREPARED" => ~ thread[r].late
    /\ Enters(r, "prepare")
    /\ Call(r, "prepare")
    /\ UNCHANGED <<saved, expired>>

Prepared(r) ==
    /\ At(r, "prepare")
    /\ Return(r)
    /\ IF op[r].step = "done" THEN Continue(r, "claim") ELSE Leave(r)
    /\ UNCHANGED <<saved, expired>>

\* Mutant: whatever is not VERIFIED can be claimed.
ClaimsAgain(r) ==
    LET a == Action(r)
    IN /\ At(r, "claim")
       /\ IF status[a] # "VERIFIED"
            THEN /\ status' = [status EXCEPT ![a] = "EXECUTING"]
                 /\ Continue(r, "execute") /\ Call(r, "execute")
            ELSE Leave(r) /\ UNCHANGED <<outboxVars, status>>
       /\ UNCHANGED <<result, slot, origin, successor, expired>>

\* claim: only a PREPARED Action is executed; a VERIFIED one is answered.
Claim(r) ==
    LET a == Action(r)
    IN /\ At(r, "claim")
       /\ IF status[a] = "PREPARED"
            THEN /\ status' = [status EXCEPT ![a] = "EXECUTING"]
                 /\ Continue(r, "execute") /\ Call(r, "execute")
            ELSE Leave(r) /\ UNCHANGED <<outboxVars, status>>
       /\ UNCHANGED <<result, slot, origin, successor, expired>>

\* The entry was executed, now or before; its job is observed at once.
Executed(r) ==
    /\ At(r, "execute") /\ op[r].step = "done"
    /\ op' = [op EXCEPT ![r] = [NoOp EXCEPT !.step = "reconcile"]]
    /\ Continue(r, "reconcile")
    /\ UNCHANGED <<entry, outboxLock, provider, posts, sent, saved, expired>>

\* Mutant: reconcile does not take the service lock.
ReconcilesUnlocked(r) ==
    LET a == Action(r)
    IN /\ At(r, "arrived") /\ thread[r].command = "Reconcile"
       /\ status[a] \in {"EXECUTING", "RECONCILE_REQUIRED"}
       /\ status' = [status EXCEPT ![a] = "RECONCILE_REQUIRED"]
       /\ Continue(r, "reconcile") /\ Call(r, "reconcile")
       /\ UNCHANGED <<result, slot, origin, successor, expired>>

(* reconcile: whoever claimed the Action is dead if the lock is free. *)
BeginReconcile(r) ==
    LET a == Action(r)
    IN /\ Serves(r, "Reconcile")
       /\ status[a] \in {"EXECUTING", "RECONCILE_REQUIRED"}
       /\ status' = [status EXCEPT ![a] = "RECONCILE_REQUIRED"]
       /\ Enters(r, "reconcile") /\ Call(r, "reconcile")
       /\ UNCHANGED <<result, slot, origin, successor, expired>>

\* The status committed before the calls whose outcome is persisted.
Claimed(r) == IF thread[r].command = "Execute" THEN "EXECUTING" ELSE "RECONCILE_REQUIRED"
Persisting(r) == thread[r].step \in {"execute", "reconcile"}

\* Owned, if the entry has a handle that was observed and the guard holds.
Resolved(r) ==
    {"RECONCILE_REQUIRED"} \cup
    {v \in {"VERIFIED"} : op[r].handle # None /\ op[r].observation # None}

\* Mutant: a handle alone makes the submission VERIFIED.
FinishesUnread(r) ==
    LET a == Action(r)
        known == IF op[r].handle # None THEN op[r].handle ELSE result[a]
    IN /\ Persisting(r) /\ Return(r)
       /\ op[r].step = "failed" \/ At(r, "reconcile")
       /\ status' = [status EXCEPT ![a] = IF op[r].handle # None THEN "VERIFIED"
                                           ELSE "RECONCILE_REQUIRED"]
       /\ result' = [result EXCEPT ![a] = known]
       /\ Leave(r)
       /\ UNCHANGED <<slot, origin, successor, expired>>

(* persist and finish: a recorded job is never exchanged, and nothing is
   committed over a status that is not the request's own. *)
Finish(r) ==
    LET a == Action(r)
        known == IF op[r].handle # None THEN op[r].handle ELSE result[a]
    IN /\ Persisting(r) /\ Return(r)
       /\ op[r].step = "failed" \/ At(r, "reconcile")
       /\ IF status[a] = Claimed(r) /\ result[a] \in {None, known}
            THEN /\ result' = [result EXCEPT ![a] = known]
                 /\ \E to \in Resolved(r) : status' = [status EXCEPT ![a] = to]
            ELSE UNCHANGED <<status, result>>
       /\ Leave(r)
       /\ UNCHANGED <<slot, origin, successor, expired>>

------------
(* refresh: the service lock covers the look at the Action only. *)
BeginRefresh(r) ==
    /\ Serves(r, "Refresh")
    /\ status[Action(r)] = "VERIFIED"
    /\ Continue(r, "refresh")
    /\ Call(r, "reconcile")
    /\ UNCHANGED <<saved, expired>>

\* Mutant: an Action whose submission is uncertain is stopped as well.
CancelsUncertain(r) ==
    /\ Serves(r, "Cancel") /\ outboxLock = None
    /\ status[Action(r)] \notin {"NONE", "PREPARED"}
    /\ Enters(r, "cancel")
    /\ Call(r, IF entry.cancelling THEN "reconcile" ELSE "stop")
    /\ UNCHANGED <<saved, expired>>

(* cancel: a cancellation that was begun is observed, not repeated. *)
BeginCancel(r) ==
    /\ Serves(r, "Cancel") /\ outboxLock = None
    /\ status[Action(r)] = "VERIFIED"
    /\ Enters(r, "cancel")
    /\ Call(r, IF entry.cancelling THEN "reconcile" ELSE "stop")
    /\ UNCHANGED <<saved, expired>>

End(r) ==
    /\ thread[r].step \in {"refresh", "cancel"}
    /\ Return(r)
    /\ Leave(r)
    /\ UNCHANGED <<saved, expired>>

------------
(* The server stops: its requests end, its locks are released, its POSTs
   may still reach the provider. *)
Crash ==
    /\ \E r \in Callers : thread[r] # NoThread
    /\ OutboxCrash
    /\ thread' = [r \in Callers |-> NoThread]
    /\ lock' = None
    /\ UNCHANGED <<saved, expired>>

Expire(a) ==
    /\ status[a] # "NONE" /\ a \notin expired
    /\ expired' = expired \cup {a}
    /\ UNCHANGED <<outboxVars, saved, lock, thread>>

Work(r) ==
    \/ Refuse(r)
    \/ BeginRenew(r) \/ SavePlan(r) \/ Link(r) \/ ReplaceSlot(r)
    \/ BeginExecute(r) \/ Prepared(r) \/ Claim(r) \/ Executed(r)
    \/ BeginReconcile(r) \/ Finish(r)
    \/ BeginRefresh(r) \/ BeginCancel(r) \/ End(r)
    \/ OutboxWork(r) /\ UNCHANGED serviceVars

Next ==
    \/ \E r \in Callers, command \in Commands, a \in Actions : Arrive(r, command, a)
    \/ \E a \in Actions : Poll(a)
    \/ \E r \in Callers : Work(r)
    \/ Crash
    \/ \E a \in Actions : Expire(a)
    \/ ProviderStep /\ UNCHANGED serviceVars

(* Of these the observer, which polls again and again, is now and then in
   time for: the locks, which nobody hands on in turn, a GET that is
   answered, and the commit of what was answered. *)
InTime == BeginRefresh(Observer)
Reads == Reconcile(Observer) /\ UNCHANGED serviceVars
IsAnswered == Observe(Observer) /\ op'[Observer].seen # None /\ UNCHANGED serviceVars
IsCommitted == op[Observer].seen # None /\ Commit(Observer) /\ UNCHANGED serviceVars

Spec == Init /\ [][Next]_vars

------------
ThreadSteps == {"idle", "arrived", "plan", "link", "slot", "prepare", "claim", "execute",
                "reconcile", "refresh", "cancel"}

(* Type invariant of the service's files, its lock and its requests; only
   a request that is being served uses the outbox. *)
TypeOK ==
    /\ OutboxTypeOK
    /\ status \in [Actions -> Statuses]
    /\ result \in [Actions -> Jobs \cup {None}]
    /\ expired \subseteq Actions
    /\ slot \in Actions
    /\ origin \in [Actions -> Actions \cup {None}]
    /\ successor \in [Actions -> Actions \cup {None}]
    /\ lock \in Callers \cup {None}
    /\ thread \in [Callers -> [step : ThreadSteps, command : AllCommands, late : BOOLEAN,
                                action : Actions \cup {None}, other : Actions \cup {None}]]
    /\ \A r \in Callers : thread[r].step \in {"idle", "arrived", "claim"} => op[r] = NoOp

(* However often an Attempt is executed, renewed and reconciled, the
   provider is asked for one job, every Action that names a job names that
   one, and no Action is VERIFIED whose job was never seen. *)
OneJobPerAttempt ==
    /\ sent.create <= 1
    /\ \A a \in Actions :
         /\ result[a] # None => result[a] = entry.handle /\ provider[result[a]] # None
         /\ status[a] = "VERIFIED" => result[a] # None /\ entry.observation # None

(* Nothing is asked of the provider for an Attempt none of whose Actions
   was claimed, and nothing is stopped that no Action owns. *)
AuthorityComesFirst ==
    /\ entry.started => \E a \in Actions : status[a] \notin {"NONE", "PREPARED"}
    /\ entry.cancelling => \E a \in Actions : status[a] = "VERIFIED"

(* The service lock tells an executor at work from a dead claimant: what
   will be persisted is persisted on top of the request's own status. *)
ClaimantIsUndisturbed ==
    \A r \in Callers : Persisting(r) => status[Action(r)] = Claimed(r)

(* A recorded job is never replaced, VERIFIED is final and a claim is
   never taken back, whichever request or server commits next. *)
KnownIsKept ==
    [][\A a \in Actions :
         /\ result[a] # None => result'[a] = result[a]
         /\ status[a] = "VERIFIED" => status'[a] = "VERIFIED"
         /\ status[a] \in {"EXECUTING", "RECONCILE_REQUIRED"} =>
              status'[a] \notin {"NONE", "PREPARED"}
         /\ status[a] = "RECONCILE_REQUIRED" => status'[a] # "EXECUTING"]_vars

(* The comment of execute: "an expired gate leaves nothing behind and
   `run renew` still replaces it". *)
ExpiredIsRenewable ==
    \A a \in Actions :
        /\ slot = a /\ status[a] = "PREPARED" /\ a \in expired
        /\ \A b \in Actions : status[b] \in {"NONE", "PREPARED"}
        /\ \A r \in Callers : thread[r] = NoThread
        => ~ entry.exists

(* Renewals move the slot forward only: "an older repeated request never
   moves the pointer back over a newer renewal", also when requests were
   cut short between the plan, the link and the slot. *)
SlotMovesForward ==
    [][slot' # slot => origin[slot'] = slot /\ successor[slot] = slot']_vars

(* What the observer is for: the end of an owned job is recorded, though
   other requests, failing GETs and restarts interfere. *)
TerminalIsObserved ==
    \A a \in Actions :
        status[a] = "VERIFIED" /\ slot = a /\ IsTerminal(provider[entry.handle])
            ~> IsTerminal(entry.observation)

(* The outbox and the Actions above it agree: the recorded job is the one
   of the Attempt, it was asked for and stopped under a claim, and no
   other request undoes the claim. *)
CloudIsSound ==
    /\ OutboxTypeOK
    /\ TypeOK
    /\ RecordIsTrue
    /\ OneJobPerAttempt
    /\ AuthorityComesFirst
    /\ ClaimantIsUndisturbed

(* What is known of a cloud job is kept, and the slot of the Attempt moves
   to a renewal only, never back. *)
CloudOnlyAdvances == KnownIsKept /\ SlotMovesForward
=============================================================================

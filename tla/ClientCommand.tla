--------------------------- MODULE ClientCommand ----------------------------
(* What a submitted job will run on and spend.  `--executor` names one
   executor or a family of fixed shapes, and the request is resolved
   against the executors as they are when the command asks for them.  The
   first preparation that reaches the server freezes the answer; commands
   given later, or at another terminal, with the same inputs are about the
   same job.  Memory is sized like the CPUs and left out. *)
EXTENDS Integers, FiniteSets

CONSTANTS
    Tables,     \* what the operator may offer: sets of executors
    Requests,   \* what may be asked for
    Terminals

\* Sizes are counts.
ASSUME OffersAssumption ==
    /\ \A rows \in Tables : \A e \in rows : e.gpus \in Nat /\ e.cpus \in Nat
    /\ \A r \in Requests : r.gpus \in Nat /\ r.cpus \in Nat

VARIABLES
    offered,    \* the executors of today
    asked,      \* the request of every command of this job
    frozen,     \* what the saved preparation fixed
    terminal    \* the command at each terminal

planVars == <<offered, asked, frozen, terminal>>

NoPlanYet == [executor |-> "none"]
AtRest == [at |-> "idle", plan |-> NoPlanYet, saved |-> FALSE, table |-> {}]
Unlimited == 99

PlanInit ==
    /\ offered \in Tables /\ asked \in Requests
    /\ frozen = NoPlanYet /\ terminal = [t \in Terminals |-> AtRest]

------------
AtMost(a, b) == IF a < b THEN a ELSE b
AtLeast(a, b) == IF a < b THEN b ELSE a

Family(r, rows) == {e \in rows : e.family = r.executor /\ e.fixed /\ e.open}
Holds(e, r) == r.gpus <= e.gpus /\ r.cpus <= e.cpus

\* Mutant: the sizes are compared in the other order.
ByCpus(e, f) == e.cpus < f.cpus \/ (e.cpus = f.cpus /\ e.gpus <= f.gpus)

NoLarger(e, f) == e.gpus < f.gpus \/ (e.gpus = f.gpus /\ e.cpus <= f.cpus)

\* choose: the executor of that name, or the smallest shape that holds the request.
Choose(r, rows) ==
    IF \E e \in rows : e.id = r.executor THEN {e \in rows : e.id = r.executor}
    ELSE LET fit == {e \in Family(r, rows) : Holds(e, r)}
         IN {e \in fit : \A f \in fit : NoLarger(e, f)}

\* Sized from the GPUs, unless given; a fixed shape runs whole.
Sized(r, e) ==
    IF e.fixed THEN [gpus |-> e.gpus, cpus |-> e.cpus]
    ELSE [gpus |-> r.gpus,
          cpus |-> IF r.cpus > 0 THEN r.cpus ELSE AtMost(AtLeast(8 * r.gpus, 2), e.cpus)]

\* Mutant: the limit on CPUs is not looked at.
WithinGpus(r, e) == r.gpus <= e.gpus

\* resources: refused beyond the limits, and where GPUs would be paid for and not used.
Within(r, e) ==
    /\ r.gpus <= e.gpus
    /\ (r.cpus > 0 => r.cpus <= e.cpus)
    /\ (e.fixed /\ e.gpus > 0 => r.gpus > 0)

\* A new job may use idle resources where it has GPUs and the provider has a choice.
Allocation(r, e, gpus) ==
    CASE e.kind # "pai" -> "none"
      [] r.allocation # "default" -> r.allocation
      [] OTHER -> IF gpus > 0 THEN "allow_idle" ELSE "guaranteed"

ResolvedOn(r, e) ==
    [executor |-> e.id, gpus |-> Sized(r, e).gpus, cpus |-> Sized(r, e).cpus,
     allocation |-> Allocation(r, e, Sized(r, e).gpus)]

\* resolve: nothing is asked of an executor that refuses the request.
Resolve(r, rows) ==
    {ResolvedOn(r, e) : e \in {x \in Choose(r, rows) :
        /\ Within(r, x) /\ x.open
        /\ (x.kind = "slurm" => Sized(r, x).gpus > 0 /\ r.allocation = "default")}}

------------
OperatorChanges ==
    /\ \E rows \in Tables \ {offered} : offered' = rows
    /\ UNCHANGED <<asked, frozen, terminal>>

IsSaved == frozen # NoPlanYet

\* A saved preparation is shown as it was frozen, whatever is offered today.
LookForSaved(t) ==
    /\ terminal[t] = AtRest
    /\ terminal' = [terminal EXCEPT ![t] = IF IsSaved
                      THEN [at |-> "ask", plan |-> frozen, saved |-> TRUE, table |-> {}]
                      ELSE [AtRest EXCEPT !.at = "offers"]]
    /\ UNCHANGED <<offered, asked, frozen>>

ReadOffers(t) ==
    /\ terminal[t].at = "offers"
    /\ \E p \in Resolve(asked, offered) :
         terminal' = [terminal EXCEPT ![t] = [@ EXCEPT !.at = "ask", !.plan = p, !.table = offered]]
    /\ UNCHANGED <<offered, asked, frozen>>

\* The user agrees to what is shown.
Agree(t) ==
    /\ terminal[t].at = "ask"
    /\ terminal' = [terminal EXCEPT ![t].at = IF terminal[t].saved THEN "agreed" ELSE "post"]
    /\ UNCHANGED <<offered, asked, frozen>>

\* Mutant: the second request of one identity is taken for the first.
AnyRequest(p) == TRUE

SameRequest(p) == frozen \in {NoPlanYet, p}

\* The request carries what was shown; the server has one per identity.
PostPreparation(t) ==
    /\ terminal[t].at = "post" /\ SameRequest(terminal[t].plan)
    /\ frozen' = IF IsSaved THEN frozen ELSE terminal[t].plan
    /\ terminal' = [terminal EXCEPT ![t].at = "agreed"]
    /\ UNCHANGED <<offered, asked>>

\* A refusal, a lost reply or the user ends the command.
Leave(t) ==
    /\ terminal[t] # AtRest /\ terminal' = [terminal EXCEPT ![t] = AtRest]
    /\ UNCHANGED <<offered, asked, frozen>>

PlanNext ==
    \/ OperatorChanges
    \/ \E t \in Terminals : LookForSaved(t) \/ ReadOffers(t) \/ Agree(t) \/ PostPreparation(t) \/ Leave(t)

------------
(* Whoever agreed, at whatever terminal and however the executors changed
   meanwhile, agreed to what the job was frozen with. *)
AgreedIsFrozen == \A t \in Terminals : terminal[t].at = "agreed" => terminal[t].plan = frozen

(* What is shown gives the job at least what was asked for and at most
   what its executor offered when it was asked. *)
ShownIsOffered ==
    \A t \in Terminals :
      LET p == terminal[t].plan
      IN terminal[t].at # "idle" /\ terminal[t].table # {} =>
           \E e \in terminal[t].table :
             /\ e.id = p.executor /\ e.open
             /\ asked.gpus <= p.gpus /\ p.gpus <= e.gpus
             /\ asked.cpus <= p.cpus /\ p.cpus <= e.cpus

(* Of a family, no shape with fewer GPUs that was offered would have held
   the request: nobody pays for GPUs he did not need to ask for. *)
SmallestIsTaken ==
    \A t \in Terminals :
      LET p == terminal[t].plan
      IN terminal[t].at # "idle" /\ terminal[t].table # {} /\ p.executor # asked.executor =>
           \A f \in Family(asked, terminal[t].table) : Holds(f, asked) => p.gpus <= f.gpus

------------
(* One command of `ml-exp run`: it is planned and checked against what the
   server says of itself, sent once, and its reply is validated before it
   is believed.  A reply may be lost, cut short or be about something
   else; the server may have acted all the same. *)
CONSTANTS Objects   \* Submissions, Runs and requests a command can name

VARIABLES
    health,     \* the capabilities the server lists, and whether it may change the scheduler
    request,    \* the command that runs
    acted,      \* the server did what the request asks for
    reply,      \* what came back
    outcome     \* what the command says

requestVars == <<health, request, acted, reply, outcome>>

Reads == {"show", "existing", "tracking", "discovery", "sync_status", "checkpoints"}
Refreshing == {"history", "refresh", "checkpoint"}
Executing == {"execute", "cancel", "sync", "sync_retry", "diagnostic"}
Authoring == {"create", "prepare", "retry", "renew", "reconcile"}
Commands == Reads \cup Refreshing \cup Executing \cup Authoring

NoRequest == [command |-> "none"]
NoReply == [kind |-> "none"]

RequestInit ==
    /\ health \in [lists : {{"submissions"}, {"submissions", "retry", "sync", "observation", "creation"}},
                   mutations : BOOLEAN]
    /\ request = NoRequest /\ acted = FALSE /\ reply = NoReply /\ outcome = "none"

Mutates(c) == c \notin Reads

------------
Capability(c) ==
    CASE c \in {"sync", "sync_retry", "sync_status", "diagnostic"} -> "sync"
      [] c = "retry" -> "retry"
      [] c = "create" -> "creation"
      [] c \in {"history", "refresh", "checkpoint", "checkpoints"} -> "observation"
      [] OTHER -> "submissions"

\* plan: the identity in the confirmation is the one in the path.
PlanRequest(c, t, confirmed) ==
    /\ request = NoRequest
    /\ c \in {"execute", "cancel", "sync"} => confirmed = t
    /\ request' = [command |-> c, target |-> t]
    /\ UNCHANGED <<health, acted, reply, outcome>>

Enabled(c) == Capability(c) \in health.lists /\ (c \in Executing => health.mutations)

RefuseRequest ==
    /\ request # NoRequest /\ outcome = "none" /\ ~Enabled(request.command)
    /\ outcome' = "no request sent"
    /\ UNCHANGED <<health, request, acted, reply>>

SendRequest ==
    /\ request # NoRequest /\ outcome = "none" /\ Enabled(request.command)
    /\ outcome' = "sent"
    /\ UNCHANGED <<health, request, acted, reply>>

\* The server: its effect, then a reply, a failure, or nothing.
ServerActs ==
    /\ outcome = "sent" /\ reply = NoReply /\ ~acted /\ Mutates(request.command)
    /\ acted' = TRUE
    /\ UNCHANGED <<health, request, reply, outcome>>

\* A server that may not change the scheduler refuses what would.
ServerReplies ==
    /\ outcome = "sent" /\ reply = NoReply
    /\ \/ \E about \in Objects, moved \in BOOLEAN :
            reply' = [kind |-> "view", about |-> about, moved |-> moved]
       \/ reply' \in [kind : {"failure", "garbled"}]
    /\ UNCHANGED <<health, request, acted, outcome>>

------------
\* Mutant: a view of another object is believed.
AnyView == reply.kind = "view"

\* response: the view is of what was asked for, and nothing else was done.
Valid ==
    /\ reply.kind = "view" /\ reply.about = request.target
    /\ request.command \in {"history", "checkpoint", "create", "retry", "renew"} => ~reply.moved

\* Mutant: a reply that cannot be read is an ordinary error.
PlainError(c) == "error"

\* execute: what may have happened is said to be unknown.
NotBelieved(c) ==
    CASE Mutates(c) /\ c \notin Refreshing /\ c = "create" -> "creation unknown"
      [] Mutates(c) /\ c \notin Refreshing /\ c # "create" -> "outcome unknown"
      [] OTHER -> "error"

Believe ==
    /\ outcome = "sent" /\ reply.kind = "view" /\ Valid
    /\ outcome' = "done"
    /\ UNCHANGED <<health, request, acted, reply>>

Disbelieve ==
    /\ outcome = "sent" /\ reply.kind \in {"view", "garbled"} /\ ~Valid
    /\ outcome' = NotBelieved(request.command)
    /\ UNCHANGED <<health, request, acted, reply>>

\* A failure is passed on with the server's own code for what is uncertain.
ReportFailure ==
    /\ outcome = "sent" /\ reply.kind = "failure"
    /\ outcome' = "server's failure"
    /\ UNCHANGED <<health, request, acted, reply>>

\* The connection breaks, before or after the server acted; nothing is sent again.
LoseConnection ==
    /\ outcome = "sent" /\ reply = NoReply
    /\ outcome' = NotBelieved(request.command)
    /\ UNCHANGED <<health, request, acted, reply>>

RequestNext ==
    \/ \E c \in Commands, t \in Objects, confirmed \in Objects : PlanRequest(c, t, confirmed)
    \/ RefuseRequest \/ SendRequest \/ ServerActs \/ ServerReplies
    \/ Believe \/ Disbelieve \/ ReportFailure \/ LoseConnection

------------
(* What the server may have done is never denied: a command that authors,
   executes or cancels ends as done, as the server's own failure or as
   unknown, and "no request sent" means just that. *)
EffectIsNotDenied ==
    acted /\ request.command \notin Refreshing => outcome \notin {"error", "no request sent"}

(* A command is done only when the server spoke of what it was about, and
   one that changes the scheduler reached a server that may change it. *)
DoneIsAbout ==
    outcome = "done" => /\ reply.about = request.target
                        /\ request.command \in Executing => health.mutations

------------
(* What is submitted and what a command says share nothing. *)
CommandInit == PlanInit /\ RequestInit
CommandNext ==
    \/ PlanNext /\ UNCHANGED requestVars
    \/ RequestNext /\ UNCHANGED planVars
CommandSpec == CommandInit /\ [][CommandNext]_<<planVars, requestVars>>

(* What the client shows is what it asks for and what became of it: the
   agreed executor and no other is frozen, and an effect that may have
   happened is not denied. *)
ShownIsDone == AgreedIsFrozen /\ ShownIsOffered /\ SmallestIsTaken /\ EffectIsNotDenied /\ DoneIsAbout
=============================================================================

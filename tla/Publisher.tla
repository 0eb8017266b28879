----------------------------- MODULE Publisher -----------------------------
(* The W&B publisher: one thread that visits the scope again and again,
   under the publisher lock and a shared deletion guard.  A visit reads
   the row and the saved state, asks the SDK what W&B shows, and plans:
   rows are reserved durably, then sent, and confirmed only by what W&B
   shows later.  A rebuild may commit between any two steps of a visit.

   W&B and the SDK child are external: sent items sit in the child, which
   delivers them in order; what a killed child held may still arrive, or
   be lost, until the settle delay has passed. *)
EXTENDS RecordsJournal

CONSTANTS Window,      \* rows one visit reads
          MaxRuns,     \* rebuilds in a behaviour
          MaxFailures, \* failed calls, restarts and deletions in a behaviour
          Deletes,     \* a person deletes a W&B Run
          Overtaken,   \* a rebuild may commit while a visit reads the scope
          Late         \* a collector brings what a Worker left after its end

ASSUME PublisherAssumption ==
    /\ Window \in Nat \ {0} /\ MaxRuns \in Nat /\ MaxFailures \in Nat
    /\ {Deletes, Overtaken, Late} \subseteq BOOLEAN

VARIABLES
    visit,    \* the visit in progress
    session,  \* what the thread knows while it runs
    wandb,    \* the W&B Runs
    child,    \* the items the SDK child holds, in order
    loose,    \* the items of children that were killed or closed
    failures

publisherVars == <<visit, session, wandb, child, loose, failures>>

Resting == [at |-> "rest"]
NoPlan == [confirmed |-> 0, sent |-> {}, emits |-> {}, displays |-> FALSE, finishes |-> FALSE, acked |-> FALSE]
NewVisit == [at |-> "saved", w |-> 0, confirmed |-> 0, total |-> 0, ended |-> FALSE, through |-> 0, list |-> {},
             saved |-> NoSaved, drained |-> FALSE, seen |-> {}, display |-> -1, state |-> "none", settled |-> FALSE,
             plan |-> NoPlan, repaired |-> FALSE]
NoWatch == <<{}, -2>>
NewSession == [held |-> FALSE, watch |-> NoWatch, under |-> {}, idle |-> -1, bound |-> -1]
NoRun == [rows |-> <<>>, display |-> -1, state |-> "none"]

PublisherInit ==
    /\ visit = Resting /\ session = NewSession
    /\ wandb = [w \in 0..MaxRuns |-> NoRun]
    /\ child = <<>> /\ loose = {} /\ failures = 0

Shows(w) == {r.n : r \in ToSet(wandb[w].rows)}
Highest(S, n) == CHOOSE m \in S \cup {n} : \A k \in S \cup {n} : k <= m
Item(v, kind, n) == [w |-> v.w, kind |-> kind, n |-> n, list |-> v.list]
\* The rows of S in their order.
RowFrames(v, S) ==
    LET frames[n \in 0..Highest(S, 0)] ==
            IF n = 0 THEN <<>>
            ELSE IF n \in S THEN Append(frames[n - 1], Item(v, "row", n)) ELSE frames[n - 1]
    IN  frames[Highest(S, 0)]

Fails == failures < MaxFailures /\ failures' = failures + 1
Quiet == UNCHANGED <<wandb, child, loose, failures>>
NoStore == UNCHANGED journalVars

\* stable_for: a delay counted from the first sight of the evidence is longer
\* than what was under way then can take.
Settled == session.under \cap loose = {}

\* Mutant: what was seen before the kill still counts after it.
LostUnseen == /\ session' = [session EXCEPT !.held = FALSE]
              /\ loose' = loose \cup ToSet(child) /\ child' = <<>>

\* Session::lost: a killed child may still deliver what it held.
Lost == /\ session' = [session EXCEPT !.held = FALSE, !.watch = NoWatch, !.under = {}]
        /\ loose' = loose \cup ToSet(child) /\ child' = <<>>
\* Session::abandon: the child closes the W&B Run, which flushes what it holds.
Abandon == Lost
Forget == session' = [session EXCEPT !.watch = NoWatch, !.under = {}]

------------
(* publish_ended: the row and the total are read first.  A scope that is
   idle is left at once, unless its Attempt has ended. *)
VisitRow ==
    /\ visit = Resting /\ Bound /\ binding.enabled
    /\ LET s == IF session.bound = scopeRow.wandb THEN session
                ELSE [NewSession EXCEPT !.bound = scopeRow.wandb]
       IN /\ session' = s
          /\ providerEnded \/ s.idle # Total
    /\ visit' = [NewVisit EXCEPT !.w = scopeRow.wandb, !.confirmed = scopeRow.confirmed,
                                 !.total = Total, !.ended = providerEnded]
    /\ NoStore /\ Quiet

\* The events after the cursor, and the reservations that still matter.
Reading(v, s) ==
    LET sent == {n \in s.sent : n > v.confirmed}
        most == Highest({Window, Highest(sent, v.confirmed) - v.confirmed}, 0)
        through == IF v.confirmed + most < Total THEN v.confirmed + most ELSE Total
    IN [v EXCEPT !.at = "observe", !.through = through, !.list = Excluded,
                 !.saved = [s EXCEPT !.confirmed = v.confirmed, !.sent = sent],
                 !.drained = through = v.total /\ Ended]

VisitSaved ==
    /\ visit.at = "saved"
    /\ \/ /\ saved.missing
          /\ session' = [session EXCEPT !.idle = visit.total] /\ visit' = Resting
       \/ /\ ~saved.missing /\ saved.remoteFinished
          /\ visit' = [visit EXCEPT !.at = "derived", !.saved = saved] /\ UNCHANGED session
       \/ /\ ~saved.missing /\ ~saved.remoteFinished
          /\ IF saved.confirmed > visit.confirmed
               THEN visit' = Resting /\ Forget
               ELSE visit' = Reading(visit, saved) /\ UNCHANGED session
    /\ NoStore /\ Quiet

\* A finished W&B Run is resumed only for derived rows added after its end.
VisitFinished ==
    /\ visit.at = "derived"
    /\ IF DerivedAfter(visit.confirmed) /\ visit.saved.confirmed <= visit.confirmed
         THEN visit' = Reading(visit, [visit.saved EXCEPT !.remoteFinished = FALSE,
                                                            !.finishRequested = FALSE])
         ELSE visit' = Resting
    /\ NoStore /\ Quiet /\ UNCHANGED session

------------
(* The SDK reads W&B.  A Run this scope has opened before is never
   created again: without it the scope stops. *)
Must(v) == v.saved.everOpened \/ v.confirmed > 0 \/ v.saved.sent # {}
\* Mutant: a W&B Run that is gone is created again.
AlwaysCreates(v) == TRUE

MayCreate(v) == ~Must(v)

Gone(w) == wandb[w].state \in {"none", "deleted"}
Observe ==
    /\ visit.at = "observe"
    /\ \/ /\ Gone(visit.w) => MayCreate(visit)
          /\ LET run == IF Gone(visit.w) THEN [NoRun EXCEPT !.state = "running"] ELSE wandb[visit.w]
             IN /\ wandb' = [wandb EXCEPT ![visit.w] = run]
                /\ visit' = [visit EXCEPT !.at = "plan", !.seen = {r.n : r \in ToSet(run.rows)},
                                          !.display = run.display, !.state = run.state, !.settled = Settled]
          /\ NoStore /\ UNCHANGED <<session, child, loose, failures>>
       \/ /\ Gone(visit.w) /\ ~MayCreate(visit)
          /\ SavePublication([visit.saved EXCEPT !.missing = TRUE], FALSE)
          /\ session' = [session EXCEPT !.watch = NoWatch, !.under = {}, !.idle = visit.total]
          /\ visit' = Resting
          /\ UNCHANGED <<journal, eventIds, binding, scopeRow, providerEnded, deleted>> /\ Quiet

\* A call of the SDK fails: the pipe survives it, or the child is killed.
CallFails ==
    /\ visit.at = "observe"
    /\ \/ Forget /\ UNCHANGED <<child, loose>>
       \/ Lost
    /\ visit' = Resting /\ Fails /\ NoStore /\ UNCHANGED wandb

(* publication::plan.  A row at or before the last one W&B shows, that it
   does not show, is a hole: nothing is confirmed and nothing is sent.
   Nothing is sent past a reservation W&B does not show. *)
Hole(v) ==
    \/ v.confirmed > 0 /\ v.confirmed \notin v.seen
    \/ \E n \in v.confirmed + 1..v.through : n \notin v.seen /\ n <= Highest(v.seen, v.confirmed)
Shown(v) == Highest({n \in v.seen : n <= v.through}, v.confirmed)
Reserved(v) == {n \in v.saved.sent : n \notin v.seen}
Emits(v) == IF Hole(v) THEN {}
            ELSE {n \in Shown(v) + 1..v.through : \A k \in Shown(v) + 1..n : k \notin v.saved.sent}

\* Mutant: what is reserved is sent again by the next visit.
EmitsAgain(v) == IF Hole(v) THEN {} ELSE Shown(v) + 1..v.through

AllShown(v) == ~Hole(v) /\ Shown(v) = v.through

\* Only the end of the journal can be terminal.
Terminal(v) == (v.drained \/ v.ended) /\ v.through = v.total

\* Mutant: the finish is sent with the last rows.
FinishesUnshown(v) == Terminal(v)
Finishes(v) == AllShown(v) /\ v.display = Shown(v) /\ Terminal(v)

Planned(v) ==
    LET open == v.saved
        at == Shown(v)
    IN [confirmed |-> IF Hole(v) THEN v.confirmed ELSE at,
        sent |-> IF Hole(v) THEN open.sent ELSE Reserved(v) \cup Emits(v),
        emits |-> Emits(v),
        displays |-> AllShown(v) /\ v.display # at,
        finishes |-> Finishes(v),
        acked |-> AllShown(v) /\ v.display = at]
Goal(v) == IF v.drained THEN "finished" ELSE "failed"

(* confirm_publication, when the cursor moves or the display is shown: the
   transaction proves the W&B Run and every row again.  A hole with no
   reservation is beyond the publisher. *)
Confirm ==
    /\ visit.at = "plan"
    /\ LET p == Planned(visit)
           beyond == Hole(visit) /\ visit.saved.sent = {}
           known == p.confirmed > visit.confirmed \/ p.acked
           proof == [n \in visit.seen |-> journal[n].id]
           proven == ConfirmationPlan(visit.w, p.confirmed, proof)
       IN /\ IF known /\ proven THEN Confirmed(p.confirmed) ELSE UNCHANGED scopeRow
          /\ IF beyond \/ (known /\ ~proven)
               THEN visit' = Resting /\ Forget
               ELSE /\ visit' = [visit EXCEPT !.at = "save", !.plan = p,
                          !.repaired = visit.saved.repair # {} /\ \A n \in visit.saved.repair : n <= p.confirmed]
                    /\ UNCHANGED session
    /\ UNCHANGED <<journal, eventIds, binding, rebuilds, saved, providerEnded, deleted>> /\ Quiet

NextSaved(v) ==
    [v.saved EXCEPT !.everOpened = TRUE, !.confirmed = v.plan.confirmed, !.sent = v.plan.sent,
                    !.repairConfirmed = @ \/ v.repaired]
Saving(state, done) ==
    /\ SavePublication(state, done)
    /\ UNCHANGED <<journal, eventIds, binding, scopeRow, providerEnded, deleted>>

\* W&B shows the state that was asked for: the scope is finished.
FinishSeen(v) == v.saved.finishRequested /\ v.plan.finishes /\ v.state = Goal(v)

SaveFinished ==
    /\ visit.at = "save" /\ FinishSeen(visit)
    /\ Saving([NextSaved(visit) EXCEPT !.remoteFinished = TRUE], TRUE)
    /\ visit' = Resting /\ UNCHANGED session /\ Quiet

Acts(v) == v.plan.emits # {} \/ v.plan.displays \/ v.plan.finishes

\* Reservations are saved before the SDK is called.
SaveActions ==
    /\ visit.at = "save" /\ ~FinishSeen(visit) /\ Acts(visit)
    /\ Saving([NextSaved(visit) EXCEPT !.finishRequested = @ \/ visit.plan.finishes], FALSE)
    /\ visit' = [at |-> "send", w |-> visit.w,
                 frames |-> RowFrames(visit, visit.plan.emits)
                    \o (IF visit.plan.displays THEN <<Item(visit, "display", visit.through)>> ELSE <<>>)
                    \o (IF visit.plan.finishes THEN <<Item(visit, Goal(visit), visit.through)>> ELSE <<>>)]
    /\ Forget /\ Quiet

SaveQuiet ==
    /\ visit.at = "save" /\ ~Acts(visit) /\ visit.plan.sent = {}
    /\ Saving(NextSaved(visit), FALSE)
    /\ session' = [session EXCEPT !.watch = NoWatch, !.under = {},
                                  !.idle = IF visit.through = visit.total THEN visit.total ELSE @]
    /\ visit' = Resting /\ Quiet

------------
(* await_reservations: rows are reserved that W&B does not show.  The live
   child may still send them; once it is silent for long it is closed.
   Rows no child holds are looked at again after the settle delay, with
   unchanged evidence: what is proven absent is sent once more. *)
Awaiting(v) == ~Acts(v) /\ v.plan.sent # {}
Evidence(v) == <<v.seen, v.display>>
\* Mutant: every visit starts the settle clock again.
NeverUnchanged(v) == FALSE
Unchanged(v) == session.watch = Evidence(v)
Watching(v) == session' = [session EXCEPT !.watch = Evidence(v), !.under = loose]

Missing(reserved, seen, confirmed, through) ==
    {n \in confirmed + 1..through : n \notin seen /\ n <= Highest(reserved \cup seen, confirmed)}

AwaitChild ==
    /\ visit.at = "save" /\ Awaiting(visit)
    /\ session.held \/ ~Unchanged(visit) \/ ~visit.settled
    /\ Saving(NextSaved(visit), FALSE)
    /\ \/ /\ IF Unchanged(visit) THEN UNCHANGED session ELSE Watching(visit)
          /\ UNCHANGED <<child, loose, failures>>
       \/ session.held /\ Unchanged(visit) /\ Abandon /\ Fails
    /\ visit' = Resting /\ UNCHANGED wandb

RecordRepair(state, missing) == [state EXCEPT !.repair = missing, !.repairConfirmed = FALSE]

Recover ==
    /\ visit.at = "save" /\ Awaiting(visit)
    /\ ~session.held /\ Unchanged(visit) /\ visit.settled
    /\ LET missing == Missing(visit.plan.sent, visit.seen, visit.plan.confirmed, visit.through)
       IN IF missing \subseteq visit.plan.sent
            THEN /\ Saving(RecordRepair(NextSaved(visit), missing), FALSE)
                 /\ visit' = [at |-> "send", w |-> visit.w, frames |-> RowFrames(visit, missing)]
            ELSE visit' = Resting /\ NoStore
    /\ Forget /\ Quiet

\* Session::send: the frames go to the child one by one; a failure after some
\* of them closes the W&B Run or kills the child.  (A display or a finish that
\* already waits in the child is the same one: a bound of the model.)
Send ==
    /\ visit.at = "send"
    /\ \/ /\ child' = IF \E f \in ToSet(visit.frames) : f.kind # "row" /\ f \in ToSet(child)
                        THEN child ELSE child \o visit.frames
          /\ session' = [session EXCEPT !.held = TRUE] /\ UNCHANGED <<loose, failures>>
       \/ \E k \in 0..Len(visit.frames) :
             /\ session' = [session EXCEPT !.held = FALSE, !.watch = NoWatch, !.under = {}]
             /\ loose' = loose \cup ToSet(child) \cup ToSet(SubSeq(visit.frames, 1, k))
             /\ child' = <<>> /\ Fails
    /\ visit' = Resting /\ NoStore /\ UNCHANGED wandb

------------
(* The operator's repair takes the publisher lock, so the server is down;
   it observes twice, and its own SDK child ends before it looks again. *)
Repair ==
    /\ visit = Resting /\ session = NewSession /\ child = <<>>
    /\ Bound /\ binding.enabled /\ ~saved.remoteFinished
    /\ ~Gone(scopeRow.wandb)
    /\ loose = {}
    /\ saved.repair # {} => saved.repairConfirmed
    /\ LET w == scopeRow.wandb
           through == Highest({n \in saved.sent : n <= Total}, scopeRow.confirmed)
           missing == Missing(saved.sent, Shows(w), scopeRow.confirmed, through)
       IN /\ missing # {} /\ missing \subseteq saved.sent
          /\ scopeRow.confirmed > 0 => scopeRow.confirmed \in Shows(w)
          /\ Saving(RecordRepair(saved, missing), FALSE)
          /\ visit' = [at |-> "repair", w |-> w, through |-> Highest(missing \cup Shows(w), 0),
                       frames |-> RowFrames([w |-> w, list |-> Excluded], missing)]
    /\ UNCHANGED session /\ Quiet

RepairSends ==
    /\ visit.at = "repair"
    /\ child' = visit.frames /\ visit' = [visit EXCEPT !.at = "repaired"]
    /\ NoStore /\ UNCHANGED <<session, wandb, loose, failures>>

RepairConfirms ==
    /\ visit.at = "repaired" /\ child = <<>>
    /\ Missing(saved.sent, Shows(visit.w), scopeRow.confirmed, visit.through) = {}
    /\ ConfirmationPlan(visit.w, visit.through, [n \in Shows(visit.w) |-> journal[n].id])
    /\ Confirmed(visit.through)
    /\ SavePublication([saved EXCEPT !.confirmed = visit.through, !.repairConfirmed = TRUE,
                                     !.sent = {n \in @ : n > visit.through}], FALSE)
    /\ visit' = Resting
    /\ UNCHANGED <<journal, eventIds, binding, providerEnded, deleted, session>> /\ Quiet

------------
(* What W&B gets of the items, and what is lost on the way. *)
Applied(item) ==
    wandb' = [wandb EXCEPT ![item.w] =
        IF Gone(item.w) THEN @
        ELSE CASE item.kind = "row" -> [@ EXCEPT !.rows = Append(wandb[item.w].rows, [n |-> item.n, list |-> item.list]),
                                                 !.state = "running"]
               [] item.kind = "display" -> [@ EXCEPT !.display = item.n]
               [] OTHER -> [@ EXCEPT !.state = item.kind]]

Deliver ==
    /\ child # <<>>
    /\ Applied(Head(child)) /\ child' = Tail(child)
    /\ NoStore /\ UNCHANGED <<visit, session, loose, failures>>

Arrive ==
    /\ \E item \in loose : Applied(item) /\ loose' = loose \ {item}
    /\ NoStore /\ UNCHANGED <<visit, session, child, failures>>

Lose ==
    /\ \E item \in loose : loose' = loose \ {item}
    /\ NoStore /\ UNCHANGED <<visit, session, wandb, child, failures>>

\* The server stops anywhere and starts again: only the store is left.
Crash ==
    /\ session # NewSession \/ visit # Resting
    /\ visit' = Resting /\ session' = NewSession
    /\ loose' = loose \cup ToSet(child) /\ child' = <<>>
    /\ Fails /\ NoStore /\ UNCHANGED wandb

DeleteRun ==
    /\ Deletes
    /\ \E w \in 0..MaxRuns :
          /\ ~Gone(w)
          /\ wandb' = [wandb EXCEPT ![w].state = "deleted"]
    /\ Fails /\ NoStore /\ UNCHANGED <<visit, session, child, loose>>

------------
(* The cursor of the scope never passes what W&B shows of it. *)
ConfirmedIsShown ==
    wandb[scopeRow.wandb].state # "deleted" => 1..scopeRow.confirmed \subseteq Shows(scopeRow.wandb)

(* No row is on a W&B Run twice, however the sends, the kills of the child
   and the recoveries interleave: a row is sent again only once nothing
   can still deliver it. *)
ShownOnce == \A w \in 0..MaxRuns : Len(wandb[w].rows) = Cardinality(Shows(w))

(* What the list of a rebuild leaves out never reaches the W&B Run of that
   rebuild, though a visit may have read the scope before the rebuild. *)
ExcludedStaysOut ==
    \A w \in 1..MaxRuns : \A r \in ToSet(wandb[w].rows) : r.list = rebuilds[w].list

(* A Run that is finished is whole: W&B has every row the training left,
   and was closed; only derived rows may still be on their way. *)
FinishedIsWhole ==
    saved.remoteFinished =>
      /\ \A n \in scopeRow.confirmed + 1..Total : journal[n].batch # Nobody
      /\ wandb[scopeRow.wandb].state # "none"

(* A W&B Run a person deleted, once it had rows of the journal, is never
   created again: no partial copy appears under its name. *)
DeletedStays ==
    [][\A w \in 0..MaxRuns : wandb[w].state = "deleted" /\ wandb[w].rows # <<>>
                              => wandb'[w].state = "deleted"]_wandb

(* The saved state is never ahead of the row: a publisher that found it so
   would refuse the scope on every visit. *)
SavedBehindRow == saved.confirmed <= scopeRow.confirmed

Visiting == VisitRow \/ VisitSaved \/ VisitFinished \/ Observe \/ Confirm
            \/ SaveFinished \/ SaveActions \/ SaveQuiet \/ AwaitChild \/ Recover
Publishing == Visiting \/ CallFails \/ Send \/ Repair \/ RepairSends \/ RepairConfirms
              \/ Deliver \/ Arrive \/ Lose \/ Crash \/ DeleteRun

(* What else happens to the scope.  The Worker reports nothing after its
   end; a tombstone waits for the shared guard of a visit. *)
Reads == visit.at \in {"saved", "derived"}
Rebuilds == (Overtaken \/ ~Reads) /\ Len(rebuilds) < MaxRuns /\ \E l \in Lists : Rebuild(l)
ScopeChanges ==
    /\ \/ \E b \in Bindings : Bind(b)
       \/ OpenScope
       \/ (Late \/ (~Ended /\ ~providerEnded)) /\ \E events \in Seq(Reports) : Ingest(events)
       \/ \E b \in Batches : AddDerived(b)
       \/ Rebuilds
       \/ ProviderEnds
       \/ visit = Resting /\ \E name \in {"run", "parent"} : Mark(name)
    /\ UNCHANGED publisherVars

PublisherSpec ==
    /\ JournalInit /\ PublisherInit
    /\ [][Publishing \/ ScopeChanges]_<<journalVars, publisherVars>>

(* What the publisher says of a W&B Run is so: confirmed rows are there,
   each once, none that its rebuild left out, all of them when it is
   finished; its saved state is never ahead of the row, and the journal
   tells each event once. *)
PublishedIsTrue ==
    /\ RowsAreTold
    /\ ConfirmedIsShown /\ ShownOnce /\ ExcludedStaysOut /\ FinishedIsWhole /\ SavedBehindRow

(* A journal only grows, whoever repeats, derives or deletes; a W&B Run
   that was deleted with its rows stays deleted. *)
JournalIsKept == JournalOnlyGrows /\ DeletedStays
=============================================================================

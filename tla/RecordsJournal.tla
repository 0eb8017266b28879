--------------------------- MODULE RecordsJournal ---------------------------
(* The records journal of one Attempt (a scope): rows in one sequence,
   kept in SQLite, written by the ingress of the Worker, by derived
   batches after the end, and rebound by a W&B rebuild.  Every operation
   holds the shared deletion fence, and is one transaction.

   Columns that only describe (status, error, times, failure counts, the
   displayed cursor) are left out.  A payload stands for its digest. *)
EXTENDS Integers, FiniteSets, SequencesExt

CONSTANTS
    Reports,   \* events a Worker may report: [id, body]
    Batches,   \* derived files: [sha, bodies]
    Lists,     \* exclusion lists, sets of metric names
    Bindings,  \* routes and configurations: [enabled, companion]
    Nobody

VARIABLES
    journal,   \* the rows of the scope: [id, body, batch]
    eventIds,  \* the identities of reported events and their digests
    binding,   \* the frozen route and configuration of the Run
    scopeRow,  \* the publication cursor of the scope
    rebuilds,  \* the accepted W&B rebuilds of the scope
    saved,     \* the durable state of the W&B publisher
    providerEnded, \* the provider has proven the end of the job
    deleted    \* the Runs with a tombstone

journalVars == <<journal, eventIds, binding, scopeRow, rebuilds, saved, providerEnded, deleted>>

\* A body is [kind, name, value]; the lifecycle that ends a Run is "ended".
Metric(row) == row.body.kind = "metrics"
Total == Len(journal)
Training == {row \in ToSet(journal) : row.batch = Nobody}

NoSaved == [confirmed |-> 0, sent |-> {}, finishRequested |-> FALSE, remoteFinished |-> FALSE,
            everOpened |-> FALSE, repair |-> {}, repairConfirmed |-> FALSE,
            missing |-> FALSE, list |-> {}]
NoScope == [exists |-> FALSE, wandb |-> 0, confirmed |-> 0]

JournalInit ==
    /\ journal = <<>> /\ eventIds = {}
    /\ binding = Nobody /\ scopeRow = NoScope
    /\ rebuilds = <<>> /\ saved = NoSaved
    /\ providerEnded = FALSE /\ deleted = {}

------------
(* The fence: a companion Run is named after its parent and dies with it. *)
FenceNames == {"run"} \cup IF binding # Nobody /\ binding.companion THEN {"parent"} ELSE {}
Live == deleted \cap FenceNames = {}
Bound == Live /\ scopeRow.exists

\* The last lifecycle of the journal.
LatestLifecycle ==
    LET at == {n \in 1..Total : journal[n].body.kind \in {"lifecycle", "ended"}}
    IN IF at = {} THEN "none" ELSE journal[CHOOSE n \in at : \A m \in at : m <= n].body.kind
Ended == LatestLifecycle = "ended"

DerivedAfter(n) == \E s \in n + 1..Total : journal[s].batch # Nobody

\* The names the latest rebuild leaves out of what is published.
\* Mutant: the list of the rebuild is forgotten.
NothingExcluded == {}
Excluded == IF rebuilds = <<>> THEN {} ELSE Last(rebuilds).list
AsPublished(row) ==
    IF row.body.kind \in {"metrics", "derived"} /\ row.body.name \in Excluded
      THEN [row.body EXCEPT !.name = Nobody] ELSE row.body

------------
(* bind: the first binding is frozen; another one is refused.  No parent
   of the new binding may be deleted. *)
Bind(b) ==
    /\ binding = Nobody /\ deleted = {}
    /\ binding' = b
    /\ UNCHANGED <<journal, eventIds, scopeRow, rebuilds, saved, providerEnded, deleted>>

OpenScope ==
    /\ Live /\ binding # Nobody /\ ~scopeRow.exists
    /\ scopeRow' = [scopeRow EXCEPT !.exists = TRUE]
    /\ UNCHANGED <<journal, eventIds, binding, rebuilds, saved, providerEnded, deleted>>

\* Mutant: a report is recognised by its id alone, and a metric only by its id.
AppendsById(db, e) ==
    IF \E i \in db.ids : i.id = e.id THEN db
      ELSE [db EXCEPT !.ids = @ \cup {e}, !.rows = Append(@, [id |-> e.id, body |-> e.body, batch |-> Nobody])]

(* append: an event is known by its id.  The same id with another digest
   refuses the transaction; a metric that was reported under another id is
   remembered and adds no row. *)
AppendOne(db, e) ==
    IF \E i \in db.ids : i.id = e.id
      THEN [db EXCEPT !.conflict = db.conflict \/ e \notin db.ids]
      ELSE [db EXCEPT !.ids = @ \cup {e},
                      !.rows = IF \E r \in ToSet(db.rows) :
                                      /\ r.batch = Nobody /\ Metric(r) /\ r.body = e.body
                                 THEN @ ELSE Append(@, [id |-> e.id, body |-> e.body, batch |-> Nobody])]

\* Mutant: an event that is known is appended again.
AppendsAgain(db, e) ==
    [db EXCEPT !.ids = @ \cup {e}, !.rows = Append(@, [id |-> e.id, body |-> e.body, batch |-> Nobody])]

AppendedTo(db, events) ==
    LET after[n \in 0..Len(events)] == IF n = 0 THEN db ELSE AppendOne(after[n - 1], events[n])
    IN  after[Len(events)]
Appended(events) == AppendedTo([rows |-> journal, ids |-> eventIds, conflict |-> FALSE], events)

Ingest(events) ==
    /\ Bound /\ ~Appended(events).conflict
    /\ journal' = Appended(events).rows
    /\ eventIds' = Appended(events).ids
    /\ UNCHANGED <<binding, scopeRow, rebuilds, saved, providerEnded, deleted>>

(* append_derived: once per file, after the end, never under the name of a
   training metric. *)
DerivedId(b, i) == <<"derived", b.sha, i>>
DerivedBodies == UNION {ToSet(b.bodies) : b \in Batches}
ASSUME JournalAssumption ==
    /\ \A b \in Batches : b.sha # Nobody /\ b.bodies \in Seq(DerivedBodies)
    /\ \A body \in DerivedBodies : body.kind = "derived"
    /\ \A e \in Reports, b \in Batches : \A i \in 1..Len(b.bodies) : e.id # DerivedId(b, i)
AddDerived(b) ==
    /\ Bound
    /\ \A row \in ToSet(journal) : row.batch # b.sha
    /\ Ended
    /\ {body.name : body \in ToSet(b.bodies)} \cap {r.body.name : r \in {r \in Training : Metric(r)}} = {}
    /\ \A i \in 1..Len(b.bodies) : \A e \in eventIds : e.id # DerivedId(b, i)
    /\ journal' = journal \o [i \in 1..Len(b.bodies) |->
                                 [id |-> DerivedId(b, i), body |-> b.bodies[i], batch |-> b.sha]]
    /\ UNCHANGED <<eventIds, binding, scopeRow, rebuilds, saved, providerEnded, deleted>>

\* Mutant: what is not confirmed yet does not hold a rebuild back.
RebuildAnytime(list) == binding.enabled /\ ~saved.missing /\ (Ended \/ providerEnded)

(* rebuild_wandb: every record is on a W&B Run that was finished, and the
   Attempt has ended.  The list of the latest rebuild changes nothing. *)
RebuildFrom(list) ==
    /\ binding.enabled
    /\ saved.remoteFinished /\ ~saved.missing
    /\ scopeRow.confirmed = Total
    /\ Ended \/ providerEnded

\* Mutant: a rebuild does not ask for the deletion guard.
RebuildUnfenced(list) ==
    /\ scopeRow.exists /\ RebuildFrom(list)
    /\ rebuilds # <<>> => Last(rebuilds).list # list
    /\ rebuilds' = Append(rebuilds, [list |-> list, old |-> scopeRow.wandb,
                                     new |-> Len(rebuilds) + 1, finished |-> FALSE])
    /\ saved' = [NoSaved EXCEPT !.list = list]
    /\ scopeRow' = [scopeRow EXCEPT !.wandb = Len(rebuilds) + 1, !.confirmed = 0]
    /\ UNCHANGED <<journal, eventIds, binding, providerEnded, deleted>>

Rebuild(list) ==
    /\ Bound
    /\ rebuilds # <<>> => Last(rebuilds).list # list
    /\ RebuildFrom(list)
    /\ rebuilds' = Append(rebuilds, [list |-> list, old |-> scopeRow.wandb,
                                     new |-> Len(rebuilds) + 1, finished |-> FALSE])
    /\ saved' = [NoSaved EXCEPT !.list = list]
    /\ scopeRow' = [scopeRow EXCEPT !.wandb = Len(rebuilds) + 1, !.confirmed = 0]
    /\ UNCHANGED <<journal, eventIds, binding, providerEnded, deleted>>

(* confirmation_plan and confirm_publication: the evidence is of this W&B
   Run and shows every row from the cursor to where it confirms. *)
ConfirmationPlan(wandb, through, observed) ==
    /\ binding.enabled
    /\ wandb = scopeRow.wandb
    /\ scopeRow.confirmed <= through /\ through <= Total
    /\ \A s \in (IF scopeRow.confirmed = 0 THEN 1 ELSE scopeRow.confirmed)..through :
          s \in DOMAIN observed /\ observed[s] = journal[s].id

\* Mutant: the cursor moves to the end of the journal.
ConfirmsAll(through) == scopeRow' = [scopeRow EXCEPT !.confirmed = Total]

Confirmed(through) ==
    scopeRow' = [scopeRow EXCEPT !.confirmed = IF @ > through THEN @ ELSE through]

(* save_publication_state: the first time a rebuilt Run is finished ends
   its rebuild. *)
SavePublication(state, finished) ==
    /\ saved' = state
    /\ rebuilds' = [n \in DOMAIN rebuilds |->
                      [rebuilds[n] EXCEPT !.finished = @ \/ (finished /\ rebuilds[n].new = scopeRow.wandb)]]

\* The provider proves the end of the job, once.
ProviderEnds ==
    /\ ~providerEnded
    /\ providerEnded' = TRUE
    /\ UNCHANGED <<journal, eventIds, binding, scopeRow, rebuilds, saved, deleted>>

(* mark: a tombstone is published under the exclusive lock and stays. *)
Mark(name) ==
    /\ name \notin deleted
    /\ deleted' = deleted \cup {name}
    /\ UNCHANGED <<journal, eventIds, binding, scopeRow, rebuilds, saved, providerEnded>>

------------
Rows == [id : {r.id : r \in Reports} \cup {DerivedId(b, i) : b \in Batches, i \in 1..2},
         body : {r.body : r \in Reports} \cup UNION {ToSet(b.bodies) : b \in Batches},
         batch : {b.sha : b \in Batches} \cup {Nobody}]

(* Every row has an identity of its own, a metric of the Worker has one
   row under whatever ids it was reported, and a derived row never takes
   the name of a metric the training had reported: a curve is not changed
   by a repeated packet or by a file that came later. *)
RowsAreTold ==
    \A m, n \in 1..Total : m < n =>
      /\ journal[m].id # journal[n].id
      /\ (journal[m].batch = Nobody /\ Metric(journal[m])) =>
           /\ journal[n].batch = Nobody => journal[n].body # journal[m].body
           /\ journal[n].batch # Nobody => journal[n].body.name # journal[m].body.name

(* The journal only grows, an accepted event is never forgotten, and the
   binding of the Run is never another one; after a tombstone nothing of
   it changes. *)
JournalOnlyGrows ==
    [][/\ IsPrefix(journal, journal')
       /\ eventIds \subseteq eventIds'
       /\ binding # Nobody => binding' = binding
       /\ deleted \subseteq deleted'
       /\ ~Live => UNCHANGED <<journal, eventIds, scopeRow, rebuilds, saved>>]_journalVars
=============================================================================

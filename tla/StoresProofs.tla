----------------------------- MODULE StoresProofs -----------------------------
(* Proofs about what is kept on disk, for every set of users, records and
   bounds: the Action store (type correctness, one provider call per
   Action, what is never taken back, that it implements the life cycle of
   an Action, and that the audit log explains every row), the registry of
   Projects (that it can be loaded wherever a request stopped and explains
   its records, and that its history only grows), the sources (that what
   is packed was there together, and that every receipt is true), and the
   checkpoints and packed results of an Attempt (that they are what they
   are said to be, for every tree and number of changes made to it). *)
EXTENDS ActionStore, ProjectRegistry, SourceStore, CheckpointSeal, FiniteSetTheorems, WellFoundedInduction, TLAPS

(* Idle is a well-formed call record. *)
LEMMA IdleType == Idle \in Calls /\ Idle.step = "idle"
  BY StoreAssumption DEF Idle, Began, NoOutcome, Calls, Steps, Rows, NoRow, Outcomes

(* A committed row and its event have their types. *)
LEMMA CommitType ==
  ASSUME TypeOK, NEW a \in Actions, NEW from \in Rows, NEW s \in Status,
         NEW j \in Jobs \cup {NoJob}, NEW e \in EventNames,
         Commit(a, from, s, j, e)
  PROVE  row' \in [Actions -> Rows] /\ events' \in [Actions -> Seq(Events)]
  <1>2. [revision |-> from.revision + 1, event |-> e, status |-> s, job |-> j] \in Events
    BY DEF Rows, Events
  <1>3. events[a] \in Seq(Events)
    BY DEF TypeOK
  <1> QED BY <1>2, <1>3 DEF Commit, TypeOK, Rows

CallOK ==
  /\ call \in [Callers -> Calls]
  /\ \A c \in Callers : call[c].step # "idle" => call[c].action \in Actions

(* Replacing one call by a well-formed one keeps the calls well formed. *)
LEMMA CallType ==
  ASSUME CallOK, NEW c \in Callers, NEW r \in Calls,
         r.step # "idle" => r.action \in Actions,
         call' = [call EXCEPT ![c] = r]
  PROVE  CallOK'
  BY DEF CallOK

(* A caller that moves on or returns stays well formed. *)
LEMMA MoveType ==
  ASSUME CallOK, NEW c \in Callers, call[c].action \in Actions, NEW s \in Steps,
         Goto(c, s) \/ Return(c)
  PROVE  CallOK'
  BY IdleType DEF CallOK, Goto, Return, Calls

(* A caller that begins on an Action is well formed. *)
LEMMA BeginType ==
  ASSUME CallOK, NEW c \in Callers, NEW a \in Actions, NEW s \in Steps,
         NEW t \in BOOLEAN, NEW seen \in Rows,
         call' = [call EXCEPT ![c] = Began(s, a, t, seen)]
  PROVE  CallOK'
  BY StoreAssumption DEF CallOK, Calls, Outcomes, Began, NoOutcome

(* Every step of the store keeps the types of its variables. *)
LEMMA NextType == TypeOK /\ [Next]_vars => TypeOK'
  <1> SUFFICES ASSUME TypeOK, [Next]_vars PROVE TypeOK'
    OBVIOUS
  <1>0. CallOK /\ NoRow \in Rows
    BY DEF TypeOK, CallOK, NoRow, Rows
  <1>1. ASSUME NEW c \in Callers, Bootstrap(c) PROVE TypeOK'
    <2>1. call[c].action \in Actions /\ call[c].then \in Steps
      BY <1>1 DEF TypeOK, Bootstrap, Calls, Steps
    <2>2. InitialStatus(call[c].action) \in Status
      BY DEF InitialStatus, Status
    <2>3. row' \in [Actions -> Rows] /\ events' \in [Actions -> Seq(Events)]
      <3>1. CASE row[call[c].action] = NoRow
        <4>1. Commit(call[c].action, NoRow, InitialStatus(call[c].action), NoJob, "action_prepared")
          BY <1>1, <3>1 DEF Bootstrap
        <4> QED BY <4>1, <2>1, <2>2, <1>0, CommitType DEF EventNames
      <3>2. CASE row[call[c].action] # NoRow
        BY <1>1, <3>2 DEF Bootstrap, TypeOK
      <3> QED BY <3>1, <3>2
    <2>4. CallOK' /\ lock' \in Callers \cup {Nobody}
      <3>1. Goto(c, call[c].then) \/ Return(c)
        BY <1>1 DEF Bootstrap
      <3> QED BY <3>1, <1>0, <1>1, <2>1, MoveType DEF Bootstrap, TypeOK
    <2> QED BY <1>1, <2>3, <2>4 DEF Bootstrap, TypeOK, CallOK
  <1>2. ASSUME NEW c \in Callers, Bind(c) PROVE TypeOK'
    <2>1. call[c].action \in Actions
      BY <1>2 DEF TypeOK, Bind
    <2>2. CallOK'
      BY <1>0, <1>2, <2>1, MoveType DEF Bind, Steps
    <2> QED BY <1>2, <2>1, <2>2 DEF Bind, TypeOK, CallOK
  <1>3. ASSUME NEW c \in Callers, BeginClaim(c) PROVE TypeOK'
    <2>0. call[c] \in Calls /\ call[c].action \in Actions
      BY <1>0, <1>3 DEF BeginClaim, CallOK
    <2> DEFINE r == [call[c] EXCEPT !.step = "bootstrap", !.then = "decide"]
    <2>a. r \in Calls /\ r.action \in Actions
      BY <2>0 DEF Calls, Steps
    <2>b. call' = [call EXCEPT ![c] = r]
      BY <1>3 DEF BeginClaim
    <2>1. CallOK'
      BY <1>0, <2>a, <2>b, CallType
    <2> QED BY <1>3, <2>1 DEF BeginClaim, TypeOK, CallOK
  <1>4. ASSUME NEW c \in Callers, DecideClaim(c) PROVE TypeOK'
    <2>1. call[c].action \in Actions /\ row[call[c].action] \in Rows
          /\ row[call[c].action].job \in Jobs \cup {NoJob}
      BY <1>4 DEF TypeOK, DecideClaim, Rows
    <2>2. CASE MayClaim(call[c].action, call[c].timely)
      <3>1. row' \in [Actions -> Rows] /\ events' \in [Actions -> Seq(Events)]
        <4>1. Commit(call[c].action, row[call[c].action], "EXECUTING",
                     row[call[c].action].job, "execution_started")
          BY <1>4, <2>2 DEF DecideClaim
        <4> QED BY <4>1, <2>1, CommitType DEF EventNames, Status
      <3>2. call' = [call EXCEPT ![c].step = "dispatch", ![c].seen = row'[call[c].action]]
        BY <1>4, <2>2 DEF DecideClaim
      <3>3. row'[call[c].action] \in Rows
        BY <2>1, <3>1
      <3> DEFINE r == [call[c] EXCEPT !.step = "dispatch", !.seen = row'[call[c].action]]
      <3>a. call[c] \in Calls
        BY <1>0 DEF CallOK
      <3>b. r \in Calls /\ r.action \in Actions
        BY <2>1, <3>3, <3>a DEF Calls, Steps
      <3>c. call' = [call EXCEPT ![c] = r]
        BY <3>2
      <3>4. CallOK'
        BY <1>0, <3>b, <3>c, CallType
      <3>5. UNCHANGED <<plan, bound, expired, dispatched>> /\ lock' = Nobody
        BY <1>4 DEF DecideClaim
      <3> QED BY <3>1, <3>4, <3>5 DEF TypeOK, CallOK
    <2>3. CASE ~ MayClaim(call[c].action, call[c].timely)
      <3>1. CallOK'
        BY <1>0, <1>4, <2>1, <2>3, MoveType DEF DecideClaim, Steps
      <3> QED BY <1>4, <2>3, <3>1 DEF DecideClaim, TypeOK, CallOK
    <2> QED BY <2>2, <2>3
  <1>5. ASSUME NEW c \in Callers, Dispatch(c) PROVE TypeOK'
    <2>1. call[c].action \in Actions
      BY <1>5 DEF TypeOK, Dispatch
    <2>2. CallOK'
      BY <1>0, <1>5, <2>1, MoveType DEF Dispatch, Steps
    <2>3. dispatched' \in [Actions -> Nat]
      BY <1>5, <2>1 DEF Dispatch, TypeOK
    <2>4. UNCHANGED <<plan, bound, row, events, lock, expired>>
      BY <1>5 DEF Dispatch
    <2> QED BY <2>2, <2>3, <2>4 DEF TypeOK, CallOK
  <1>6. ASSUME NEW c \in Callers, Answer(c) PROVE TypeOK'
    <2>1. PICK o \in Outcomes :
            call' = [call EXCEPT ![c].step = "finish", ![c].outcome = o]
      BY <1>6 DEF Answer
    <2>0. call[c] \in Calls /\ call[c].action \in Actions
      BY <1>0, <1>6 DEF Answer, CallOK
    <2> DEFINE r == [call[c] EXCEPT !.step = "finish", !.outcome = o]
    <2>a. r \in Calls /\ r.action \in Actions
      BY <2>0, <2>1 DEF Calls, Steps
    <2>b. call' = [call EXCEPT ![c] = r] BY <2>1
    <2> HIDE DEF r
    <2>2. CallOK' BY <1>0, <2>a, <2>b, CallType
    <2> QED BY <1>6, <2>2 DEF Answer, TypeOK, CallOK
  <1>7. ASSUME NEW c \in Callers, Finish(c) PROVE TypeOK'
    <2>1. call[c].action \in Actions /\ call[c].seen \in Rows
          /\ Resolved(c) \in Jobs \cup {NoJob}
      BY <1>7 DEF TypeOK, Finish, Calls, Resolved, Outcomes, Rows
    <2>2. CallOK'
      BY <1>0, <1>7, <2>1, MoveType DEF Finish, Steps
    <2>3. row' \in [Actions -> Rows] /\ events' \in [Actions -> Seq(Events)]
      <3>1. CASE MayFinish(c)
        <4>1. PICK s \in Status, e \in EventNames :
                Commit(call[c].action, call[c].seen, s, Resolved(c), e)
          BY <1>7, <3>1 DEF Finish, Status, EventNames
        <4> QED BY <4>1, <2>1, CommitType
      <3>2. CASE ~ MayFinish(c)
        BY <1>7, <3>2 DEF Finish, TypeOK
      <3> QED BY <3>1, <3>2
    <2>4. UNCHANGED <<plan, bound, lock, expired, dispatched>>
      BY <1>7 DEF Finish
    <2> QED BY <2>2, <2>3, <2>4 DEF TypeOK, CallOK
  <1>8. ASSUME NEW c \in Callers, Interrupt(c) PROVE TypeOK'
    <2>1. call[c].action \in Actions /\ call[c].seen \in Rows
          /\ call[c].seen.job \in Jobs \cup {NoJob}
      BY <1>8 DEF TypeOK, Interrupt, Calls, Rows
    <2>2. CallOK'
      BY <1>0, <1>8, <2>1, MoveType DEF Interrupt, Steps
    <2>3. row' \in [Actions -> Rows] /\ events' \in [Actions -> Seq(Events)]
      <3>1. CASE CanCommit(call[c].action, call[c].seen, "EXECUTING")
        <4>1. Commit(call[c].action, call[c].seen, "RECONCILE_REQUIRED",
                     call[c].seen.job, "execution_interrupted_by_restart")
          BY <1>8, <3>1 DEF Interrupt
        <4> QED BY <4>1, <2>1, CommitType DEF Status, EventNames
      <3>2. CASE ~ CanCommit(call[c].action, call[c].seen, "EXECUTING")
        BY <1>8, <3>2 DEF Interrupt, TypeOK
      <3> QED BY <3>1, <3>2
    <2>4. UNCHANGED <<plan, bound, lock, expired, dispatched>>
      BY <1>8 DEF Interrupt
    <2> QED BY <2>2, <2>3, <2>4 DEF TypeOK, CallOK
  <1>9. ASSUME NEW c \in Callers, Crash(c) PROVE TypeOK'
    BY <1>0, <1>9, IdleType, CallType DEF Crash, Return, TypeOK, CallOK
  <1>10. ASSUME NEW c \in Callers, NEW a \in Actions, Begin(c, a) PROVE TypeOK'
    <2>1. row[a] \in Rows /\ expired[a] \in BOOLEAN
      BY DEF TypeOK
    <2>3. CallOK'
      <3>0. /\ "bootstrap" \in Steps /\ "bind" \in Steps
            /\ "answer" \in Steps /\ "interrupt" \in Steps
        BY DEF Steps
      <3>1. CASE (\E d \in Digests : SavePlan(c, a, d)) \/ Snapshot(c, a)
        <4>1. call' = [call EXCEPT ![c] = Began("bootstrap", a, FALSE, NoRow)]
          BY <3>1 DEF SavePlan, Snapshot
        <4> QED BY <4>1, <3>0, <1>0, BeginType
      <3>2. CASE BeginExecute(c, a)
        <4>1. call' = [call EXCEPT ![c] = Began("bind", a, ~ expired[a], NoRow)]
          BY <3>2 DEF BeginExecute
        <4> QED BY <4>1, <3>0, <1>0, BeginType
      <3>3. CASE BeginReconcile(c, a)
        <4>1. call' = [call EXCEPT ![c] = Began("answer", a, FALSE, row[a])]
          BY <3>3 DEF BeginReconcile
        <4> QED BY <4>1, <3>0, <1>0, <2>1, BeginType
      <3>4. CASE BeginInterrupt(c, a)
        <4>1. call' = [call EXCEPT ![c] = Began("interrupt", a, FALSE, row[a])]
          BY <3>4 DEF BeginInterrupt
        <4> QED BY <4>1, <3>0, <1>0, <2>1, BeginType
      <3> QED BY <1>10, <3>1, <3>2, <3>3, <3>4 DEF Begin
    <2>4. plan' \in [Actions -> Digests \cup {NoPlan}] /\ lock' \in Callers \cup {Nobody}
          /\ UNCHANGED <<bound, row, events, expired, dispatched>>
      <3>1. CASE \E d \in Digests : SavePlan(c, a, d)
        BY <3>1 DEF SavePlan, TypeOK
      <3>2. CASE Snapshot(c, a) \/ BeginExecute(c, a)
        BY <3>2 DEF Snapshot, BeginExecute, TypeOK
      <3>3. CASE BeginReconcile(c, a) \/ BeginInterrupt(c, a)
        BY <3>3 DEF BeginReconcile, BeginInterrupt, TypeOK
      <3> QED BY <1>10, <3>1, <3>2, <3>3 DEF Begin
    <2> QED BY <2>3, <2>4 DEF TypeOK, CallOK
  <1>11. ASSUME NEW a \in Actions, Expire(a) PROVE TypeOK'
    BY <1>11 DEF Expire, TypeOK
  <1>12. CASE UNCHANGED vars
    BY <1>12 DEF vars, TypeOK
  <1> QED
    BY <1>1, <1>2, <1>3, <1>4, <1>5, <1>6, <1>7, <1>8, <1>9, <1>10, <1>11, <1>12
    DEF Next, Work

(* Every variable of the store keeps its type. *)
THEOREM TypeCorrect == Spec => []TypeOK
  <1>1. Init => TypeOK
    BY IdleType, StoreAssumption DEF Init, TypeOK, Rows, NoRow
  <1> QED BY <1>1, NextType, PTL DEF Spec

------------
(* What a caller that is at work knows.  The snapshot it saw is the row or
   is out of date, by its revision; who may dispatch has not dispatched. *)
Seeing == {"dispatch", "answer", "finish", "interrupt"}
Binding == {"claim", "decide", "dispatch", "answer", "finish"}

KnowsRow(c) ==
    LET a == call[c].action
        seen == call[c].seen
    IN call[c].step \in Seeing =>
         /\ Started(a) /\ seen.status \in {"EXECUTING", "RECONCILE_REQUIRED"}
         /\ seen.revision <= row[a].revision
         /\ seen.revision = row[a].revision => seen = row[a]

CallSound(c) ==
    /\ KnowsRow(c)
    /\ \/ call[c].step \in Binding
       \/ call[c].step = "bootstrap" /\ call[c].then = "decide"
       => bound[call[c].action]
    /\ call[c].step = "dispatch" => dispatched[call[c].action] = 0
    /\ call[c].step = "finish" /\ call[c].outcome.verified => call[c].outcome.job # NoJob

RowSound(a) ==
    /\ Started(a) => plan[a] \in Ready
    /\ dispatched[a] \in {0, 1}
    /\ dispatched[a] = 1 => Started(a) /\ bound[a]

StoreInv ==
    /\ TypeOK
    /\ \A a \in Actions : RowSound(a)
    /\ \A c \in Callers : CallSound(c)
    /\ OneDispatcher

(* One caller moves and at most one row is committed, under the revision
   it has; what is bound, ready or started stays so. *)
Moves(c) ==
    /\ \A d \in Callers \ {c} : call'[d] = call[d]
    /\ \A a \in Actions :
         /\ bound[a] => bound'[a]
         /\ plan[a] \in Ready => plan'[a] = plan[a]
         /\ \/ row'[a] = row[a]
            \/ /\ row'[a].revision = row[a].revision + 1
               /\ Started(a) => Started(a)'

(* Who does not move still knows what it knew. *)
LEMMA OthersKnow ==
  ASSUME StoreInv, TypeOK', NEW c \in Callers, Moves(c), NEW d \in Callers, d # c,
         call[d].step = "dispatch" =>
           dispatched'[call[d].action] = dispatched[call[d].action]
  PROVE  CallSound(d)'
  <1>1. /\ call'[d] = call[d] /\ CallSound(d) /\ call[d] \in Calls
        /\ call[d].step # "idle" => call[d].action \in Actions
    BY DEF StoreInv, TypeOK, Moves
  <1>2. CASE call[d].step = "idle"
    BY <1>1, <1>2 DEF CallSound, KnowsRow, Seeing, Binding
  <1>3. CASE call[d].step # "idle"
    <2> DEFINE a == call[d].action
    <2>1. /\ a \in Actions /\ row[a].revision \in Nat /\ call[d].seen.revision \in Nat
          /\ bound[a] => bound'[a]
          /\ \/ row'[a] = row[a]
             \/ row'[a].revision = row[a].revision + 1 /\ (Started(a) => Started(a)')
      BY <1>1, <1>3 DEF StoreInv, TypeOK, Rows, Calls, Moves
    <2> HIDE DEF a
    <2>2. KnowsRow(d)'
      <3>1. CASE row'[a] = row[a]
        BY <1>1, <3>1 DEF CallSound, KnowsRow, Started, a
      <3>2. CASE row'[a].revision = row[a].revision + 1 /\ (Started(a) => Started(a)')
        BY <1>1, <2>1, <3>2 DEF CallSound, KnowsRow, a
      <3> QED BY <2>1, <3>1, <3>2
    <2> QED BY <1>1, <2>1, <2>2 DEF CallSound, a, Binding
  <1> QED BY <1>2, <1>3

(* A move that makes no provider call keeps the invariant, if the one who
   moves knows what it needs and no second dispatcher appears. *)
LEMMA MoveIsSound ==
  ASSUME StoreInv, TypeOK', NEW c \in Callers, Moves(c), UNCHANGED dispatched, CallSound(c)',
         \A a \in Actions : Started(a)' => Started(a) \/ plan[a] \in Ready,
         call'[c].step = "dispatch" =>
           \A d \in Callers \ {c} :
             ~ (call[d].step = "dispatch" /\ call[d].action = call'[c].action)
  PROVE  StoreInv'
  <1>1. \A d \in Callers : CallSound(d)'
    BY OthersKnow
  <1>2. ASSUME NEW a \in Actions
        PROVE  RowSound(a)'
    <2>1. RowSound(a) /\ (Started(a) => Started(a)') /\ (bound[a] => bound'[a])
      BY DEF StoreInv, Moves, Started
    <2> QED BY <2>1 DEF RowSound, Moves
  <1>3. OneDispatcher'
    <2>1. ASSUME NEW d \in Callers, call'[d].step = "dispatch"
          PROVE  dispatched'[call'[d].action] = 0
      BY <1>1, <2>1 DEF CallSound
    <2>2. ASSUME NEW d \in Callers, NEW e \in Callers, d # e, call'[d].step = "dispatch",
                 call'[e].step = "dispatch", call'[e].action = call'[d].action
          PROVE  FALSE
      <3>1. CASE d # c /\ e # c
        BY <2>2, <3>1 DEF Moves, StoreInv, OneDispatcher
      <3>2. CASE d = c \/ e = c
        BY <2>2, <3>2 DEF Moves
      <3> QED BY <3>1, <3>2
    <2> QED BY <2>1, <2>2 DEF OneDispatcher
  <1> QED BY <1>1, <1>2, <1>3 DEF StoreInv

(* A caller that ends or goes on without a right to dispatch. *)
LEMMA CallMoves ==
  ASSUME TypeOK, NEW c \in Callers
  PROVE  /\ \A s \in Steps : Goto(c, s) =>
              /\ \A d \in Callers \ {c} : call'[d] = call[d]
              /\ call'[c] = [call[c] EXCEPT !.step = s] /\ call[c] \in Calls
              /\ call'[c].step = s /\ call'[c].action = call[c].action
              /\ call'[c].seen = call[c].seen /\ call'[c].then = call[c].then
              /\ call'[c].outcome = call[c].outcome
         /\ Return(c) =>
              /\ \A d \in Callers \ {c} : call'[d] = call[d]
              /\ CallSound(c)' /\ call'[c].step = "idle"
  <1>1. ASSUME NEW s \in Steps, Goto(c, s)
        PROVE  /\ \A d \in Callers \ {c} : call'[d] = call[d]
               /\ call'[c] = [call[c] EXCEPT !.step = s] /\ call[c] \in Calls
               /\ call'[c].step = s /\ call'[c].action = call[c].action
               /\ call'[c].seen = call[c].seen /\ call'[c].then = call[c].then
               /\ call'[c].outcome = call[c].outcome
    <2> QED BY <1>1 DEF Calls, Goto, TypeOK
  <1>2. ASSUME Return(c)
        PROVE  /\ \A d \in Callers \ {c} : call'[d] = call[d]
               /\ CallSound(c)' /\ call'[c].step = "idle"
    <2>1. (\A d \in Callers \ {c} : call'[d] = call[d]) /\ call'[c] = Idle
      BY <1>2 DEF Return, TypeOK
    <2> QED BY <2>1, IdleType DEF CallSound, KnowsRow, Seeing, Binding
  <1> QED BY <1>1, <1>2

(* A commit under the revision of the row moves that row alone. *)
LEMMA CommitMoves ==
  ASSUME TypeOK, NEW a \in Actions, NEW from \in Rows, from.revision = row[a].revision,
         NEW s \in Status, NEW j \in Jobs \cup {NoJob}, NEW e \in EventNames,
         Commit(a, from, s, j, e),
         Started(a) => s \in {"EXECUTING", "RECONCILE_REQUIRED", "VERIFIED"}
  PROVE  /\ row'[a] = [revision |-> row[a].revision + 1, status |-> s, job |-> j]
         /\ \A b \in Actions \ {a} : row'[b] = row[b]
         /\ Started(a) => Started(a)'
  BY DEF Commit, TypeOK, Started

------------
(* The steps of a caller that make no provider call, one by one. *)
LEMMA WorkIsSound ==
  ASSUME StoreInv, TypeOK', NEW c \in Callers,
         \/ Bootstrap(c) \/ Bind(c) \/ BeginClaim(c) \/ DecideClaim(c)
         \/ Answer(c) \/ Finish(c) \/ Interrupt(c) \/ Crash(c)
  PROVE  StoreInv'
  <1>0. PICK a \in Actions \cup {NoPlan} : a = call[c].action
    BY DEF StoreInv, TypeOK, Calls
  <1>1. /\ a = call[c].action /\ TypeOK /\ CallSound(c) /\ call[c] \in Calls
        /\ call[c].step # "idle" => a \in Actions /\ row[a] \in Rows
    BY <1>0 DEF StoreInv, TypeOK
  <1>2. ASSUME UNCHANGED <<plan, row>>, \A b \in Actions : bound[b] => bound'[b],
               \A d \in Callers \ {c} : call'[d] = call[d]
        PROVE  Moves(c) /\ \A b \in Actions : Started(b)' => Started(b)
    BY <1>2 DEF Moves, Started
  <1>3. ASSUME a \in Actions, NEW s \in Status,
               row'[a] = [revision |-> row[a].revision + 1, status |-> s,
                          job |-> row'[a].job],
               \A b \in Actions \ {a} : row'[b] = row[b],
               Started(a) => Started(a)', UNCHANGED <<plan, bound>>,
               \A d \in Callers \ {c} : call'[d] = call[d],
               Started(a)' => Started(a) \/ plan[a] \in Ready
        PROVE  Moves(c) /\ \A b \in Actions : Started(b)' => Started(b) \/ plan[b] \in Ready
    <2>1. row'[a].revision = row[a].revision + 1
      BY <1>3
    <2>2. \A b \in Actions : b # a => Started(b)' = Started(b)
      BY <1>3 DEF Started
    <2> QED BY <1>3, <2>1, <2>2 DEF Moves
  <1>4. ASSUME Bootstrap(c)
        PROVE  StoreInv'
    <2>1. a \in Actions /\ call[c].then \in {"idle", "decide"} /\ call[c].then \in Steps
      BY <1>1, <1>4 DEF Bootstrap, Calls, Steps
    <2>2. /\ \A d \in Callers \ {c} : call'[d] = call[d]
          /\ CallSound(c)' /\ call'[c].step # "dispatch"
      <3>1. CASE call[c].then = "idle"
        BY <1>1, <1>4, <3>1, CallMoves DEF Bootstrap
      <3>2. CASE call[c].then = "decide"
        <4>1. Goto(c, "decide") /\ bound' = bound
          BY <1>4, <3>2 DEF Bootstrap
        <4>2. bound[a]
          BY <1>1, <1>4, <3>2 DEF CallSound, Bootstrap
        <4>3. /\ \A d \in Callers \ {c} : call'[d] = call[d]
              /\ call'[c].step = "decide" /\ call'[c].action = call[c].action
          BY <1>1, <2>1, <3>2, <4>1, CallMoves
        <4> QED BY <1>1, <4>1, <4>2, <4>3 DEF CallSound, KnowsRow, Seeing
      <3> QED BY <2>1, <3>1, <3>2
    <2>3. CASE row[a] = NoRow
      <3>1. /\ Commit(a, NoRow, InitialStatus(a), NoJob, "action_prepared")
            /\ UNCHANGED <<plan, bound, dispatched>>
        BY <1>1, <1>4, <2>3 DEF Bootstrap
      <3>2. InitialStatus(a) \in {"PREPARED", "BLOCKED"} /\ ~ Started(a)
        BY <2>3 DEF InitialStatus, Started, NoRow
      <3>3. NoRow \in Rows
        BY DEF NoRow, Rows
      <3>4. /\ row'[a] = [revision |-> row[a].revision + 1, status |-> InitialStatus(a),
                          job |-> NoJob]
            /\ \A b \in Actions \ {a} : row'[b] = row[b]
        BY <1>1, <2>1, <2>3, <3>1, <3>2, <3>3, CommitMoves DEF Status, EventNames
      <3>5. ~ Started(a)'
        <4>1. row'[a].status = InitialStatus(a)
          BY <3>4
        <4> QED BY <3>2, <4>1 DEF Started
      <3>6. Moves(c) /\ \A b \in Actions : Started(b)' => Started(b) \/ plan[b] \in Ready
        BY <1>3, <2>1, <2>2, <3>1, <3>2, <3>4, <3>5 DEF Status
      <3> QED BY <2>2, <3>1, <3>6, MoveIsSound
    <2>4. CASE row[a] # NoRow
      <3>1. UNCHANGED <<plan, row, bound, dispatched>>
        BY <1>1, <1>4, <2>4 DEF Bootstrap
      <3> QED BY <1>2, <2>2, <3>1, MoveIsSound
    <2> QED BY <2>3, <2>4
  <1>5. ASSUME Bind(c)
        PROVE  StoreInv'
    <2>1. a \in Actions /\ UNCHANGED <<plan, row, dispatched>>
      BY <1>1, <1>5 DEF Bind
    <2>2. CASE bound[a] \/ row[a].status = "PREPARED"
      <3>1. bound' = [bound EXCEPT ![a] = TRUE] /\ Goto(c, "claim")
        BY <1>1, <1>5, <2>2 DEF Bind
      <3>2. bound'[a] /\ \A b \in Actions : bound[b] => bound'[b]
        BY <1>1, <2>1, <3>1 DEF TypeOK
      <3>3. /\ \A d \in Callers \ {c} : call'[d] = call[d]
            /\ call'[c].step = "claim" /\ call'[c].action = a
        BY <1>1, <3>1, CallMoves DEF Steps
      <3>4. CallSound(c)'
        BY <3>2, <3>3 DEF CallSound, KnowsRow, Seeing
      <3> QED BY <1>2, <2>1, <3>2, <3>3, <3>4, MoveIsSound
    <2>3. CASE ~ (bound[a] \/ row[a].status = "PREPARED")
      <3>1. Return(c) /\ bound' = bound
        BY <1>1, <1>5, <2>3 DEF Bind
      <3> QED BY <1>1, <1>2, <2>1, <3>1, CallMoves, MoveIsSound
    <2> QED BY <2>2, <2>3
  <1>6. ASSUME BeginClaim(c)
        PROVE  StoreInv'
    <2>1. UNCHANGED <<plan, row, bound, dispatched>> /\ call[c].step = "claim"
      BY <1>6 DEF BeginClaim
    <2> DEFINE r == [call[c] EXCEPT !.step = "bootstrap", !.then = "decide"]
    <2>2. /\ \A d \in Callers \ {c} : call'[d] = call[d]
          /\ call'[c] = r
      BY <1>1, <1>6 DEF BeginClaim, TypeOK
    <2>3. r.step = "bootstrap" /\ r.action = a
      BY <1>1 DEF Calls
    <2> HIDE DEF r
    <2>4. CallSound(c)'
      BY <1>1, <2>1, <2>2, <2>3 DEF CallSound, KnowsRow, Seeing, Binding
    <2> QED BY <1>2, <2>1, <2>2, <2>3, <2>4, MoveIsSound
  <1>7. ASSUME DecideClaim(c)
        PROVE  StoreInv'
    <2>1. a \in Actions /\ UNCHANGED <<plan, bound, dispatched>> /\ bound[a]
          /\ call[c].step = "decide"
      BY <1>1, <1>7 DEF DecideClaim, CallSound, Binding
    <2>2. CASE MayClaim(a, call[c].timely)
      <3>1. /\ Commit(a, row[a], "EXECUTING", row[a].job, "execution_started")
            /\ call' = [call EXCEPT ![c].step = "dispatch", ![c].seen = row'[a]]
        BY <1>1, <1>7, <2>2 DEF DecideClaim
      <3>2. row[a].status = "PREPARED" /\ plan[a] \in Ready /\ ~ Started(a)
        BY <2>2 DEF MayClaim, Started
      <3>3. /\ row'[a] = [revision |-> row[a].revision + 1, status |-> "EXECUTING",
                          job |-> row[a].job]
            /\ \A b \in Actions \ {a} : row'[b] = row[b]
        BY <1>1, <2>1, <3>1, <3>2, CommitMoves DEF Rows, Status, EventNames
      <3> DEFINE r == [call[c] EXCEPT !.step = "dispatch", !.seen = row'[a]]
      <3>4. /\ \A d \in Callers \ {c} : call'[d] = call[d]
            /\ call'[c] = r
        BY <1>1, <3>1 DEF TypeOK
      <3>5. r.step = "dispatch" /\ r.action = a /\ r.seen = row'[a]
        BY <1>1 DEF Calls
      <3> HIDE DEF r
      <3>6. row'[a].status = "EXECUTING" /\ row'[a].revision \in Nat
        BY <1>1, <2>1, <3>3 DEF Rows
      <3>7. dispatched[a] = 0
        BY <2>1, <3>2 DEF StoreInv, RowSound
      <3>8. CallSound(c)'
        BY <2>1, <3>4, <3>5, <3>6, <3>7 DEF CallSound, KnowsRow, Started
      <3>9. Moves(c) /\ \A b \in Actions : Started(b)' => Started(b) \/ plan[b] \in Ready
        BY <1>3, <2>1, <3>2, <3>3, <3>4 DEF Status
      <3>10. \A d \in Callers \ {c} : ~ (call[d].step = "dispatch" /\ call[d].action = a)
        BY <3>2 DEF StoreInv, CallSound, KnowsRow, Seeing
      <3> QED BY <2>1, <3>4, <3>5, <3>8, <3>9, <3>10, MoveIsSound
    <2>3. CASE ~ MayClaim(a, call[c].timely)
      <3>1. Return(c) /\ UNCHANGED <<row, events>>
        BY <1>1, <1>7, <2>3 DEF DecideClaim
      <3> QED BY <1>1, <1>2, <2>1, <3>1, CallMoves, MoveIsSound
    <2> QED BY <2>2, <2>3
  <1>8. ASSUME Answer(c)
        PROVE  StoreInv'
    <2>1. PICK o \in Outcomes :
            /\ o.verified => o.job # NoJob
            /\ call' = [call EXCEPT ![c].step = "finish", ![c].outcome = o]
      BY <1>8 DEF Answer
    <2>2. UNCHANGED <<plan, row, bound, dispatched>> /\ call[c].step = "answer"
      BY <1>8 DEF Answer
    <2> DEFINE r == [call[c] EXCEPT !.step = "finish", !.outcome = o]
    <2>3. /\ \A d \in Callers \ {c} : call'[d] = call[d]
          /\ call'[c] = r
      BY <1>1, <2>1 DEF TypeOK
    <2>4. r.step = "finish" /\ r.action = a /\ r.seen = call[c].seen /\ r.outcome = o
      BY <1>1 DEF Calls
    <2> HIDE DEF r
    <2>5. CallSound(c)'
      BY <1>1, <2>1, <2>2, <2>3, <2>4
         DEF CallSound, KnowsRow, Seeing, Binding, Started
    <2> QED BY <1>2, <2>2, <2>3, <2>4, <2>5, MoveIsSound
  <1>9. ASSUME a \in Actions, Return(c), UNCHANGED <<plan, bound, dispatched>>,
               call[c].step \in Seeing, CanCommit(a, call[c].seen, call[c].seen.status),
               NEW s \in {"RECONCILE_REQUIRED", "VERIFIED"}, NEW j \in Jobs \cup {NoJob},
               NEW e \in EventNames, Commit(a, call[c].seen, s, j, e)
        PROVE  StoreInv'
    <2>1. call[c].seen \in Rows /\ call[c].seen.revision = row[a].revision /\ Started(a)
      BY <1>1, <1>9 DEF Calls, CanCommit, CallSound, KnowsRow
    <2>2. /\ row'[a] = [revision |-> row[a].revision + 1, status |-> s, job |-> j]
          /\ \A b \in Actions \ {a} : row'[b] = row[b]
          /\ Started(a)'
      <3>1. s \in Status /\ s \in {"EXECUTING", "RECONCILE_REQUIRED", "VERIFIED"}
        BY <1>9 DEF Status
      <3> QED BY <1>1, <1>9, <2>1, <3>1, CommitMoves
    <2>3. /\ \A d \in Callers \ {c} : call'[d] = call[d]
          /\ CallSound(c)' /\ call'[c].step = "idle"
      BY <1>1, <1>9, CallMoves
    <2>4. Moves(c) /\ \A b \in Actions : Started(b)' => Started(b) \/ plan[b] \in Ready
      BY <1>3, <1>9, <2>1, <2>2, <2>3 DEF Status
    <2> QED BY <1>9, <2>3, <2>4, MoveIsSound
  <1>10. ASSUME Return(c), UNCHANGED <<plan, row, bound, dispatched>>
         PROVE  StoreInv'
    BY <1>1, <1>2, <1>10, CallMoves, MoveIsSound
  <1>11. ASSUME Finish(c)
         PROVE  StoreInv'
    <2>1. a \in Actions /\ Return(c) /\ UNCHANGED <<plan, bound, dispatched>>
          /\ call[c].step \in Seeing
      BY <1>1, <1>11 DEF Finish, Seeing
    <2>2. Resolved(c) \in Jobs \cup {NoJob}
      BY <1>1 DEF Resolved, Calls, Rows, Outcomes
    <2>3. CASE MayFinish(c)
      <3>1. PICK s \in {"RECONCILE_REQUIRED", "VERIFIED"}, e \in EventNames :
              Commit(a, call[c].seen, s, Resolved(c), e)
        BY <1>1, <1>11, <2>3 DEF Finish, EventNames
      <3>2. CanCommit(a, call[c].seen, call[c].seen.status)
        BY <1>1, <2>3 DEF MayFinish
      <3> QED BY <1>9, <2>1, <2>2, <3>1, <3>2
    <2>4. CASE ~ MayFinish(c)
      BY <1>10, <1>11, <2>1, <2>4 DEF Finish
    <2> QED BY <2>3, <2>4
  <1>12. ASSUME Interrupt(c)
         PROVE  StoreInv'
    <2>1. a \in Actions /\ Return(c) /\ UNCHANGED <<plan, bound, dispatched>>
          /\ call[c].step \in Seeing /\ call[c].seen \in Rows
      BY <1>1, <1>12 DEF Interrupt, Seeing, Calls
    <2>2. CASE CanCommit(a, call[c].seen, "EXECUTING")
      <3>1. Commit(a, call[c].seen, "RECONCILE_REQUIRED", call[c].seen.job,
                   "execution_interrupted_by_restart")
        BY <1>1, <1>12, <2>2 DEF Interrupt
      <3>2. CanCommit(a, call[c].seen, call[c].seen.status)
        BY <1>1, <2>1, <2>2 DEF CanCommit, CallSound, KnowsRow
      <3>3. call[c].seen.job \in Jobs \cup {NoJob}
        BY <2>1 DEF Rows
      <3> QED BY <1>9, <2>1, <3>1, <3>2, <3>3 DEF EventNames
    <2>3. CASE ~ CanCommit(a, call[c].seen, "EXECUTING")
      BY <1>1, <1>10, <1>12, <2>1, <2>3 DEF Interrupt
    <2> QED BY <2>2, <2>3
  <1>13. ASSUME Crash(c)
         PROVE  StoreInv'
    BY <1>10, <1>13 DEF Crash
  <1> QED BY <1>4, <1>5, <1>6, <1>7, <1>8, <1>11, <1>12, <1>13

(* The provider call: its caller is the only one that could make it. *)
LEMMA DispatchIsSound ==
  ASSUME StoreInv, TypeOK', NEW c \in Callers, Dispatch(c)
  PROVE  StoreInv'
  <1>1. PICK a \in Actions : a = call[c].action
    BY DEF StoreInv, TypeOK, Dispatch
  <1>2. PICK made \in {0, 1} : dispatched' = [dispatched EXCEPT ![a] = @ + made]
    BY <1>1 DEF Dispatch
  <1>3. /\ call[c].step = "dispatch" /\ Goto(c, "answer")
        /\ UNCHANGED <<plan, bound, row, events, lock, expired>>
        /\ CallSound(c) /\ RowSound(a) /\ TypeOK
    BY <1>1 DEF Dispatch, StoreInv
  <1>4. dispatched[a] = 0 /\ Started(a) /\ bound[a]
    BY <1>1, <1>3 DEF CallSound, KnowsRow, Seeing, Binding
  <1>5. /\ dispatched'[a] \in {0, 1}
        /\ \A b \in Actions \ {a} : dispatched'[b] = dispatched[b]
    BY <1>2, <1>3, <1>4 DEF TypeOK
  <1>6. /\ \A d \in Callers \ {c} : call'[d] = call[d]
        /\ call'[c].step = "answer" /\ call'[c].action = a /\ call'[c].seen = call[c].seen
    BY <1>1, <1>3, CallMoves DEF Steps
  <1>7. Moves(c)
    BY <1>3, <1>6 DEF Moves, Started
  <1>9. CallSound(c)'
    BY <1>1, <1>3, <1>4, <1>6 DEF CallSound, KnowsRow, Seeing, Started
  <1>10. ASSUME NEW d \in Callers, d # c
         PROVE  CallSound(d)'
    <2>1. call[d].step = "dispatch" => call[d].action \in Actions \ {a}
      BY <1>3, <1>1, <1>10 DEF TypeOK, StoreInv, OneDispatcher
    <2> QED BY <1>5, <1>7, <1>10, <2>1, OthersKnow
  <1>11. ASSUME NEW b \in Actions
         PROVE  RowSound(b)'
    BY <1>3, <1>4, <1>5 DEF StoreInv, RowSound, Started
  <1> QED BY <1>9, <1>10, <1>11, <1>6 DEF StoreInv, OneDispatcher, CallSound

(* A caller that begins sees the row as it is, and may not dispatch yet. *)
LEMMA BeginIsSound ==
  ASSUME StoreInv, TypeOK', NEW c \in Callers, NEW a \in Actions, Begin(c, a)
  PROVE  StoreInv'
  <1>1. /\ UNCHANGED <<bound, row, events, expired, dispatched>>
        /\ \A b \in Actions : plan[b] # NoPlan => plan'[b] = plan[b]
    BY DEF Begin, SavePlan, Snapshot, BeginExecute, BeginReconcile, BeginInterrupt,
           StoreInv, TypeOK
  <1>2. PICK s \in {"bootstrap", "bind", "answer", "interrupt"}, t \in BOOLEAN,
             seen \in {NoRow, row[a]} :
          /\ call' = [call EXCEPT ![c] = Began(s, a, t, seen)]
          /\ s \in {"answer", "interrupt"} =>
               seen = row[a] /\ row[a].status \in {"EXECUTING", "RECONCILE_REQUIRED"}
          /\ s = "answer" => bound[a]
    <2>1. CASE (\E d \in Digests : SavePlan(c, a, d)) \/ Snapshot(c, a)
      BY <2>1 DEF SavePlan, Snapshot
    <2>2. CASE BeginExecute(c, a)
      BY <2>2 DEF BeginExecute
    <2>3. CASE BeginReconcile(c, a)
      BY <2>3 DEF BeginReconcile
    <2>4. CASE BeginInterrupt(c, a)
      BY <2>4 DEF BeginInterrupt
    <2> QED BY <2>1, <2>2, <2>3, <2>4 DEF Begin
  <1>3. /\ \A d \in Callers \ {c} : call'[d] = call[d]
        /\ call'[c].step = s /\ call'[c].action = a /\ call'[c].seen = seen
        /\ call'[c].then = "idle"
    BY <1>2 DEF StoreInv, TypeOK, Began
  <1>5. Moves(c) /\ \A b \in Actions : Started(b)' => Started(b)
    BY <1>1, <1>3, StoreAssumption DEF Moves, Started
  <1>6. row[a].revision \in Nat
    BY DEF StoreInv, TypeOK, Rows
  <1>7. CallSound(c)'
    BY <1>1, <1>2, <1>3, <1>6 DEF CallSound, KnowsRow, Seeing, Binding, Started
  <1> QED BY <1>1, <1>2, <1>3, <1>5, <1>7, MoveIsSound

(* The invariant holds of the empty store. *)
LEMMA InitIsSound == Init => StoreInv
  <1> SUFFICES ASSUME Init
               PROVE  StoreInv
    OBVIOUS
  <1>1. TypeOK
    BY IdleType, StoreAssumption DEF Init, TypeOK, Rows, NoRow
  <1>2. \A a \in Actions : RowSound(a)
    BY DEF Init, RowSound, Started, NoRow
  <1>3. \A c \in Callers : CallSound(c) /\ call[c].step = "idle"
    BY IdleType DEF Init, CallSound, KnowsRow, Seeing, Binding
  <1> QED BY <1>1, <1>2, <1>3 DEF StoreInv, OneDispatcher

(* Every step of a caller, and every expiry, keeps it. *)
LEMMA NextIsSound == StoreInv /\ [Next]_vars => StoreInv'
  <1> SUFFICES ASSUME StoreInv, [Next]_vars
               PROVE  StoreInv'
    OBVIOUS
  <1>1. TypeOK'
    BY NextType DEF StoreInv
  <1>2. ASSUME NEW c \in Callers, Work(c) \/ Crash(c)
        PROVE  StoreInv'
    BY <1>1, <1>2, WorkIsSound, DispatchIsSound DEF Work
  <1>3. ASSUME NEW c \in Callers, NEW a \in Actions, Begin(c, a)
        PROVE  StoreInv'
    BY <1>1, <1>3, BeginIsSound
  <1>4. ASSUME UNCHANGED <<plan, bound, row, call, dispatched>>
        PROVE  StoreInv'
    BY <1>1, <1>4 DEF StoreInv, RowSound, CallSound, KnowsRow, OneDispatcher, Started
  <1> QED BY <1>2, <1>3, <1>4 DEF Next, Expire, vars

(* However many callers race, crash, retry and recover: an Action has one
   dispatcher and one provider call, behind a durable claim and request. *)
THEOREM OneCallPerAction == Spec => [](OneCall /\ OneDispatcher)
  <1>1. StoreInv => OneCall /\ OneDispatcher
    BY DEF StoreInv, RowSound, OneCall
  <1> QED BY <1>1, InitIsSound, NextIsSound, PTL DEF Spec

------------
(* What one step makes of the rows: nothing, or it admits an Action, or
   claims it, or records what was learnt of its call. *)
Rewrites(a, s, j) ==
    row' = [row EXCEPT ![a] = [revision |-> row[a].revision + 1, status |-> s, job |-> j]]

Admits(a) ==
    /\ row[a] = NoRow
    /\ Rewrites(a, "PREPARED", NoJob) \/ Rewrites(a, "BLOCKED", NoJob)

Claims(a) ==
    row[a].status = "PREPARED" /\ Rewrites(a, "EXECUTING", row[a].job)

Learns(a) ==
    /\ row[a].status \in {"EXECUTING", "RECONCILE_REQUIRED"}
    /\ \E s \in {"RECONCILE_REQUIRED", "VERIFIED"}, j \in Jobs \cup {NoJob} :
         /\ Rewrites(a, s, j)
         /\ row[a].job # NoJob => j = row[a].job
         /\ s = "VERIFIED" => j # NoJob

RowMoves ==
    \/ row' = row
    \/ \E a \in Actions : Admits(a) \/ Claims(a) \/ Learns(a)

CallMade ==
    /\ row' = row
    /\ \E a \in Actions :
         /\ Started(a) /\ dispatched[a] = 0
         /\ dispatched' = [dispatched EXCEPT ![a] = 1]

(* What is committed after a claim is what was learnt of its call. *)
LEMMA Learning ==
  ASSUME StoreInv, NEW c \in Callers, Finish(c) \/ Interrupt(c)
  PROVE  RowMoves /\ UNCHANGED <<plan, dispatched>>
  <1>1. PICK a \in Actions : a = call[c].action
    BY DEF StoreInv, TypeOK, Finish, Interrupt
  <1>2. /\ CallSound(c) /\ call[c].seen \in Rows /\ call[c].outcome \in Outcomes
        /\ row \in [Actions -> Rows]
    BY DEF StoreInv, TypeOK, Calls
  <1>3. call[c].step \in Seeing
    BY DEF Finish, Interrupt, Seeing
  <1>4. ASSUME CanCommit(a, call[c].seen, call[c].seen.status),
               NEW s \in {"RECONCILE_REQUIRED", "VERIFIED"}, NEW j \in Jobs \cup {NoJob},
               NEW e \in EventNames, Commit(a, call[c].seen, s, j, e),
               call[c].seen.job # NoJob => j = call[c].seen.job,
               s = "VERIFIED" => j # NoJob
        PROVE  RowMoves
    <2>1. call[c].seen = row[a] /\ row[a].status \in {"EXECUTING", "RECONCILE_REQUIRED"}
      BY <1>1, <1>2, <1>3, <1>4 DEF CanCommit, CallSound, KnowsRow
    <2>3. Learns(a) BY <1>4, <2>1 DEF Learns, Commit, Rewrites
    <2> QED BY <2>3 DEF RowMoves
  <1>5. ASSUME Finish(c)
        PROVE  RowMoves
    <2>1. CASE MayFinish(c)
      <3>1. PICK e \in EventNames :
              Commit(a, call[c].seen,
                     IF call[c].outcome.verified THEN "VERIFIED" ELSE "RECONCILE_REQUIRED",
                     Resolved(c), e)
        BY <1>1, <1>5, <2>1 DEF Finish, EventNames
      <3>3. /\ Resolved(c) \in Jobs \cup {NoJob}
            /\ call[c].outcome.verified => Resolved(c) # NoJob
        BY <1>2, <1>5 DEF Resolved, Rows, Outcomes, CallSound, Finish
      <3> QED BY <1>4, <3>1, <1>1, <2>1, <3>3 DEF MayFinish
    <2>2. CASE ~ MayFinish(c)
      BY <1>5, <2>2 DEF Finish, RowMoves
    <2> QED BY <2>1, <2>2
  <1>6. ASSUME Interrupt(c)
        PROVE  RowMoves
    <2>1. CASE CanCommit(a, call[c].seen, "EXECUTING")
      <3>1. Commit(a, call[c].seen, "RECONCILE_REQUIRED", call[c].seen.job,
                   "execution_interrupted_by_restart")
        BY <1>1, <1>6, <2>1 DEF Interrupt
      <3>2. CanCommit(a, call[c].seen, call[c].seen.status)
        BY <1>1, <1>2, <1>3, <2>1 DEF CanCommit, CallSound, KnowsRow
      <3> QED BY <1>4, <3>1, <3>2, <1>2 DEF EventNames, Rows
    <2>2. CASE ~ CanCommit(a, call[c].seen, "EXECUTING")
      BY <1>1, <1>6, <2>2 DEF Interrupt, RowMoves
    <2> QED BY <2>1, <2>2
  <1> QED BY <1>5, <1>6 DEF Finish, Interrupt

(* Every step moves the rows so, and makes at most one first call. *)
LEMMA StepMoves ==
  ASSUME StoreInv, [Next]_vars
  PROVE  /\ CallMade \/ (RowMoves /\ dispatched' = dispatched)
         /\ \A a \in Actions : plan[a] # NoPlan => plan'[a] = plan[a]
  <1>1. TypeOK
    BY DEF StoreInv
  <1>2. ASSUME NEW c \in Callers, Bootstrap(c)
        PROVE  RowMoves /\ UNCHANGED <<plan, dispatched>>
    <2>1. PICK a \in Actions : a = call[c].action
      BY <1>1, <1>2 DEF TypeOK, Bootstrap
    <2>2. CASE row[a] = NoRow
      <3>1. Commit(a, NoRow, InitialStatus(a), NoJob, "action_prepared")
        BY <1>2, <2>1, <2>2 DEF Bootstrap
      <3>2. Admits(a)
        BY <2>2, <3>1 DEF Commit, Admits, Rewrites, InitialStatus
      <3> QED BY <1>2, <3>2 DEF RowMoves, Bootstrap
    <2>3. CASE row[a] # NoRow
      BY <1>2, <2>1, <2>3 DEF Bootstrap, RowMoves
    <2> QED BY <2>2, <2>3
  <1>3. ASSUME NEW c \in Callers, DecideClaim(c)
        PROVE  RowMoves /\ UNCHANGED <<plan, dispatched>>
    <2>1. PICK a \in Actions : a = call[c].action
      BY <1>1, <1>3 DEF TypeOK, DecideClaim
    <2>2. CASE MayClaim(a, call[c].timely)
      <3>1. Commit(a, row[a], "EXECUTING", row[a].job, "execution_started")
        BY <1>3, <2>1, <2>2 DEF DecideClaim
      <3>2. Claims(a)
        BY <2>2, <3>1 DEF Commit, Claims, Rewrites, MayClaim
      <3> QED BY <1>3, <3>2 DEF RowMoves, DecideClaim
    <2>3. CASE ~ MayClaim(a, call[c].timely)
      BY <1>3, <2>1, <2>3 DEF DecideClaim, RowMoves
    <2> QED BY <2>2, <2>3
  <1>4. ASSUME NEW c \in Callers, Dispatch(c)
        PROVE  /\ CallMade \/ (RowMoves /\ dispatched' = dispatched)
               /\ plan' = plan
    <2>1. PICK a \in Actions : a = call[c].action
      BY <1>1, <1>4 DEF TypeOK, Dispatch
    <2>2. dispatched[a] = 0 /\ Started(a)
      BY <1>4, <2>1 DEF Dispatch, StoreInv, CallSound, KnowsRow, Seeing
    <2>3. PICK made \in {0, 1} : dispatched' = [dispatched EXCEPT ![a] = @ + made]
      BY <1>4, <2>1 DEF Dispatch
    <2>4. CASE made = 0
      <3>1. dispatched' = dispatched
        BY <1>1, <2>2, <2>3, <2>4 DEF TypeOK
      <3> QED BY <1>4, <3>1 DEF Dispatch, RowMoves
    <2>5. CASE made = 1
      <3>1. dispatched' = [dispatched EXCEPT ![a] = 1]
        BY <2>2, <2>3, <2>5
      <3> QED BY <1>4, <2>2, <3>1 DEF CallMade, Dispatch
    <2> QED BY <2>4, <2>5
  <1>5. ASSUME NEW c \in Callers, Bind(c) \/ BeginClaim(c) \/ Answer(c) \/ Crash(c)
        PROVE  UNCHANGED <<plan, row, dispatched>>
    BY <1>5 DEF Bind, BeginClaim, Answer, Crash
  <1>6. ASSUME NEW c \in Callers, NEW a \in Actions, Begin(c, a)
        PROVE  /\ UNCHANGED <<row, dispatched>>
               /\ \A b \in Actions : plan[b] # NoPlan => plan'[b] = plan[b]
    BY <1>1, <1>6 DEF Begin, SavePlan, Snapshot, BeginExecute, BeginReconcile,
                      BeginInterrupt, TypeOK
  <1>7. (\E a \in Actions : Expire(a)) \/ UNCHANGED vars => UNCHANGED <<plan, row, dispatched>>
    BY DEF Expire, vars
  <1> QED BY <1>2, <1>3, <1>4, <1>5, <1>6, <1>7, Learning DEF Next, Work, RowMoves

(* VERIFIED is final, a known job stays known, a published plan stays. *)
THEOREM NothingIsTakenBack == Spec => NeverTakenBack
  <1>1. ASSUME StoreInv, [Next]_vars, NEW a \in Actions
        PROVE  /\ row[a].status = "VERIFIED" => row'[a] = row[a]
               /\ row[a].job # NoJob => row'[a].job = row[a].job
               /\ plan[a] # NoPlan => plan'[a] = plan[a]
    <2>2. row \in [Actions -> Rows]
      BY <1>1 DEF StoreInv, TypeOK
    <2>3. ASSUME NEW b \in Actions, Admits(b) \/ Claims(b) \/ Learns(b)
          PROVE  /\ row[a].status = "VERIFIED" => row'[a] = row[a]
                 /\ row[a].job # NoJob => row'[a].job = row[a].job
      BY <2>2, <2>3 DEF Admits, Claims, Learns, Rewrites, NoRow
    <2> QED BY <1>1, StepMoves, <2>3 DEF RowMoves, CallMade
  <1>2. StoreInv /\ [Next]_vars =>
          [\A a \in Actions :
             /\ row[a].status = "VERIFIED" => row'[a] = row[a]
             /\ row[a].job # NoJob => row'[a].job = row[a].job
             /\ plan[a] # NoPlan => plan'[a] = plan[a]]_vars
    BY <1>1
  <1> QED BY <1>2, InitIsSound, NextIsSound, PTL DEF Spec, NeverTakenBack

------------
(* A row that is rewritten changes status and job of its Action alone. *)
LEMMA Rewritten ==
  ASSUME row \in [Actions -> Rows], NEW a \in Actions, NEW s, NEW j, Rewrites(a, s, j)
  PROVE  /\ [b \in Actions |-> row'[b].status]
              = [[b \in Actions |-> row[b].status] EXCEPT ![a] = s]
         /\ [b \in Actions |-> row'[b].job]
              = [[b \in Actions |-> row[b].job] EXCEPT ![a] = j]
  BY DEF Rewrites

(* The store implements the life cycle: whatever files, locks, revisions
   and callers do, a client sees admission, claim, one call and learning. *)
THEOREM StoreImplementsLifecycle == Spec => ImplementsLifecycle
  <1>1. Init => Lifecycle!Init
    <2> SUFFICES ASSUME Init
                 PROVE  Lifecycle!Init
      OBVIOUS
    <2>2. {a \in Actions : dispatched[a] > 0} = {}
      BY DEF Init
    <2> QED BY <2>2 DEF Lifecycle!Init, Lifecycle!Absent, Init, NoRow
  <1>2. ASSUME StoreInv, [Next]_vars
        PROVE  [Lifecycle!Next]_Lifecycle!vars
    <2>1. row \in [Actions -> Rows] /\ dispatched \in [Actions -> Nat]
      BY <1>2 DEF StoreInv, TypeOK
    <2>2. CASE row' = row /\ dispatched' = dispatched
      BY <2>2 DEF Lifecycle!vars
    <2>3. CASE CallMade
      <3>1. PICK a \in Actions :
              /\ row' = row /\ Started(a) /\ dispatched[a] = 0
              /\ dispatched' = [dispatched EXCEPT ![a] = 1]
        BY <2>3 DEF CallMade
      <3>3. a \notin {b \in Actions : dispatched[b] > 0}
        BY <3>1
      <3>4. Lifecycle!Dispatch(a) BY <3>1, <2>1, <3>3 DEF Lifecycle!Dispatch, Lifecycle!Claimed, Started
      <3> QED BY <3>4 DEF Lifecycle!Next
    <2>4. ASSUME NEW a \in Actions, Admits(a), dispatched' = dispatched
          PROVE  Lifecycle!Admit(a)
      <3>1. row[a].status = "ABSENT" /\ row[a].job = NoJob
        BY <2>4 DEF Admits, NoRow
      <3>2. PICK s \in {"PREPARED", "BLOCKED"} : Rewrites(a, s, NoJob)
        BY <2>4 DEF Admits
      <3>3. [b \in Actions |-> row'[b].job] = [b \in Actions |-> row[b].job]
        <4> QED BY <2>1, <3>1, <3>2 DEF Rewrites
      <3> QED BY <2>1, <2>4, <3>1, <3>2, <3>3, Rewritten DEF Lifecycle!Admit, Lifecycle!Absent
    <2>5. ASSUME NEW a \in Actions, Claims(a), dispatched' = dispatched
          PROVE  Lifecycle!Claim(a)
      <3>1. row[a].status = "PREPARED" /\ Rewrites(a, "EXECUTING", row[a].job)
        BY <2>5 DEF Claims
      <3>2. [b \in Actions |-> row'[b].job] = [b \in Actions |-> row[b].job]
        <4> QED BY <2>1, <3>1 DEF Rewrites
      <3> QED BY <2>1, <2>5, <3>1, <3>2, Rewritten DEF Lifecycle!Claim
    <2>6. ASSUME NEW a \in Actions, Learns(a), dispatched' = dispatched
          PROVE  Lifecycle!Learn(a)
      <3>2. PICK s \in {"RECONCILE_REQUIRED", "VERIFIED"}, j \in Jobs \cup {NoJob} :
              Rewrites(a, s, j) /\ (row[a].job # NoJob => j = row[a].job) /\ (s = "VERIFIED" => j # NoJob)
        BY <2>6 DEF Learns
      <3>3. /\ [b \in Actions |-> row'[b].status] = [[b \in Actions |-> row[b].status] EXCEPT ![a] = s]
            /\ [b \in Actions |-> row'[b].job] = [[b \in Actions |-> row[b].job] EXCEPT ![a] = j]
        BY <2>1, <3>2, Rewritten
      <3>4. [b \in Actions |-> row[b].status][a] = row[a].status /\ [b \in Actions |-> row[b].job][a] = row[a].job
        OBVIOUS
      <3> QED BY <2>6, <3>2, <3>3, <3>4 DEF Lifecycle!Learn, Lifecycle!Claimed, Learns
    <2> QED BY <1>2, <2>2, <2>3, <2>4, <2>5, <2>6, StepMoves DEF RowMoves, Lifecycle!Next
  <1> QED BY <1>1, <1>2, InitIsSound, NextIsSound, PTL
          DEF Spec, ImplementsLifecycle, Lifecycle!Spec

------------
(* The audit events of one Action explain one row. *)
Explains(es, r) ==
    /\ Len(es) = r.revision
    /\ \A i \in 1..Len(es) :
         /\ es[i].event = "action_prepared" <=> i = 1
         /\ i > 1 => Follows(es[i - 1], es[i])
    /\ r.revision > 0 =>
         es[Len(es)] = [revision |-> r.revision, event |-> es[Len(es)].event,
                        status |-> r.status, job |-> r.job]

\* An event that may be recorded over a row.
Recordable(r, j, e) ==
    \/ e = "action_prepared" /\ r = NoRow
    \/ /\ e # "action_prepared" /\ r # NoRow /\ (r.job # NoJob => j = r.job)
       /\ \/ r.status = "PREPARED" /\ e = "execution_started"
          \/ r.status = "EXECUTING" /\ e \in {"execution_interrupted_by_restart",
                                              "submission_verified", "submission_uncertain"}
          \/ r.status = "RECONCILE_REQUIRED" /\ e \in {"submission_verified",
                                                       "submission_uncertain"}

Records(a) ==
    \E s \in Status, j \in Jobs \cup {NoJob}, e \in EventNames :
        Recordable(row[a], j, e) /\ Commit(a, row[a], s, j, e)

AuditInv ==
    /\ StoreInv
    /\ \A a \in Actions : Explains(events[a], row[a])
    /\ \A a \in Actions : row[a].revision = 0 => row[a] = NoRow

(* An event appended to a trail that explains the row explains the next. *)
LEMMA AppendExplains ==
  ASSUME NEW es \in Seq(Events), NEW r \in Rows, Explains(es, r), r.revision = 0 => r = NoRow,
         NEW s \in Status, NEW j \in Jobs \cup {NoJob}, NEW e \in EventNames,
         Recordable(r, j, e)
  PROVE  Explains(Append(es, [revision |-> r.revision + 1, event |-> e, status |-> s, job |-> j]),
                  [revision |-> r.revision + 1, status |-> s, job |-> j])
  <1> DEFINE f == [revision |-> r.revision + 1, event |-> e, status |-> s, job |-> j]
             fs == Append(es, f)
             n == Len(es)
  <1>1. r.revision \in Nat /\ n = r.revision /\ n \in Nat
    BY DEF Rows, Explains
  <1>3. Len(fs) = n + 1 /\ fs[n + 1] = f /\ \A i \in 1..n : fs[i] = es[i] BY <1>1 DEF Events
  <1>4. (e = "action_prepared") <=> (n = 0)
    <2> QED BY <1>1 DEF Recordable, NoRow
  <1>5. n > 0 => Follows(es[n], f)
    <2> SUFFICES ASSUME n > 0 PROVE Follows(es[n], f)
      OBVIOUS
    <2>2. f.revision = n + 1 /\ f.event = e /\ f.job = j
      BY <1>1
    <2>3. r # NoRow
      BY <1>1 DEF NoRow
    <2> HIDE DEF f
    <2> QED BY <1>1, <2>2, <2>3 DEF Follows, Recordable, Explains
  <1>6. ASSUME NEW i \in 1..(n + 1)
        PROVE  /\ fs[i].event = "action_prepared" <=> i = 1
               /\ i > 1 => Follows(fs[i - 1], fs[i])
    <2>1. CASE i = n + 1
      <3>1. fs[i] = f /\ f.event = e
        BY <1>3, <2>1
      <3>2. i > 1 => fs[i - 1] = es[n] /\ n > 0
        BY <1>1, <1>3, <2>1
      <3> HIDE DEF f, fs
      <3> QED BY <1>1, <1>4, <1>5, <2>1, <3>1, <3>2
    <2>2. CASE i \in 1..n
      <3>1. fs[i] = es[i] /\ (i > 1 => fs[i - 1] = es[i - 1])
        BY <1>1, <1>3, <2>2
      <3> HIDE DEF fs
      <3> QED BY <1>1, <2>2, <3>1 DEF Explains
    <2> QED BY <1>1, <2>1, <2>2
  <1> HIDE DEF fs
  <1> QED BY <1>1, <1>3, <1>6 DEF Explains, fs

(* A record over the row of an Action keeps every trail explained. *)
LEMMA RecordExplains ==
  ASSUME AuditInv, NEW a \in Actions, Records(a)
  PROVE  /\ \A b \in Actions : Explains(events'[b], row'[b])
         /\ \A b \in Actions : row'[b].revision = 0 => row'[b] = NoRow
  <1>1. PICK s \in Status, j \in Jobs \cup {NoJob}, e \in EventNames :
          Recordable(row[a], j, e) /\ Commit(a, row[a], s, j, e)
    BY DEF Records
  <1>2. row \in [Actions -> Rows] /\ events \in [Actions -> Seq(Events)]
    BY DEF AuditInv, StoreInv, TypeOK
  <1>3. /\ row'[a] = [revision |-> row[a].revision + 1, status |-> s, job |-> j]
        /\ events'[a] = Append(events[a], [revision |-> row[a].revision + 1, event |-> e,
                                           status |-> s, job |-> j])
        /\ \A b \in Actions \ {a} : row'[b] = row[b] /\ events'[b] = events[b]
    BY <1>1, <1>2 DEF Commit
  <1>5. Explains(events'[a], row'[a]) BY <1>1, <1>2, <1>3, AppendExplains DEF AuditInv
  <1>6. row'[a].revision # 0
    BY <1>2, <1>3 DEF Rows
  <1> QED BY <1>3, <1>5, <1>6 DEF AuditInv

(* Every step records at most one event, over the row as it is. *)
LEMMA StepRecords ==
  ASSUME AuditInv, [Next]_vars
  PROVE  UNCHANGED <<row, events>> \/ \E a \in Actions : Records(a)
  <1>0. TypeOK /\ StoreInv
    BY DEF AuditInv, StoreInv
  <1>1. ASSUME NEW c \in Callers, Bootstrap(c)
        PROVE  UNCHANGED <<row, events>> \/ \E a \in Actions : Records(a)
    <2>1. PICK a \in Actions : a = call[c].action
      BY <1>0, <1>1 DEF TypeOK, Bootstrap
    <2>2. CASE row[a] = NoRow
      <3>2. Recordable(row[a], NoJob, "action_prepared")
        BY <2>2 DEF Recordable
      <3>3. InitialStatus(a) \in Status /\ "action_prepared" \in EventNames
        BY DEF InitialStatus, Status, EventNames
      <3> QED BY <1>1, <2>1, <2>2, <3>2, <3>3 DEF Records, Bootstrap
    <2>3. CASE row[a] # NoRow
      BY <1>1, <2>1, <2>3 DEF Bootstrap
    <2> QED BY <2>2, <2>3
  <1>2. ASSUME NEW c \in Callers, DecideClaim(c)
        PROVE  UNCHANGED <<row, events>> \/ \E a \in Actions : Records(a)
    <2>1. PICK a \in Actions : a = call[c].action
      BY <1>0, <1>2 DEF TypeOK, DecideClaim
    <2>2. CASE MayClaim(a, call[c].timely)
      <3>1. Commit(a, row[a], "EXECUTING", row[a].job, "execution_started")
        BY <1>2, <2>1, <2>2 DEF DecideClaim
      <3>2. Recordable(row[a], row[a].job, "execution_started")
        BY <2>2 DEF Recordable, MayClaim, NoRow
      <3>3. row[a].job \in Jobs \cup {NoJob}
        BY <1>0 DEF TypeOK, Rows
      <3> QED BY <3>1, <3>2, <3>3 DEF Records, Status, EventNames
    <2>3. CASE ~ MayClaim(a, call[c].timely)
      BY <1>2, <2>1, <2>3 DEF DecideClaim
    <2> QED BY <2>2, <2>3
  <1>3. ASSUME NEW c \in Callers, call[c].step \in Seeing, NEW a \in Actions, a = call[c].action,
               CanCommit(a, call[c].seen, call[c].seen.status)
        PROVE  call[c].seen = row[a] /\ row[a] # NoRow
    <2> QED BY <1>3, <1>0 DEF CanCommit, KnowsRow, NoRow, StoreInv, CallSound
  <1>4. ASSUME NEW c \in Callers, Finish(c)
        PROVE  UNCHANGED <<row, events>> \/ \E a \in Actions : Records(a)
    <2>1. PICK a \in Actions : a = call[c].action
      BY <1>0, <1>4 DEF TypeOK, Finish
    <2>2. CASE MayFinish(c)
      <3>2. /\ CanCommit(a, call[c].seen, call[c].seen.status)
            /\ call[c].seen.job \in {NoJob, Resolved(c)}
            /\ call[c].seen.status \in {"EXECUTING", "RECONCILE_REQUIRED"}
        BY <2>1, <2>2 DEF MayFinish
      <3>3. call[c].seen = row[a] /\ row[a] # NoRow BY <1>3, <2>1, <1>4, <3>2 DEF Finish, Seeing
      <3>4. Resolved(c) \in Jobs \cup {NoJob}
        BY <1>0 DEF TypeOK, Calls, Resolved, Outcomes, Rows
      <3>5. PICK s \in {"VERIFIED", "RECONCILE_REQUIRED"},
                 e \in {"submission_verified", "submission_uncertain"} :
              Commit(a, row[a], s, Resolved(c), e)
        BY <1>4, <2>1, <2>2, <3>3 DEF Finish
      <3>6. Recordable(row[a], Resolved(c), e)
        BY <3>2, <3>3, <3>5 DEF Recordable
      <3> QED BY <3>4, <3>5, <3>6 DEF Records, Status, EventNames
    <2>3. CASE ~ MayFinish(c)
      BY <1>4, <2>3 DEF Finish
    <2> QED BY <2>2, <2>3
  <1>5. ASSUME NEW c \in Callers, Interrupt(c)
        PROVE  UNCHANGED <<row, events>> \/ \E a \in Actions : Records(a)
    <2>1. PICK a \in Actions : a = call[c].action
      BY <1>0, <1>5 DEF TypeOK, Interrupt
    <2>2. CASE CanCommit(a, call[c].seen, "EXECUTING")
      <3>1. call[c].step \in Seeing /\ KnowsRow(c)
        BY <1>0, <1>5 DEF Interrupt, Seeing, StoreInv, CallSound
      <3>2. call[c].seen = row[a] /\ row[a].status = "EXECUTING" /\ row[a] # NoRow
        BY <2>1, <2>2, <3>1 DEF CanCommit, KnowsRow, NoRow
      <3>3. Commit(a, row[a], "RECONCILE_REQUIRED", row[a].job, "execution_interrupted_by_restart")
        BY <1>5, <2>1, <2>2, <3>2 DEF Interrupt
      <3>5. row[a].job \in Jobs \cup {NoJob}
        BY <1>0 DEF TypeOK, Rows
      <3> QED BY <3>3, <3>2, <3>5 DEF Records, Status, EventNames, Recordable
    <2>3. CASE ~ CanCommit(a, call[c].seen, "EXECUTING")
      BY <1>5, <2>1, <2>3 DEF Interrupt
    <2> QED BY <2>2, <2>3
  <1>6. ASSUME NEW c \in Callers, Bind(c) \/ BeginClaim(c) \/ Answer(c) \/ Dispatch(c) \/ Crash(c)
        PROVE  UNCHANGED <<row, events>>
    BY <1>6 DEF Bind, BeginClaim, Answer, Dispatch, Crash
  <1>7. ASSUME NEW c \in Callers, NEW a \in Actions, Begin(c, a)
        PROVE  UNCHANGED <<row, events>>
    BY <1>7 DEF Begin, SavePlan, Snapshot, BeginExecute, BeginReconcile, BeginInterrupt
  <1>8. (\E a \in Actions : Expire(a)) \/ UNCHANGED vars => UNCHANGED <<row, events>>
    BY DEF Expire, vars
  <1> QED BY <1>1, <1>2, <1>4, <1>5, <1>6, <1>7, <1>8 DEF Next, Work

(* Whoever asks whichever audit trail at any moment finds one event per
   revision, each legally after the one before it and the last one the
   row itself; no two callers are ever both told to execute. *)
THEOREM CallsStayExplained == Spec => []CallsAreExplained
  <1>1. AuditInv => CallsAreExplained
    BY DEF AuditInv, StoreInv, Explains, AuditExplains, CallsAreExplained
  <1>2. Init => AuditInv
    <2> SUFFICES ASSUME Init PROVE AuditInv
      OBVIOUS
    <2>2. Explains(<<>>, NoRow)
      BY DEF Explains, NoRow
    <2> QED BY <2>2, InitIsSound DEF AuditInv, Init
  <1>3. AuditInv /\ [Next]_vars => AuditInv'
    <2> SUFFICES ASSUME AuditInv, [Next]_vars PROVE AuditInv'
      OBVIOUS
    <2>1. StoreInv'
      BY NextIsSound DEF AuditInv
    <2>2. CASE UNCHANGED <<row, events>>
      BY <2>1, <2>2 DEF AuditInv
    <2>3. CASE \E a \in Actions : Records(a)
      BY <2>1, <2>3, RecordExplains DEF AuditInv
    <2> QED BY <2>2, <2>3, StepRecords
  <1> QED BY <1>1, <1>2, <1>3, PTL DEF Spec

------------
(* projects/store.rs: the registry of Projects. *)
Least(S) == CHOOSE k \in S : \A other \in S : k <= other
LEMMA LeastIsThere ==
    ASSUME NEW S \in SUBSET Nat, S # {}
    PROVE  Least(S) \in S /\ \A other \in S : Least(S) <= other
  <1> DEFINE T == {0..k : k \in S}
  <1>1. T \subseteq FiniteSubsetsOf(Nat) /\ T # {}
    <2>1. \A k \in S : 0..k \in SUBSET Nat /\ IsFiniteSet(0..k)
      BY FS_Interval
    <2> QED BY <2>1 DEF FiniteSubsetsOf
  <1>2. \E x \in T : \A y \in T : ~(<<y, x>> \in StrictSubsetOrdering(Nat))
    <2> HIDE DEF T
    <2> QED BY <1>1, FS_StrictSubsetOrderingWellFounded, WFMin
  <1>3. PICK x \in T : \A y \in T : ~(<<y, x>> \in StrictSubsetOrdering(Nat))
    BY <1>2
  <1>4. PICK k \in S : x = 0..k
    BY <1>3
  <1>5. \A j \in S : k <= j
    <2> SUFFICES ASSUME NEW j \in S, j < k PROVE FALSE
      OBVIOUS
    <2>2. <<0..j, 0..k>> \in StrictSubsetOrdering(Nat) BY DEF StrictSubsetOrdering
    <2> QED BY <1>3, <1>4, <2>2
  <1> QED BY <1>5 DEF Least

------------
\* The replay of a journal, by its length.
NoProjects == [p \in Projects |-> NotRegistered]
IsReplay(f, lines, m) == f = [n \in 0..m |-> IF n = 0 THEN NoProjects ELSE Advanced(lines[n], f[n - 1])]

LEMMA ReplayExists ==
    ASSUME NEW lines, NEW m \in Nat
    PROVE  \E f : IsReplay(f, lines, m)
  <1> DEFINE bad == {k \in Nat : ~\E f : IsReplay(f, lines, k)}
  <1> SUFFICES ASSUME bad # {} PROVE FALSE OBVIOUS
  <1>1. PICK k : k = Least(bad) OBVIOUS
  <1>2. k \in Nat /\ (~\E f : IsReplay(f, lines, k)) /\ \A j \in Nat : j < k => \E f : IsReplay(f, lines, j)
    <2>1. bad \in SUBSET Nat OBVIOUS
    <2>2. k \in bad /\ \A j \in bad : k <= j
      <3> HIDE DEF bad
      <3> QED BY <1>1, <2>1, LeastIsThere
    <2> QED BY <2>2
  <1>3. CASE k = 0
    <2>1. IsReplay([n \in 0..0 |-> NoProjects], lines, 0) BY DEF IsReplay
    <2> QED BY <1>2, <1>3, <2>1
  <1>4. CASE k > 0
    <2>2. PICK f : IsReplay(f, lines, k - 1) BY <1>2, <1>4
    <2> DEFINE g == [n \in 0..k |-> IF n < k THEN f[n] ELSE Advanced(lines[k], f[k - 1])]
    <2>3. \A n \in 0..(k - 1) : f[n] = IF n = 0 THEN NoProjects ELSE Advanced(lines[n], f[n - 1])
      BY <2>2 DEF IsReplay
    <2>4. \A n \in 0..k : g[n] = IF n = 0 THEN NoProjects ELSE Advanced(lines[n], g[n - 1])
      <3> TAKE n \in 0..k
      <3>1. CASE n = 0
        <4> QED BY <3>1, <1>2, <1>4, <2>3
      <3>2. CASE n # 0 /\ n < k
        <4>1. n \in 0..(k - 1) /\ n - 1 \in 0..k /\ n - 1 < k BY <1>2, <3>2
        <4>2. g[n] = f[n] /\ g[n - 1] = f[n - 1] BY <3>2, <4>1
        <4>3. f[n] = Advanced(lines[n], f[n - 1]) BY <2>3, <3>2, <4>1
        <4> HIDE DEF g
        <4> QED BY <3>2, <4>2, <4>3
      <3>3. CASE n = k
        <4>2. g[n] = Advanced(lines[k], f[k - 1]) /\ g[k - 1] = f[k - 1] BY <1>2, <3>3, <1>4
        <4> HIDE DEF g
        <4> QED BY <1>4, <3>3, <4>2
      <3> QED BY <1>2, <3>1, <3>2, <3>3
    <2>5. g = [n \in 0..k |-> g[n]] OBVIOUS
    <2>6. IsReplay(g, lines, k)
      <3> HIDE DEF g
      <3> QED BY <2>4, <2>5 DEF IsReplay
    <2> QED BY <1>2, <2>6
  <1> QED BY <1>2, <1>3, <1>4

LEMMA ReplaysAgree ==
    ASSUME NEW f, NEW g, NEW lines, NEW more, NEW m \in Nat, NEW k \in Nat, m <= k,
           IsReplay(f, lines, m), IsReplay(g, more, k), \A n \in 1..m : lines[n] = more[n]
    PROVE  \A n \in 0..m : f[n] = g[n]
  <1> DEFINE bad == {n \in 0..m : f[n] # g[n]}
  <1> SUFFICES ASSUME bad # {} PROVE FALSE OBVIOUS
  <1>1. PICK n : n = Least(bad) OBVIOUS
  <1>2. n \in 0..m /\ f[n] # g[n] /\ \A j \in 0..m : j < n => f[j] = g[j]
    <2>1. bad \in SUBSET Nat OBVIOUS
    <2>2. n \in bad /\ \A j \in bad : n <= j
      <3> HIDE DEF bad
      <3> QED BY <1>1, <2>1, LeastIsThere
    <2> QED BY <2>2
  <1>3. f[n] = IF n = 0 THEN NoProjects ELSE Advanced(lines[n], f[n - 1]) BY <1>2 DEF IsReplay
  <1>4. g[n] = IF n = 0 THEN NoProjects ELSE Advanced(more[n], g[n - 1]) BY <1>2 DEF IsReplay
  <1>5. n # 0 => n - 1 \in 0..m /\ n - 1 < n /\ n \in 1..m BY <1>2
  <1> QED BY <1>2, <1>3, <1>4, <1>5

LEMMA ReplayAt ==
    ASSUME NEW f, NEW lines, NEW m \in Nat, IsReplay(f, lines, m + 1)
    PROVE  f[m + 1] = Advanced(lines[m + 1], f[m])
  <1>2. m + 1 \in 0..(m + 1) /\ m + 1 # 0 /\ m + 1 - 1 = m OBVIOUS
  <1> QED BY <1>2 DEF IsReplay

LEMMA ReplayIsReplay ==
    ASSUME NEW lines, Len(lines) \in Nat
    PROVE  IsReplay(Replay(lines), lines, Len(lines))
  <1>2. \E f : IsReplay(f, lines, Len(lines)) BY ReplayExists
  <1> QED BY <1>2 DEF Replay, IsReplay, NoProjects

LEMMA ReplayedIsAdvanced ==
    ASSUME NEW T, NEW lines \in Seq(T), NEW t \in T
    PROVE  Replayed(Append(lines, t)) = Advanced(t, Replayed(lines))
  <1> DEFINE more == Append(lines, t)
             m == Len(lines)
  <1>1. m \in Nat /\ Len(more) = m + 1 /\ more[m + 1] = t /\ \A n \in 1..m : lines[n] = more[n] OBVIOUS
  <1> HIDE DEF more, m
  <1>3. IsReplay(Replay(more), more, m + 1) BY <1>1, ReplayIsReplay
  <1>4. \A n \in 0..m : Replay(lines)[n] = Replay(more)[n] BY <1>1, ReplayIsReplay, <1>3, ReplaysAgree DEF m
  <1>5. Replay(more)[m + 1] = Advanced(more[m + 1], Replay(more)[m])
    BY <1>1, <1>3, ReplayAt
  <1>6. Replay(more)[m] = Replay(lines)[m] BY <1>1, <1>4
  <1> QED BY <1>1, <1>5, <1>6 DEF Replayed, more, m

LEMMA ReplayedFirst == Replayed(<<BootstrapTransition>>) = Seeded
  <1>0. Len(<<BootstrapTransition>>) = 1 OBVIOUS
  <1>1. IsReplay(Replay(<<BootstrapTransition>>), <<BootstrapTransition>>, 1) BY <1>0, ReplayIsReplay
  <1> QED BY <1>1 DEF Replayed, Advanced, BootstrapTransition, Transition, IsReplay

------------
TransitionNames == OperationNames \cup {"BOOTSTRAP", "broken line", "none", "torn"}
Targets == Projects \cup {0} \cup {op.project : op \in Operations}
Transitions == [id : Nat, revision : Nat, name : TransitionNames, project : Targets]
Lifecycles == {NotRegistered, "ACTIVE", "PAUSED", "ARCHIVED"}
RegistryHeads == [revision : Nat, last : Transitions, projects : [Projects -> Lifecycles]]
Journals == [lines : Seq(Transitions), tail : Transitions]

Uncommitted == {"new", "reading", "lock", "load", "normalize", "repair", "write"}
Locked == {"load", "normalize", "repair", "write", "append"}
TaskPlaces == Locked \cup {"lock", "recheck"}
Tasks == [at : TaskPlaces, op : Operations, expected : Nat, manifest : Nat]
ChangeRecords ==
    {[at |-> "new"], [at |-> "over"]} \cup [at : {"reading"}, expected : Nat] \cup Tasks

RegistryTypeOK ==
    /\ registryHead \in RegistryHeads /\ registryEvents \in Journals /\ manifest \in [Projects -> Nat]
    /\ registryLock \in Nat /\ change \in [Changers -> ChangeRecords] /\ DOMAIN replied = Changers

\* The journal has all transitions, or all but the one that the head says.
IsJournal(e, head) ==
    /\ head.revision > 0 /\ Len(e.lines) <= head.revision /\ head.revision <= Len(e.lines) + 1
    /\ head.last.revision = head.revision
    /\ Len(e.lines) = head.revision => e.tail = NoTail /\ e.lines[head.revision] = head.last
    /\ e.tail \in {NoTail, TornTail, head.last}
    /\ \A i \in 1..Len(e.lines) : e.lines[i].revision = i
    /\ \A i \in 1..Len(e.lines) : \A j \in 1..Len(e.lines) : e.lines[i].id = e.lines[j].id => i = j
    /\ Len(e.lines) < head.revision => \A i \in 1..Len(e.lines) : e.lines[i].id # head.last.id

Whole(e, head) == IF Len(e.lines) = head.revision THEN e.lines ELSE Append(e.lines, head.last)
Occurs(q, e, head) == \E i \in 1..Len(Whole(e, head)) : Whole(e, head)[i].id = q
ExpectedIs(q, n, e, head) ==
    \A i \in 1..Len(Whole(e, head)) : Whole(e, head)[i].id = q => n \in {AnyRevision, i - 1}

PlaceFollows(q) ==
    /\ change[q].at \in Locked <=> registryLock = q
    /\ change[q].at = "normalize" => registryEvents.tail # NoTail
    /\ change[q].at \in {"repair", "append"} =>
          registryEvents.tail = NoTail /\ Len(registryEvents.lines) < registryHead.revision
    /\ change[q].at = "write" => registryEvents.tail = NoTail /\ Len(registryEvents.lines) = registryHead.revision
    /\ change[q].at \in {"normalize", "repair", "write"} => change[q].expected \in {AnyRevision, registryHead.revision}

CommitFollows(q) ==
    /\ change[q].at \in Uncommitted \/ replied[q] = "refused" => ~Occurs(q, registryEvents, registryHead)
    /\ change[q].at \in {"append", "recheck"} => ExpectedIs(q, change[q].expected, registryEvents, registryHead)
    /\ replied[q] # "nothing" => change[q].at = "over"

RegistryInv ==
    /\ RegistryTypeOK /\ IsJournal(registryEvents, registryHead)
    /\ Replayed(Whole(registryEvents, registryHead)) = registryHead.projects
    /\ \A q \in Changers : PlaceFollows(q) /\ CommitFollows(q)

------------
LEMMA RecordFields ==
    ASSUME NEW e \in Journals, NEW h \in RegistryHeads
    PROVE  /\ e.lines \in Seq(Transitions) /\ Len(e.lines) \in Nat /\ e.tail \in Transitions
           /\ h.revision \in Nat /\ h.last \in Transitions /\ h.projects \in [Projects -> Lifecycles]
           /\ h.last.revision \in Nat /\ h.last.id \in Nat
           /\ \A i \in 1..Len(e.lines) : e.lines[i] \in Transitions
  <1>1. e.lines \in Seq(Transitions) /\ e.tail \in Transitions BY DEF Journals
  <1>2. h.revision \in Nat /\ h.last \in Transitions /\ h.projects \in [Projects -> Lifecycles] BY DEF RegistryHeads
  <1>4. Len(e.lines) \in Nat /\ \A i \in 1..Len(e.lines) : e.lines[i] \in Transitions BY <1>1
  <1> QED BY <1>1, <1>2, <1>4 DEF Transitions

LEMMA AppendIs ==
    ASSUME NEW s \in Seq(Transitions), NEW t \in Transitions
    PROVE  /\ Append(s, t) \in Seq(Transitions) /\ Len(Append(s, t)) = Len(s) + 1 /\ Append(s, t)[Len(s) + 1] = t
           /\ \A i \in 1..Len(s) : Append(s, t)[i] = s[i]
  OBVIOUS

\* The whole history of a journal and its head.
LEMMA WholeIs ==
    ASSUME NEW e \in Journals, NEW h \in RegistryHeads, IsJournal(e, h)
    PROVE  /\ Whole(e, h) \in Seq(Transitions) /\ Len(Whole(e, h)) = h.revision /\ Whole(e, h)[h.revision] = h.last
           /\ \A i \in 1..Len(e.lines) : Whole(e, h)[i] = e.lines[i]
           /\ \A i \in 1..h.revision : Whole(e, h)[i].revision = i
           /\ \A i \in 1..h.revision : \A j \in 1..h.revision : Whole(e, h)[i].id = Whole(e, h)[j].id => i = j
  <1>0. /\ e.lines \in Seq(Transitions) /\ Len(e.lines) \in Nat /\ h.revision \in Nat /\ h.last \in Transitions
    BY RecordFields
  <1>1. CASE Len(e.lines) = h.revision
    <2> QED BY <1>0, <1>1 DEF IsJournal, Whole
  <1>2. CASE Len(e.lines) # h.revision
    <2>2. Len(e.lines) + 1 = h.revision /\ Len(e.lines) < h.revision BY <1>0, <1>2 DEF IsJournal
    <2>3. /\ Whole(e, h) \in Seq(Transitions) /\ Len(Whole(e, h)) = h.revision /\ Whole(e, h)[h.revision] = h.last
          /\ \A i \in 1..Len(e.lines) : Whole(e, h)[i] = e.lines[i] BY <1>0, <1>2, <2>2, AppendIs DEF Whole
    <2>4. \A i \in 1..h.revision : i = h.revision \/ i \in 1..Len(e.lines) BY <1>0, <2>2
    <2>5. \A i \in 1..h.revision : Whole(e, h)[i].revision = i
      <3> TAKE i \in 1..h.revision
      <3>1. CASE i = h.revision BY <2>3, <3>1 DEF IsJournal
      <3>2. CASE i \in 1..Len(e.lines) BY <2>3, <3>2 DEF IsJournal
      <3> QED BY <2>4, <3>1, <3>2
    <2>6. ASSUME NEW i \in 1..h.revision, NEW j \in 1..h.revision, Whole(e, h)[i].id = Whole(e, h)[j].id PROVE i = j
      <3>1. \A k \in 1..Len(e.lines) : e.lines[k].id # h.last.id BY <2>2 DEF IsJournal
      <3>2. CASE i = h.revision /\ j = h.revision BY <3>2
      <3>3. CASE i = h.revision /\ j \in 1..Len(e.lines) BY <2>3, <2>6, <3>1, <3>3
      <3>4. CASE i \in 1..Len(e.lines) /\ j = h.revision BY <2>3, <2>6, <3>1, <3>4
      <3>5. CASE i \in 1..Len(e.lines) /\ j \in 1..Len(e.lines) BY <2>3, <2>6, <3>5 DEF IsJournal
      <3> QED BY <2>4, <3>2, <3>3, <3>4, <3>5
    <2> QED BY <2>3, <2>5, <2>6
  <1> QED BY <1>1, <1>2

LEMMA CompleteIs ==
    ASSUME NEW e \in Journals, NEW h \in RegistryHeads, IsJournal(e, h)
    PROVE  \/ CompleteLines(e) = e.lines
           \/ CompleteLines(e) = Whole(e, h) /\ Len(e.lines) < h.revision /\ e.tail = h.last
  <1>1. CASE e.tail \in {NoTail, TornTail} BY <1>1 DEF CompleteLines
  <1>2. CASE e.tail \notin {NoTail, TornTail}
    <2>2. Len(e.lines) # h.revision /\ Len(e.lines) < h.revision BY RecordFields, <1>2 DEF IsJournal
    <2> QED BY <1>2, <2>2 DEF Whole, IsJournal, CompleteLines
  <1> QED BY <1>1, <1>2

\* What a load finds: it is recoverable, and misses at most the last transition.
LEMMA LoadIsSound ==
    ASSUME NEW e \in Journals, NEW h \in RegistryHeads, IsJournal(e, h)
    PROVE  /\ Recoverable(h, CompleteLines(e))
           /\ (IF Misses(h, CompleteLines(e)) THEN Append(CompleteLines(e), h.last) ELSE CompleteLines(e)) = Whole(e, h)
           /\ e.tail = NoTail => (Misses(h, e.lines) <=> Len(e.lines) < h.revision)
  <1>0. /\ e.lines \in Seq(Transitions) /\ Len(e.lines) \in Nat /\ h.revision \in Nat /\ h.last \in Transitions
        /\ h.revision > 0
    BY RecordFields DEF IsJournal
  <1> DEFINE w == Whole(e, h)
  <1>1. /\ w \in Seq(Transitions) /\ Len(w) = h.revision /\ w[h.revision] = h.last
        /\ \A i \in 1..Len(e.lines) : w[i] = e.lines[i]
        /\ \A i \in 1..h.revision : w[i].revision = i
        /\ \A i \in 1..h.revision : \A j \in 1..h.revision : w[i].id = w[j].id => i = j
    BY WholeIs
  <1> HIDE DEF w
  <1>2. ~Misses(h, w)
    <2>2. h.revision \in DOMAIN w BY <1>1, <1>0
    <2> QED BY <1>1, <2>2 DEF Misses, ToSet
  <1>3. Recoverable(h, w)
    <2>2. w # <<>> /\ Last(w) = h.last BY <1>0, <1>1 DEF Last
    <2> QED BY <1>1, <2>2 DEF Recoverable, Contiguous
  <1>4. ASSUME Len(e.lines) < h.revision PROVE Recoverable(h, e.lines) /\ Misses(h, e.lines)
    <2>2. \A i \in 1..Len(e.lines) : e.lines[i].id # h.last.id BY <1>4 DEF IsJournal
    <2>3. e.lines # <<>> => Last(e.lines).id # h.last.id
      <3> QED BY <2>2, <1>0 DEF Last
    <2>4. h.revision = Len(e.lines) + 1 BY <1>0, <1>4 DEF IsJournal
    <2>5. Misses(h, e.lines)
      <3> QED BY <1>0, <2>2 DEF Misses, ToSet
    <2> QED BY <2>2, <2>3, <2>4, <2>5 DEF Recoverable, Contiguous, IsJournal
  <1>5. CASE CompleteLines(e) = e.lines /\ Len(e.lines) < h.revision
    <2> QED BY <1>4, <1>5, <1>0 DEF w, Whole
  <1>6. CASE CompleteLines(e) = e.lines /\ Len(e.lines) = h.revision
    <2> QED BY <1>0, <1>2, <1>3, <1>6 DEF w, Whole
  <1>7. CASE CompleteLines(e) = Whole(e, h) /\ Len(e.lines) < h.revision /\ e.tail = h.last
    BY <1>2, <1>3, <1>4, <1>7 DEF w
  <1> QED BY <1>0, <1>5, <1>6, <1>7, CompleteIs DEF IsJournal

\* The four things that are written.
LEMMA NormalizedKeeps ==
    ASSUME NEW e \in Journals, NEW h \in RegistryHeads, IsJournal(e, h)
    PROVE  /\ NormalizedJournal(e) \in Journals /\ IsJournal(NormalizedJournal(e), h)
           /\ Whole(NormalizedJournal(e), h) = Whole(e, h) /\ NormalizedJournal(e).tail = NoTail
  <1> DEFINE d == NormalizedJournal(e)
  <1>0. /\ e.lines \in Seq(Transitions) /\ Len(e.lines) \in Nat /\ h.revision \in Nat /\ h.last \in Transitions
    BY RecordFields
  <1>1. /\ Whole(e, h) \in Seq(Transitions) /\ Len(Whole(e, h)) = h.revision /\ Whole(e, h)[h.revision] = h.last
        /\ \A i \in 1..h.revision : Whole(e, h)[i].revision = i
        /\ \A i \in 1..h.revision : \A j \in 1..h.revision : Whole(e, h)[i].id = Whole(e, h)[j].id => i = j
    BY WholeIs
  <1>2. NoTail \in Transitions BY DEF NoTail, Transition, Transitions, TransitionNames, Targets, FirstId
  <1>3. d = [lines |-> CompleteLines(e), tail |-> NoTail] BY DEF NormalizedJournal
  <1>4. d.lines = CompleteLines(e) /\ d.tail = NoTail BY <1>3
  <1>5. CASE CompleteLines(e) = e.lines
    <2>1. d \in Journals BY <1>0, <1>2, <1>3, <1>5 DEF Journals
    <2> HIDE DEF d
    <2> QED BY <1>4, <2>1, <1>5 DEF d, IsJournal, Whole
  <1>6. CASE CompleteLines(e) = Whole(e, h)
    <2>1. d \in Journals BY <1>1, <1>2, <1>3, <1>6 DEF Journals
    <2> HIDE DEF d
    <2>3. IsJournal(d, h)
      <3>2. h.last.revision = h.revision /\ h.revision > 0 BY DEF IsJournal
      <3> QED BY <1>0, <1>1, <1>4, <1>6, <3>2 DEF IsJournal
    <2> QED BY <1>4, <2>1, <1>1, <1>6, <2>3 DEF d, Whole
  <1> QED BY <1>5, <1>6, CompleteIs

LEMMA AppendKeeps ==
    ASSUME NEW e \in Journals, NEW h \in RegistryHeads, IsJournal(e, h), e.tail = NoTail, Len(e.lines) < h.revision
    PROVE  /\ AppendRecord(e, h.last) \in Journals /\ IsJournal(AppendRecord(e, h.last), h)
           /\ Whole(AppendRecord(e, h.last), h) = Whole(e, h)
           /\ AppendRecord(e, h.last).tail = NoTail /\ Len(AppendRecord(e, h.last).lines) = h.revision
  <1> DEFINE d == AppendRecord(e, h.last)
  <1>0. /\ e.lines \in Seq(Transitions) /\ Len(e.lines) \in Nat /\ h.revision \in Nat /\ h.last \in Transitions
    BY RecordFields
  <1>1. /\ Whole(e, h) \in Seq(Transitions) /\ Len(Whole(e, h)) = h.revision /\ Whole(e, h)[h.revision] = h.last
        /\ \A i \in 1..h.revision : Whole(e, h)[i].revision = i
        /\ \A i \in 1..h.revision : \A j \in 1..h.revision : Whole(e, h)[i].id = Whole(e, h)[j].id => i = j
    BY WholeIs
  <1>2. NoTail \in Transitions BY DEF NoTail, Transition, Transitions, TransitionNames, Targets, FirstId
  <1>3. Whole(e, h) = Append(e.lines, h.last) BY <1>0 DEF Whole
  <1>4. d = [lines |-> Whole(e, h), tail |-> NoTail] BY <1>3 DEF AppendRecord
  <1>5. d.lines = Whole(e, h) /\ d.tail = NoTail BY <1>4
  <1>6. d \in Journals BY <1>1, <1>2, <1>4 DEF Journals
  <1> HIDE DEF d
  <1>7. Whole(d, h) = Whole(e, h) BY <1>1, <1>5 DEF Whole
  <1>8. IsJournal(d, h)
    <2>1. Len(d.lines) = h.revision BY <1>1, <1>5
    <2>2. h.last.revision = h.revision /\ h.revision > 0 BY DEF IsJournal
    <2> QED BY <1>0, <1>1, <1>5, <2>1, <2>2 DEF IsJournal
  <1> QED BY <1>1, <1>5, <1>6, <1>7, <1>8 DEF d

LEMMA PartlyKeeps ==
    ASSUME NEW e \in Journals, NEW h \in RegistryHeads, IsJournal(e, h), e.tail = NoTail, Len(e.lines) < h.revision,
           NEW d \in Partly(e, h.last)
    PROVE  d \in Journals /\ IsJournal(d, h) /\ Whole(d, h) = Whole(e, h)
  <1>0. h.last \in Transitions /\ Len(e.lines) \in Nat /\ h.revision \in Nat BY RecordFields
  <1>1. NoTail \in Transitions /\ TornTail \in Transitions
    BY DEF NoTail, TornTail, Transition, Transitions, TransitionNames, Targets, FirstId
  <1>3. ASSUME NEW t \in {TornTail, h.last}, d = [e EXCEPT !.tail = t]
        PROVE  d \in Journals /\ d.lines = e.lines /\ d.tail = t
    BY <1>0, <1>1, <1>3 DEF Journals
  <1>4. d \in Journals /\ d.lines = e.lines /\ d.tail \in {NoTail, TornTail, h.last} BY <1>3 DEF Partly
  <1> QED BY <1>0, <1>4 DEF IsJournal, Whole

\* A new head, whose transition the journal does not have yet.
LEMMA HeadKeeps ==
    ASSUME NEW e \in Journals, NEW h \in RegistryHeads, IsJournal(e, h), e.tail = NoTail, Len(e.lines) = h.revision,
           NEW g \in RegistryHeads, g.revision = h.revision + 1, g.last.revision = g.revision,
           \A i \in 1..h.revision : Whole(e, h)[i].id # g.last.id
    PROVE  IsJournal(e, g) /\ Whole(e, g) = Append(Whole(e, h), g.last) /\ Len(e.lines) < g.revision
  <1>1. Len(e.lines) \in Nat /\ h.revision \in Nat BY RecordFields
  <1>2. Whole(e, h) = e.lines BY DEF Whole
  <1>4. IsJournal(e, g)
    <2>2. /\ \A i \in 1..Len(e.lines) : e.lines[i].revision = i
          /\ \A i \in 1..Len(e.lines) : \A j \in 1..Len(e.lines) : e.lines[i].id = e.lines[j].id => i = j
      BY DEF IsJournal
    <2>3. \A i \in 1..Len(e.lines) : e.lines[i].id # g.last.id BY <1>2
    <2>4. e.tail \in {NoTail, TornTail, g.last} OBVIOUS
    <2> QED BY <1>1, <2>2, <2>3, <2>4 DEF IsJournal
  <1> QED BY <1>1, <1>2, <1>4 DEF Whole

------------
\* The requests.
LEMMA ChangeFields ==
    ASSUME NEW c \in ChangeRecords
    PROVE  /\ c.at \in {"new", "over", "reading"} \cup TaskPlaces
           /\ c.at = "reading" => c.expected \in Nat
           /\ c.at \in TaskPlaces => c \in Tasks /\ c.op \in Operations /\ c.expected \in Nat /\ c.manifest \in Nat
  <1>1. CASE c = [at |-> "new"]
    <2> QED BY <1>1 DEF TaskPlaces, Locked
  <1>2. CASE c = [at |-> "over"]
    <2> QED BY <1>2 DEF TaskPlaces, Locked
  <1>3. CASE c \in [at : {"reading"}, expected : Nat] BY <1>3 DEF TaskPlaces, Locked
  <1>4. CASE c \in Tasks
    <2> QED BY <1>4 DEF TaskPlaces, Locked, Tasks
  <1> QED BY <1>1, <1>2, <1>3, <1>4 DEF ChangeRecords

LEMMA TaskMoves ==
    ASSUME NEW c \in Tasks, NEW a \in TaskPlaces, NEW d, d = [c EXCEPT !.at = a]
    PROVE  d \in Tasks /\ d.at = a /\ d.op = c.op /\ d.expected = c.expected /\ d.manifest = c.manifest
  <1>2. d.at = a /\ d.op = c.op BY DEF Tasks
  <1>3. d.expected = c.expected /\ d.manifest = c.manifest BY DEF Tasks
  <1> QED BY <1>2, <1>3 DEF Tasks

\* What a request does to the others: it is in its own place only, and changes what
\* it holds the lock for.
OnlyRequest(r) == \A q \in Changers \ {r} : change'[q] = change[q] /\ replied'[q] = replied[q]
LockIsHis(r) ==
    \/ registryLock' = registryLock /\ registryEvents' = registryEvents /\ registryHead' = registryHead
    \/ registryLock = 0 /\ registryLock' = r /\ registryEvents' = registryEvents /\ registryHead' = registryHead
    \/ registryLock = r /\ registryLock' \in {0, r}
NowWhole == Whole(registryEvents, registryHead)
HistoryStays(r) == NowWhole' = NowWhole \/ \E t \in Transitions : t.id = r /\ NowWhole' = Append(NowWhole, t)

LEMMA OthersKeep ==
    ASSUME RegistryInv, NEW r \in Changers, OnlyRequest(r), LockIsHis(r), HistoryStays(r)
    PROVE  \A q \in Changers \ {r} : PlaceFollows(q)' /\ CommitFollows(q)'
  <1> TAKE q \in Changers \ {r}
  <1>1. change'[q] = change[q] /\ replied'[q] = replied[q] /\ q # r /\ q # 0
    BY RegistryAssumption DEF OnlyRequest
  <1>2. PlaceFollows(q) /\ CommitFollows(q) BY DEF RegistryInv
  <1>4. registryLock = q => registryEvents' = registryEvents /\ registryHead' = registryHead BY <1>1 DEF LockIsHis
  <1>5. PlaceFollows(q)' BY <1>1, <1>2, <1>4 DEF PlaceFollows, Locked, LockIsHis
  <1>6. (Occurs(q, registryEvents, registryHead)' => Occurs(q, registryEvents, registryHead))
        /\ \A n : ExpectedIs(q, n, registryEvents, registryHead) => ExpectedIs(q, n, registryEvents', registryHead')
    <2>1. CASE NowWhole' = NowWhole BY <2>1 DEF NowWhole, Occurs, ExpectedIs
    <2>2. CASE \E t \in Transitions : t.id = r /\ NowWhole' = Append(NowWhole, t)
      <3>1. PICK t \in Transitions : t.id = r /\ NowWhole' = Append(NowWhole, t) BY <2>2
      <3>2. NowWhole \in Seq(Transitions) BY WholeIs DEF RegistryInv, RegistryTypeOK, NowWhole
      <3>3. /\ Len(NowWhole') = Len(NowWhole) + 1 /\ NowWhole'[Len(NowWhole) + 1].id = r
            /\ \A i \in 1..Len(NowWhole) : NowWhole'[i] = NowWhole[i]
        BY <3>1, <3>2, AppendIs
      <3>4. \A i \in 1..Len(NowWhole') : NowWhole'[i].id = q => i \in 1..Len(NowWhole) /\ NowWhole[i].id = q
        <4> QED BY <1>1, <3>3, <3>2
      <3>6. \A n : ExpectedIs(q, n, registryEvents, registryHead) => ExpectedIs(q, n, registryEvents', registryHead')
        BY <3>4 DEF ExpectedIs, NowWhole
      <3> QED BY <3>4, <3>6 DEF Occurs, NowWhole
    <2> QED BY <2>1, <2>2 DEF HistoryStays
  <1>7. CommitFollows(q)'
    <2>2. change[q].at \in {"append", "recheck"} => ExpectedIs(q, change[q].expected, registryEvents, registryHead)
      BY <1>2 DEF CommitFollows
    <2>3. replied[q] # "nothing" => change[q].at = "over" BY <1>2 DEF CommitFollows
    <2> QED BY <1>1, <1>6, <1>2, <2>2, <2>3 DEF CommitFollows
  <1> QED BY <1>5, <1>7

LEMMA StepKeeps ==
    ASSUME RegistryInv, NEW r \in Changers, OnlyRequest(r), LockIsHis(r), HistoryStays(r), PlaceFollows(r)', CommitFollows(r)',
           RegistryTypeOK', IsJournal(registryEvents, registryHead)', Replayed(NowWhole') = registryHead'.projects
    PROVE  RegistryInv' /\ HistoryStays(r)
  <1> QED BY OthersKeep DEF RegistryInv, NowWhole

\* A request that is over, and one whose write failed.
LEMMA OverSays ==
    ASSUME RegistryTypeOK, NEW r \in Changers, NEW what, Over(r, what)
    PROVE  /\ change' \in [Changers -> ChangeRecords] /\ DOMAIN replied' = Changers /\ OnlyRequest(r)
           /\ change'[r].at = "over" /\ replied'[r] \in {what, "uncertain"}
  <1>2. change' \in [Changers -> ChangeRecords] /\ change'[r].at = "over" /\ \A q \in Changers \ {r} : change'[q] = change[q]
    BY DEF Over, RegistryTypeOK, ChangeRecords
  <1>3. PICK heard \in {what, "uncertain"} : replied' = [replied EXCEPT ![r] = heard] BY DEF Over
  <1> QED BY <1>2, <1>3 DEF OnlyRequest, RegistryTypeOK

LEMMA MovesTo ==
    ASSUME RegistryTypeOK, NEW r \in Changers, change[r].at \in TaskPlaces, NEW a \in TaskPlaces, ChangeTo(r, a)
    PROVE  /\ change' \in [Changers -> ChangeRecords] /\ DOMAIN replied' = Changers /\ OnlyRequest(r)
           /\ change'[r].at = a /\ change'[r].expected = change[r].expected /\ replied'[r] = replied[r]
  <1>2. change' = [change EXCEPT ![r].at = a] /\ replied' = replied BY DEF ChangeTo, NotAnswered
  <1>3. change'[r] = [change[r] EXCEPT !.at = a] /\ \A q \in Changers \ {r} : change'[q] = change[q]
    BY <1>2 DEF RegistryTypeOK
  <1>4. change'[r] \in Tasks /\ change'[r].at = a /\ change'[r].expected = change[r].expected
    BY ChangeFields, <1>3, TaskMoves DEF RegistryTypeOK
  <1>5. change' \in [Changers -> ChangeRecords]
    <2>2. \A q \in Changers : change'[q] \in ChangeRecords BY <1>3, <1>4 DEF ChangeRecords, RegistryTypeOK
    <2> QED BY <1>2, <2>2 DEF RegistryTypeOK
  <1> QED BY <1>2, <1>3, <1>4, <1>5 DEF OnlyRequest, RegistryTypeOK

LEMMA SetsTo ==
    ASSUME RegistryTypeOK, NEW r \in Changers, NEW c \in ChangeRecords, change' = [change EXCEPT ![r] = c]
    PROVE  change' \in [Changers -> ChangeRecords] /\ change'[r] = c /\ \A q \in Changers \ {r} : change'[q] = change[q]
  BY DEF RegistryTypeOK

LEMMA RepliesTo ==
    ASSUME RegistryTypeOK, NEW r \in Changers, NEW what, Reply(r, what)
    PROVE  DOMAIN replied' = Changers /\ replied'[r] = what /\ \A q \in Changers \ {r} : replied'[q] = replied[q]
  BY DEF RegistryTypeOK, Reply

\* What is known of a request by its place.
LEMMA RequestIs ==
    ASSUME RegistryInv, NEW r \in Changers
    PROVE  /\ r # 0 /\ r \in Nat /\ RegistryTypeOK /\ PlaceFollows(r) /\ CommitFollows(r)
           /\ change[r] \in ChangeRecords
           /\ change[r].at # "over" => replied[r] = "nothing"
           /\ change[r].at \in Uncommitted => ~Occurs(r, registryEvents, registryHead)
           /\ registryEvents \in Journals /\ registryHead \in RegistryHeads /\ IsJournal(registryEvents, registryHead)
  <1>2. RegistryTypeOK /\ PlaceFollows(r) /\ CommitFollows(r) /\ IsJournal(registryEvents, registryHead) BY DEF RegistryInv
  <1>3. change[r] \in ChangeRecords /\ registryEvents \in Journals /\ registryHead \in RegistryHeads
    BY <1>2 DEF RegistryTypeOK
  <1> QED BY RegistryAssumption, <1>2, <1>3 DEF CommitFollows

\* Nothing is written.
LEMMA NothingWritten ==
    ASSUME RegistryInv, NEW r \in Changers, UNCHANGED <<registryHead, registryEvents>>, manifest' \in [Projects -> Nat],
           registryLock' = registryLock \/ (registryLock = 0 /\ registryLock' = r) \/ (registryLock = r /\ registryLock' = 0),
           change' \in [Changers -> ChangeRecords], DOMAIN replied' = Changers, OnlyRequest(r),
           PlaceFollows(r)', CommitFollows(r)'
    PROVE  RegistryInv' /\ HistoryStays(r)
  <1>1. NowWhole' = NowWhole BY DEF NowWhole
  <1>2. Replayed(NowWhole') = registryHead'.projects BY <1>1 DEF RegistryInv, NowWhole
  <1>4. LockIsHis(r) BY DEF LockIsHis
  <1>5. RegistryTypeOK'
    <2> QED BY RegistryAssumption DEF RegistryInv, RegistryTypeOK
  <1>6. IsJournal(registryEvents, registryHead)' BY DEF RegistryInv
  <1> QED BY <1>2, <1>1, <1>4, <1>5, <1>6, StepKeeps DEF HistoryStays

LEMMA ListKeeps == ASSUME RegistryInv, NEW r \in Changers, ListProjects(r) PROVE RegistryInv' /\ HistoryStays(r)
  <1> DEFINE c == [at |-> "reading", expected |-> registryHead.revision]
  <1>1. /\ RegistryTypeOK /\ PlaceFollows(r) /\ replied[r] = "nothing" /\ ~Occurs(r, registryEvents, registryHead)
        /\ registryHead.revision \in Nat
    BY RequestIs, RecordFields DEF ListProjects, Uncommitted
  <1>2. c \in ChangeRecords BY <1>1 DEF ChangeRecords
  <1>3. c.at = "reading" OBVIOUS
  <1>4. change' = [change EXCEPT ![r] = c] /\ UNCHANGED <<registryHead, registryEvents, manifest, registryLock, replied>>
    BY DEF ListProjects
  <1> HIDE DEF c
  <1>5. /\ change' \in [Changers -> ChangeRecords] /\ change'[r] = c /\ \A q \in Changers \ {r} : change'[q] = change[q]
    BY <1>1, <1>2, <1>4, SetsTo
  <1>7. PlaceFollows(r)' BY <1>3, <1>4, <1>5, <1>1 DEF PlaceFollows, Locked, ListProjects
  <1>8. CommitFollows(r)' BY <1>1, <1>3, <1>4, <1>5 DEF CommitFollows, Uncommitted
  <1>9. OnlyRequest(r) /\ DOMAIN replied' = Changers /\ manifest' \in [Projects -> Nat]
    BY <1>1, <1>4, <1>5 DEF OnlyRequest, RegistryTypeOK
  <1> QED BY <1>4, <1>5, <1>7, <1>8, <1>9, NothingWritten

LEMMA StartKeeps == ASSUME RegistryInv, NEW r \in Changers, StartChange(r) PROVE RegistryInv' /\ HistoryStays(r)
  <1>1. /\ RegistryTypeOK /\ PlaceFollows(r) /\ replied[r] = "nothing" /\ ~Occurs(r, registryEvents, registryHead)
        /\ change[r] \in ChangeRecords
    BY RequestIs DEF StartChange, Uncommitted
  <1>2. change[r].at \in {"new", "reading"} /\ UNCHANGED <<registryHead, registryEvents, manifest, registryLock>>
    BY DEF StartChange
  <1>3. registryLock # r BY <1>1, <1>2 DEF PlaceFollows, Locked
  <1>4. manifest' \in [Projects -> Nat] BY <1>1, <1>2 DEF RegistryTypeOK
  <1>5. ASSUME change' = [change EXCEPT ![r] = [at |-> "over"]], Reply(r, "refused") PROVE RegistryInv' /\ HistoryStays(r)
    <2>2. /\ change' \in [Changers -> ChangeRecords] /\ change'[r].at = "over" /\ \A q \in Changers \ {r} : change'[q] = change[q]
      BY <1>1, <1>5, SetsTo DEF ChangeRecords
    <2>3. /\ DOMAIN replied' = Changers /\ replied'[r] = "refused" /\ \A q \in Changers \ {r} : replied'[q] = replied[q]
      BY <1>1, <1>5, RepliesTo
    <2>4. PlaceFollows(r)' BY <1>2, <1>3, <2>2 DEF PlaceFollows, Locked
    <2>5. CommitFollows(r)' BY <1>1, <1>2, <2>2, <2>3 DEF CommitFollows
    <2>6. OnlyRequest(r) BY <2>2, <2>3 DEF OnlyRequest
    <2> QED BY <1>2, <1>4, <2>2, <2>3, <2>4, <2>5, <2>6, NothingWritten
  <1>6. ASSUME NEW op \in Operations, NEW n \in Nat, Admitted(r, op, n) PROVE RegistryInv' /\ HistoryStays(r)
    <2> DEFINE read == IF NeedsManifest(op) THEN manifest[op.project] ELSE 0
               c == [at |-> "lock", op |-> op, expected |-> n, manifest |-> read]
    <2>1. read \in Nat
      <3>3. NeedsManifest(op) => op.name # "unregister_all" BY DEF NeedsManifest
      <3>1. NeedsManifest(op) => op.project \in Projects BY <1>6, RegistryAssumption, <3>3
      <3> QED BY <1>1, <3>1 DEF RegistryTypeOK
    <2>2. CASE NeedsManifest(op) /\ read = 0
      BY <1>5, <1>6, <2>2 DEF Admitted
    <2>3. CASE ~(NeedsManifest(op) /\ read = 0)
      <3>1. change' = [change EXCEPT ![r] = c] /\ replied' = replied BY <1>6, <2>3 DEF Admitted, NotAnswered
      <3>2. c \in ChangeRecords /\ c.at = "lock"
        <4> HIDE DEF read
        <4> QED BY <2>1 DEF ChangeRecords, Tasks, TaskPlaces
      <3> HIDE DEF c
      <3>3. change' \in [Changers -> ChangeRecords] /\ change'[r] = c /\ \A q \in Changers \ {r} : change'[q] = change[q]
        BY <1>1, <3>1, <3>2, SetsTo
      <3>4. PlaceFollows(r)' BY <1>2, <1>3, <3>2, <3>3 DEF PlaceFollows, Locked
      <3>5. CommitFollows(r)' BY <1>1, <1>2, <3>1, <3>2, <3>3 DEF CommitFollows, Uncommitted
      <3>6. OnlyRequest(r) /\ DOMAIN replied' = Changers BY <1>1, <3>1, <3>3 DEF OnlyRequest, RegistryTypeOK
      <3> QED BY <1>2, <1>4, <3>3, <3>4, <3>5, <3>6, NothingWritten
    <2> QED BY <2>2, <2>3
  <1>7. PICK op \in Operations :
          IF HasSlot THEN Admitted(r, op, IF change[r].at = "new" THEN AnyRevision ELSE change[r].expected)
          ELSE change' = [change EXCEPT ![r] = [at |-> "over"]] /\ Reply(r, "refused")
    BY DEF StartChange
  <1> QED BY <1>5, <1>6, <1>7, <1>1, <1>2, ChangeFields DEF AnyRevision

LEMMA LockKeeps == ASSUME RegistryInv, NEW r \in Changers, LockRegistry(r) PROVE RegistryInv' /\ HistoryStays(r)
  <1>1. /\ RegistryTypeOK /\ PlaceFollows(r) /\ replied[r] = "nothing" /\ ~Occurs(r, registryEvents, registryHead)
        /\ r # 0
    BY RequestIs DEF LockRegistry, Uncommitted
  <1>2. change[r].at = "lock" /\ UNCHANGED <<registryHead, registryEvents, manifest>> BY DEF LockRegistry
  <1>4. manifest' \in [Projects -> Nat] BY <1>1, <1>2 DEF RegistryTypeOK
  <1>5. CASE registryLock = 0 /\ registryLock' = r /\ ChangeTo(r, "load")
    <2>1. /\ change' \in [Changers -> ChangeRecords] /\ DOMAIN replied' = Changers /\ OnlyRequest(r)
          /\ change'[r].at = "load" /\ replied'[r] = replied[r]
      BY <1>1, <1>2, <1>5, MovesTo DEF TaskPlaces, Locked
    <2>2. PlaceFollows(r)' BY <1>5, <2>1 DEF PlaceFollows, Locked
    <2>3. CommitFollows(r)' BY <1>1, <1>2, <2>1 DEF CommitFollows, Uncommitted
    <2> QED BY <1>2, <1>4, <1>5, <2>1, <2>2, <2>3, NothingWritten
  <1>6. CASE registryLock' = registryLock /\ Over(r, "refused")
    <2>1. /\ change' \in [Changers -> ChangeRecords] /\ DOMAIN replied' = Changers /\ OnlyRequest(r)
          /\ change'[r].at = "over"
      BY <1>1, <1>6, OverSays
    <2>2. PlaceFollows(r)' BY <1>1, <1>2, <1>6, <2>1 DEF PlaceFollows, Locked
    <2>3. CommitFollows(r)' BY <1>1, <1>2, <2>1 DEF CommitFollows, Uncommitted
    <2> QED BY <1>2, <1>4, <1>6, <2>1, <2>2, <2>3, NothingWritten
  <1> QED BY <1>5, <1>6 DEF LockRegistry

\* After the journal was looked at, the next write is the one that is due.
LEMMA ProceedKeeps ==
    ASSUME RegistryInv, NEW r \in Changers, change[r].at \in {"load", "normalize", "repair"},
           change[r].expected \in {AnyRevision, registryHead.revision},
           NEW e \in Journals, IsJournal(e, registryHead), Whole(e, registryHead) = NowWhole,
           registryEvents' = e, UNCHANGED <<registryHead, manifest>>, Proceed(r, e)
    PROVE  RegistryInv' /\ HistoryStays(r)
  <1>1. /\ RegistryTypeOK /\ PlaceFollows(r) /\ replied[r] = "nothing" /\ ~Occurs(r, registryEvents, registryHead)
        /\ r # 0 /\ r \in Nat /\ registryHead \in RegistryHeads
    BY RequestIs DEF Uncommitted
  <1>2. registryLock = r BY <1>1 DEF PlaceFollows, Locked
  <1> DEFINE a == NextWrite(r, e)
  <1>3. /\ a \in {"normalize", "repair", "write", "recheck"}
        /\ a = "normalize" => e.tail # NoTail
        /\ a = "repair" => e.tail = NoTail /\ Misses(registryHead, e.lines)
        /\ a = "write" => e.tail = NoTail /\ ~Misses(registryHead, e.lines)
    BY DEF NextWrite
  <1>4. /\ a = "repair" => Len(e.lines) < registryHead.revision
        /\ a = "write" => Len(e.lines) = registryHead.revision
    <2>2. Len(e.lines) \in Nat /\ registryHead.revision \in Nat /\ Len(e.lines) <= registryHead.revision
      BY <1>1, RecordFields DEF IsJournal
    <2> HIDE DEF a
    <2> QED BY <1>3, <1>1, LoadIsSound, <2>2
  <1>5. ChangeTo(r, a) /\ registryLock' = (IF a = "recheck" THEN 0 ELSE registryLock) BY DEF Proceed
  <1> HIDE DEF a
  <1>7. /\ change' \in [Changers -> ChangeRecords] /\ DOMAIN replied' = Changers /\ OnlyRequest(r)
        /\ change'[r].at = a /\ change'[r].expected = change[r].expected /\ replied'[r] = replied[r]
    BY <1>1, <1>5, <1>3, MovesTo DEF TaskPlaces, Locked
  <1>8. NowWhole' = NowWhole BY DEF NowWhole
  <1>9. PlaceFollows(r)'
    <2>1. a \in Locked <=> registryLock' = r BY <1>1, <1>2, <1>3, <1>5 DEF Locked
    <2> QED BY <1>3, <1>4, <1>7, <2>1 DEF PlaceFollows
  <1>10. CommitFollows(r)'
    <2>1. ~Occurs(r, registryEvents, registryHead)' BY <1>1, <1>8 DEF Occurs, NowWhole
    <2> QED BY <1>1, <1>3, <1>7, <2>1 DEF CommitFollows, Occurs, ExpectedIs
  <1>11. RegistryTypeOK' BY <1>1, <1>2, <1>5, <1>7 DEF RegistryTypeOK
  <1>12. HistoryStays(r) /\ LockIsHis(r) /\ IsJournal(registryEvents, registryHead)'
    BY <1>2, <1>5, <1>8 DEF HistoryStays, LockIsHis
  <1>13. Replayed(NowWhole') = registryHead'.projects BY <1>8 DEF RegistryInv, NowWhole
  <1> QED BY <1>7, <1>9, <1>10, <1>11, <1>12, <1>13, StepKeeps

LEMMA PlanKeeps == ASSUME RegistryInv, NEW r \in Changers, Plan(r) PROVE RegistryInv' /\ HistoryStays(r)
  <1>1. /\ RegistryTypeOK /\ PlaceFollows(r) /\ replied[r] = "nothing" /\ ~Occurs(r, registryEvents, registryHead)
        /\ r # 0 /\ registryEvents \in Journals /\ IsJournal(registryEvents, registryHead)
    BY RequestIs DEF Plan, Uncommitted
  <1>2. change[r].at = "load" /\ UNCHANGED <<registryHead, registryEvents, manifest>> BY DEF Plan
  <1>3. registryLock = r BY <1>1, <1>2 DEF PlaceFollows, Locked
  <1>4. CASE Proceed(r, registryEvents) /\ change[r].expected \in {AnyRevision, registryHead.revision}
    BY <1>1, <1>2, <1>4, ProceedKeeps DEF NowWhole
  <1>5. CASE Over(r, "refused") /\ registryLock' = 0
    <2>1. /\ change' \in [Changers -> ChangeRecords] /\ DOMAIN replied' = Changers /\ OnlyRequest(r)
          /\ change'[r].at = "over"
      BY <1>1, <1>5, OverSays
    <2>2. PlaceFollows(r)' BY <1>1, <1>5, <2>1 DEF PlaceFollows, Locked
    <2>3. CommitFollows(r)' BY <1>1, <1>2, <2>1 DEF CommitFollows, Uncommitted
    <2>4. manifest' \in [Projects -> Nat] BY <1>1, <1>2 DEF RegistryTypeOK
    <2> QED BY <1>2, <1>3, <1>5, <2>1, <2>2, <2>3, <2>4, NothingWritten
  <1> QED BY <1>4, <1>5 DEF Plan

\* A write that failed: whatever it left, the history is the same.
LEMMA FailsKeeps ==
    ASSUME RegistryInv, NEW r \in Changers, change[r].at \in Locked, NEW outcomes,
           Fails(r, outcomes), registryHead' = registryHead, manifest' = manifest,
           \A e \in outcomes : e \in Journals /\ IsJournal(e, registryHead) /\ Whole(e, registryHead) = NowWhole
    PROVE  RegistryInv' /\ HistoryStays(r)
  <1>1. RegistryTypeOK /\ PlaceFollows(r) /\ r # 0 /\ r \in Nat BY RequestIs
  <1>2. registryLock = r /\ registryLock' = 0 /\ Over(r, "uncertain") BY <1>1 DEF PlaceFollows, Fails
  <1>3. registryEvents' \in Journals /\ IsJournal(registryEvents, registryHead)' /\ NowWhole' = NowWhole
    BY DEF Fails, NowWhole
  <1>4. /\ change' \in [Changers -> ChangeRecords] /\ DOMAIN replied' = Changers /\ OnlyRequest(r)
        /\ change'[r].at = "over" /\ replied'[r] = "uncertain"
    BY <1>1, <1>2, OverSays
  <1>5. PlaceFollows(r)' BY <1>1, <1>2, <1>4 DEF PlaceFollows, Locked
  <1>6. CommitFollows(r)' BY <1>4 DEF CommitFollows, Uncommitted
  <1>7. RegistryTypeOK' BY <1>1, <1>2, <1>3, <1>4 DEF RegistryTypeOK
  <1>8. HistoryStays(r) /\ LockIsHis(r) BY <1>2, <1>3 DEF HistoryStays, LockIsHis
  <1>9. Replayed(NowWhole') = registryHead'.projects BY <1>3 DEF RegistryInv, NowWhole
  <1> QED BY <1>3, <1>4, <1>5, <1>6, <1>7, <1>8, <1>9, StepKeeps

LEMMA NormalizeKeeps == ASSUME RegistryInv, NEW r \in Changers, Normalize(r) PROVE RegistryInv' /\ HistoryStays(r)
  <1>1. /\ RegistryTypeOK /\ PlaceFollows(r) /\ registryEvents \in Journals /\ registryHead \in RegistryHeads
        /\ IsJournal(registryEvents, registryHead)
    BY RequestIs
  <1>2. change[r].at = "normalize" /\ UNCHANGED <<registryHead, manifest>> BY DEF Normalize
  <1>3. /\ NormalizedJournal(registryEvents) \in Journals /\ IsJournal(NormalizedJournal(registryEvents), registryHead)
        /\ Whole(NormalizedJournal(registryEvents), registryHead) = NowWhole
    BY <1>1, NormalizedKeeps DEF NowWhole
  <1>5. CASE registryEvents' = NormalizedJournal(registryEvents) /\ Proceed(r, registryEvents')
    BY <1>2, <1>3, <1>1, <1>5, ProceedKeeps DEF PlaceFollows
  <1>6. CASE Fails(r, {registryEvents, NormalizedJournal(registryEvents)})
    <2> QED BY <1>2, <1>6, <1>1, <1>3, FailsKeeps DEF Locked, NowWhole
  <1> QED BY <1>5, <1>6 DEF Normalize

\* What the missing transition may leave of the journal.
LEMMA AppendedOrPartly ==
    ASSUME RegistryInv, NEW r \in Changers, change[r].at \in {"repair", "append"}
    PROVE  /\ \A e \in Partly(registryEvents, registryHead.last) \cup {AppendRecord(registryEvents, registryHead.last)} :
                 e \in Journals /\ IsJournal(e, registryHead) /\ Whole(e, registryHead) = NowWhole
           /\ AppendRecord(registryEvents, registryHead.last).tail = NoTail
           /\ Len(AppendRecord(registryEvents, registryHead.last).lines) = registryHead.revision
  <1>1. /\ RegistryTypeOK /\ PlaceFollows(r) /\ registryEvents \in Journals /\ registryHead \in RegistryHeads
        /\ IsJournal(registryEvents, registryHead)
    BY RequestIs
  <1> QED BY <1>1, AppendKeeps, PartlyKeeps DEF NowWhole, PlaceFollows

LEMMA RepairKeeps == ASSUME RegistryInv, NEW r \in Changers, Repair(r) PROVE RegistryInv' /\ HistoryStays(r)
  <1>2. change[r].at = "repair" /\ UNCHANGED <<registryHead, manifest>> BY DEF Repair
  <1>3. \A e \in Partly(registryEvents, registryHead.last) \cup {AppendRecord(registryEvents, registryHead.last)} :
           e \in Journals /\ IsJournal(e, registryHead) /\ Whole(e, registryHead) = NowWhole
    BY <1>2, AppendedOrPartly
  <1>4. change[r].expected \in {AnyRevision, registryHead.revision} BY RequestIs, <1>2 DEF PlaceFollows
  <1>5. CASE registryEvents' = AppendRecord(registryEvents, registryHead.last) /\ Proceed(r, registryEvents')
    <2> QED BY <1>2, <1>4, <1>5, <1>3, ProceedKeeps
  <1>6. CASE Fails(r, Partly(registryEvents, registryHead.last) \cup {AppendRecord(registryEvents, registryHead.last)})
    BY <1>2, <1>3, <1>6, FailsKeeps DEF Locked
  <1> QED BY <1>5, <1>6 DEF Repair

LEMMA AppendingKeeps == ASSUME RegistryInv, NEW r \in Changers, AppendTransition(r) PROVE RegistryInv' /\ HistoryStays(r)
  <1>1. /\ RegistryTypeOK /\ PlaceFollows(r) /\ CommitFollows(r) /\ r # 0 /\ r \in Nat /\ replied[r] = "nothing"
    BY RequestIs DEF AppendTransition
  <1>2. change[r].at = "append" /\ UNCHANGED <<registryHead, manifest>> BY DEF AppendTransition
  <1>3. \A e \in Partly(registryEvents, registryHead.last) \cup {AppendRecord(registryEvents, registryHead.last)} :
           e \in Journals /\ IsJournal(e, registryHead) /\ Whole(e, registryHead) = NowWhole
    BY <1>2, AppendedOrPartly
  <1>4. CASE /\ registryEvents' = AppendRecord(registryEvents, registryHead.last)
             /\ ChangeTo(r, "recheck") /\ registryLock' = 0
    <2>1. registryEvents' \in Journals /\ IsJournal(registryEvents, registryHead)' /\ NowWhole' = NowWhole
      BY <1>2, <1>3, <1>4 DEF NowWhole
    <2>2. /\ change' \in [Changers -> ChangeRecords] /\ DOMAIN replied' = Changers /\ OnlyRequest(r)
          /\ change'[r].at = "recheck" /\ change'[r].expected = change[r].expected /\ replied'[r] = replied[r]
      BY <1>1, <1>2, <1>4, MovesTo DEF TaskPlaces, Locked
    <2>3. PlaceFollows(r)' BY <1>1, <1>4, <2>2 DEF PlaceFollows, Locked
    <2>4. CommitFollows(r)'
      <3>2. ExpectedIs(r, change[r].expected, registryEvents', registryHead')
        BY <2>1, <1>1, <1>2 DEF ExpectedIs, NowWhole, CommitFollows
      <3> QED BY <1>1, <2>2, <3>2 DEF CommitFollows, Uncommitted
    <2>5. RegistryTypeOK' BY <1>1, <1>2, <1>4, <2>1, <2>2 DEF RegistryTypeOK
    <2>6. registryLock = r BY <1>1, <1>2 DEF PlaceFollows, Locked
    <2>7. HistoryStays(r) /\ LockIsHis(r) BY <1>4, <2>1, <2>6 DEF HistoryStays, LockIsHis
    <2>8. Replayed(NowWhole') = registryHead'.projects BY <1>2, <2>1 DEF RegistryInv, NowWhole
    <2> QED BY <2>1, <2>2, <2>3, <2>4, <2>5, <2>7, <2>8, StepKeeps
  <1>5. CASE Fails(r, Partly(registryEvents, registryHead.last) \cup {AppendRecord(registryEvents, registryHead.last)})
    BY <1>2, <1>3, <1>5, FailsKeeps DEF Locked
  <1> QED BY <1>4, <1>5 DEF AppendTransition

LEMMA RecheckKeeps == ASSUME RegistryInv, NEW r \in Changers, Recheck(r) PROVE RegistryInv' /\ HistoryStays(r)
  <1>1. RegistryTypeOK /\ PlaceFollows(r) BY RequestIs
  <1>2. change[r].at = "recheck" /\ UNCHANGED <<registryHead, registryEvents, manifest, registryLock>> BY DEF Recheck
  <1>3. PICK what \in {"done", "uncertain"} : Over(r, what) BY DEF Recheck
  <1>4. /\ change' \in [Changers -> ChangeRecords] /\ DOMAIN replied' = Changers /\ OnlyRequest(r)
        /\ change'[r].at = "over" /\ replied'[r] \in {what, "uncertain"}
    BY <1>1, <1>3, OverSays
  <1>5. PlaceFollows(r)' BY <1>1, <1>2, <1>4 DEF PlaceFollows, Locked
  <1>7. manifest' \in [Projects -> Nat] BY <1>1, <1>2 DEF RegistryTypeOK
  <1> QED BY <1>2, <1>4, <1>5, <1>7, NothingWritten DEF CommitFollows, Uncommitted

\* The transition of a request that is about to be made.
LEMMA NextHeadIs ==
    ASSUME RegistryInv, NEW r \in Changers, change[r].at = "write"
    PROVE  /\ NextHead(r) \in RegistryHeads /\ NextHead(r).last.id = r /\ NextHead(r).last \in Transitions
           /\ IsJournal(registryEvents, NextHead(r))
           /\ Whole(registryEvents, NextHead(r)) = Append(NowWhole, NextHead(r).last)
           /\ Len(registryEvents.lines) < NextHead(r).revision
           /\ Replayed(Whole(registryEvents, NextHead(r))) = NextHead(r).projects
           /\ ExpectedIs(r, change[r].expected, registryEvents, NextHead(r))
  <1> DEFINE g == NextHead(r)
             op == change[r].op
             t == Transition(r, registryHead.revision + 1, op.name, op.project)
  <1>1. /\ RegistryTypeOK /\ PlaceFollows(r) /\ r # 0 /\ r \in Nat /\ change[r] \in ChangeRecords
        /\ registryEvents \in Journals /\ registryHead \in RegistryHeads /\ IsJournal(registryEvents, registryHead)
        /\ ~Occurs(r, registryEvents, registryHead)
    BY RequestIs DEF Uncommitted
  <1>2. /\ registryEvents.tail = NoTail /\ Len(registryEvents.lines) = registryHead.revision
        /\ change[r].expected \in {AnyRevision, registryHead.revision}
    BY <1>1 DEF PlaceFollows
  <1>3. op \in Operations /\ op.name \in OperationNames BY <1>1, ChangeFields, RegistryAssumption DEF TaskPlaces, Locked
  <1>5. registryHead.revision \in Nat /\ registryHead.projects \in [Projects -> Lifecycles] BY <1>1, RecordFields
  <1>6. t \in Transitions /\ t.id = r /\ t.revision = registryHead.revision + 1 /\ t.name = op.name /\ t.project = op.project
    <2>2. op.name \in TransitionNames BY <1>3 DEF TransitionNames
    <2> HIDE DEF op
    <2> QED BY <1>1, <1>5, <1>3, <2>2 DEF Transitions, Transition, Targets
  <1>7. Reduced(op, registryHead.projects) \in [Projects -> Lifecycles]
    <2>1. CASE op.name = "unregister_all" BY <2>1 DEF Reduced, Lifecycles
    <2>2. CASE op.name # "unregister_all"
      <3>1. Target(op.name) \in Lifecycles
        <4> QED BY <1>3, <2>2 DEF Target, Lifecycles, OperationNames
      <3> HIDE DEF op
      <3> QED BY <1>3, RegistryAssumption, <1>5, <2>2, <3>1 DEF Reduced
    <2> QED BY <2>1, <2>2
  <1>8. g = [revision |-> registryHead.revision + 1, last |-> t, projects |-> Reduced(op, registryHead.projects)]
    BY DEF NextHead
  <1> HIDE DEF g, op, t
  <1>9. g \in RegistryHeads /\ g.revision = registryHead.revision + 1 /\ g.last = t
        /\ g.projects = Reduced(op, registryHead.projects)
    BY <1>5, <1>6, <1>7, <1>8 DEF RegistryHeads
  <1>10. /\ NowWhole \in Seq(Transitions) /\ Len(NowWhole) = registryHead.revision
         /\ \A i \in 1..registryHead.revision : NowWhole[i].id # r
    BY <1>1, WholeIs DEF NowWhole, Occurs
  <1>11. /\ IsJournal(registryEvents, g) /\ Whole(registryEvents, g) = Append(NowWhole, t)
         /\ Len(registryEvents.lines) < g.revision
    BY <1>1, <1>2, <1>6, <1>9, <1>10, HeadKeeps DEF NowWhole
  <1>12. Replayed(Append(NowWhole, t)) = g.projects
    <2>1. Replayed(Append(NowWhole, t)) = Advanced(t, Replayed(NowWhole)) BY <1>6, <1>10, ReplayedIsAdvanced
    <2>3. t.name # "BOOTSTRAP" BY <1>3, <1>6 DEF OperationNames
    <2>4. Reduced(RECORD(t), registryHead.projects) = Reduced(op, registryHead.projects) BY <1>6 DEF Reduced, RECORD
    <2> QED BY <1>9, <2>1, <2>3, <2>4 DEF Advanced, RegistryInv, NowWhole
  <1>13. ExpectedIs(r, change[r].expected, registryEvents, g)
    <2>1. /\ Len(Append(NowWhole, t)) = registryHead.revision + 1
          /\ \A i \in 1..registryHead.revision : Append(NowWhole, t)[i] = NowWhole[i]
      BY <1>6, <1>10, AppendIs
    <2>3. \A i \in 1..(registryHead.revision + 1) : Append(NowWhole, t)[i].id = r => i - 1 = registryHead.revision
      BY <1>10, <2>1, <1>5
    <2> QED BY <1>2, <1>11, <2>1, <2>3 DEF ExpectedIs
  <1> QED BY <1>6, <1>9, <1>11, <1>12, <1>13 DEF g

LEMMA ReplaceKeeps == ASSUME RegistryInv, NEW r \in Changers, ReplaceHead(r) PROVE RegistryInv' /\ HistoryStays(r)
  <1>1. /\ RegistryTypeOK /\ PlaceFollows(r) /\ r # 0 /\ r \in Nat /\ replied[r] = "nothing"
        /\ registryEvents \in Journals
    BY RequestIs DEF ReplaceHead
  <1>2. change[r].at = "write" /\ registryHead' = NextHead(r) /\ manifest' = manifest BY DEF ReplaceHead
  <1>3. registryLock = r /\ registryEvents.tail = NoTail BY <1>1, <1>2 DEF PlaceFollows, Locked
  <1>4. /\ NextHead(r) \in RegistryHeads /\ NextHead(r).last.id = r /\ NextHead(r).last \in Transitions
        /\ IsJournal(registryEvents, NextHead(r))
        /\ Whole(registryEvents, NextHead(r)) = Append(NowWhole, NextHead(r).last)
        /\ Len(registryEvents.lines) < NextHead(r).revision
        /\ Replayed(Whole(registryEvents, NextHead(r))) = NextHead(r).projects
        /\ ExpectedIs(r, change[r].expected, registryEvents, NextHead(r))
    BY <1>2, NextHeadIs
  <1>5. registryEvents' = registryEvents BY DEF ReplaceHead, Fails
  <1>6. IsJournal(registryEvents, registryHead)' /\ NowWhole' = Append(NowWhole, NextHead(r).last)
        /\ Replayed(NowWhole') = registryHead'.projects
    BY <1>2, <1>4, <1>5 DEF NowWhole
  <1>7. HistoryStays(r) BY <1>4, <1>6 DEF HistoryStays
  <1>8. CASE ChangeTo(r, "append") /\ registryLock' = registryLock
    <2>1. /\ change' \in [Changers -> ChangeRecords] /\ DOMAIN replied' = Changers /\ OnlyRequest(r)
          /\ change'[r].at = "append" /\ change'[r].expected = change[r].expected /\ replied'[r] = replied[r]
      BY <1>1, <1>2, <1>8, MovesTo DEF TaskPlaces, Locked
    <2>2. PlaceFollows(r)' BY <1>2, <1>3, <1>4, <1>5, <1>8, <2>1 DEF PlaceFollows, Locked
    <2>3. CommitFollows(r)' BY <1>1, <1>2, <1>4, <1>5, <2>1 DEF CommitFollows, Uncommitted
    <2>4. RegistryTypeOK' BY <1>1, <1>2, <1>4, <1>5, <1>8, <2>1 DEF RegistryTypeOK
    <2>5. LockIsHis(r) BY <1>3, <1>8 DEF LockIsHis
    <2> QED BY <1>6, <1>7, <2>1, <2>2, <2>3, <2>4, <2>5, StepKeeps
  <1>9. CASE Fails(r, {registryEvents})
    <2>1. registryLock' = 0 /\ Over(r, "uncertain") BY <1>9 DEF Fails
    <2>2. /\ change' \in [Changers -> ChangeRecords] /\ DOMAIN replied' = Changers /\ OnlyRequest(r)
          /\ change'[r].at = "over" /\ replied'[r] = "uncertain"
      BY <1>1, <2>1, OverSays
    <2>3. PlaceFollows(r)' BY <1>1, <2>1, <2>2 DEF PlaceFollows, Locked
    <2>4. CommitFollows(r)' BY <2>2 DEF CommitFollows, Uncommitted
    <2>5. RegistryTypeOK' BY <1>1, <1>2, <1>4, <1>5, <2>1, <2>2 DEF RegistryTypeOK
    <2>6. LockIsHis(r) BY <1>3, <2>1 DEF LockIsHis
    <2> QED BY <1>6, <1>7, <2>2, <2>3, <2>4, <2>5, <2>6, StepKeeps
  <1> QED BY <1>8, <1>9 DEF ReplaceHead

LEMMA ReplaceFailsKeeps == ASSUME RegistryInv, NEW r \in Changers, ReplaceHeadFails(r) PROVE RegistryInv' /\ HistoryStays(r)
  <1>2. registryEvents \in Journals /\ IsJournal(registryEvents, registryHead) BY RequestIs
  <1> QED BY <1>2, FailsKeeps DEF Locked, NowWhole, ReplaceHeadFails

------------
LEMMA EditKeeps ==
    ASSUME RegistryInv, NEW p \in Projects, EditManifest(p)
    PROVE  RegistryInv' /\ UNCHANGED <<registryHead, registryEvents>>
  <1>1. UNCHANGED <<registryHead, registryEvents, registryLock, change, replied>> BY DEF EditManifest
  <1>2. manifest' \in [Projects -> Nat]
    <2>1. PICK m \in {0, 2} : manifest' = [manifest EXCEPT ![p] = m] BY DEF EditManifest
    <2> QED BY <2>1 DEF RegistryInv, RegistryTypeOK
  <1>4. \A q \in Changers : PlaceFollows(q)' /\ CommitFollows(q)' BY <1>1 DEF RegistryInv, PlaceFollows, CommitFollows
  <1> QED BY <1>1, <1>2, <1>4 DEF RegistryInv, RegistryTypeOK

LEMMA StopKeeps == ASSUME RegistryInv, StopServer PROVE RegistryInv' /\ NowWhole' = NowWhole
  <1>1. registryLock' = 0 /\ registryHead' = registryHead /\ manifest' = manifest BY DEF StopServer
  <1>2. registryEvents' \in Journals /\ IsJournal(registryEvents', registryHead) /\ Whole(registryEvents', registryHead) = NowWhole
    <2>1. CASE \E r \in Changers : Appending(r)
      <3>1. PICK r \in Changers : change[r].at \in {"repair", "append"} BY <2>1 DEF Appending
      <3>3. registryEvents' \in {registryEvents} \cup Partly(registryEvents, registryHead.last) BY <2>1 DEF StopServer
      <3> QED BY <3>1, AppendedOrPartly, <3>3 DEF RegistryInv, RegistryTypeOK, NowWhole
    <2>2. CASE ~\E r \in Changers : Appending(r)
      <3> QED BY <2>2 DEF RegistryInv, RegistryTypeOK, NowWhole, StopServer
    <2> QED BY <2>1, <2>2
  <1>3. NowWhole' = NowWhole BY <1>1, <1>2 DEF NowWhole
  <1>4. \A q \in Changers :
           /\ change'[q] \in ChangeRecords
           /\ change'[q].at \in {"new", "reading", "over"}
           /\ change'[q].at \in {"new", "reading"} => change'[q] = change[q] /\ replied'[q] = replied[q]
           /\ change'[q].at = "over" => replied'[q] = "uncertain" \/ (replied'[q] = replied[q] /\ change[q].at = "over")
    <2> TAKE q \in Changers
    <2>2. CASE TaskRuns(q)
      <3>1. change'[q] = [at |-> "over"] /\ replied'[q] = "uncertain" BY <2>2 DEF StopServer
      <3> QED BY <3>1 DEF ChangeRecords
    <2>3. CASE ~TaskRuns(q)
      <3>1. change'[q] = change[q] /\ replied'[q] = replied[q] BY <2>3 DEF StopServer
      <3>2. change[q].at \in {"new", "reading", "over"} BY <2>3 DEF TaskRuns
      <3> QED BY <3>1, <3>2 DEF RegistryInv, RegistryTypeOK
    <2> QED BY <2>2, <2>3
  <1>5. RegistryTypeOK'
    <2>1. change' \in [Changers -> ChangeRecords]
      <3> QED BY <1>4 DEF StopServer
    <2> QED BY <1>1, <1>2, <2>1 DEF RegistryInv, RegistryTypeOK, StopServer
  <1>6. \A q \in Changers : PlaceFollows(q)' /\ CommitFollows(q)'
    <2> TAKE q \in Changers
    <2>2. PlaceFollows(q)' BY <1>1, <1>4, RegistryAssumption DEF PlaceFollows, Locked
    <2>4. CommitFollows(q) BY DEF RegistryInv
    <2>5. CommitFollows(q)' BY <1>4, <1>3, <2>4 DEF CommitFollows, Uncommitted, Occurs, NowWhole
    <2> QED BY <2>2, <2>5
  <1> QED BY <1>3, <1>5, <1>6, <1>1, <1>2 DEF RegistryInv, NowWhole

------------
LEMMA RegistryStarts == RegistryInit => RegistryInv
  <1> SUFFICES ASSUME RegistryInit PROVE RegistryInv OBVIOUS
  <1> DEFINE b == BootstrapTransition
  <1>1. /\ registryHead = [revision |-> 1, last |-> b, projects |-> Seeded]
        /\ registryEvents = [lines |-> <<b>>, tail |-> NoTail]
        /\ manifest = [p \in Projects |-> 1] /\ registryLock = 0
        /\ change = [r \in Changers |-> [at |-> "new"]] /\ replied = [r \in Changers |-> "nothing"]
    BY DEF RegistryInit
  <1>2. b \in Transitions /\ b.id = 0 /\ b.revision = 1 /\ NoTail \in Transitions
    BY DEF BootstrapTransition, NoTail, Transition, Transitions, TransitionNames, Targets, FirstId
  <1>4. Replayed(<<b>>) = Seeded BY ReplayedFirst
  <1> HIDE DEF b
  <1>5. registryHead \in RegistryHeads /\ registryHead.revision = 1 /\ registryHead.last = b /\ registryHead.projects = Seeded
    BY <1>1, <1>2 DEF RegistryHeads, Seeded, Lifecycles
  <1>6. <<b>> \in Seq(Transitions) /\ Len(<<b>>) = 1 /\ <<b>>[1] = b BY <1>2
  <1>7. registryEvents \in Journals /\ registryEvents.lines = <<b>> /\ registryEvents.tail = NoTail
    BY <1>1, <1>2, <1>6 DEF Journals
  <1>8. \A q \in Changers : change[q].at = "new" /\ change[q] \in ChangeRecords /\ replied[q] = "nothing" /\ q # 0
    BY <1>1, RegistryAssumption DEF ChangeRecords
  <1>9. RegistryTypeOK
    <2> QED BY <1>1, <1>5, <1>7, <1>8 DEF RegistryTypeOK
  <1>10. IsJournal(registryEvents, registryHead) BY <1>2, <1>5, <1>6, <1>7 DEF IsJournal
  <1>11. NowWhole = <<b>> BY <1>5, <1>6, <1>7 DEF NowWhole, Whole
  <1>12. Replayed(NowWhole) = registryHead.projects BY <1>4, <1>5, <1>11
  <1>13. \A q \in Changers : PlaceFollows(q) /\ CommitFollows(q)
    <2> TAKE q \in Changers
    <2>3. CommitFollows(q) BY <1>8, <1>2, <1>6, <1>11 DEF CommitFollows, Occurs, NowWhole
    <2> QED BY <1>1, <1>8, <2>3 DEF PlaceFollows, Locked
  <1> QED BY <1>9, <1>10, <1>12, <1>13 DEF RegistryInv, NowWhole

LEMMA RegistryStep ==
    ASSUME RegistryInv, [RegistryNext]_projectVars
    PROVE  RegistryInv' /\ (NowWhole' = NowWhole \/ \E t \in Transitions : NowWhole' = Append(NowWhole, t))
  <1>1. ASSUME NEW r \in Changers, Changing(r) PROVE RegistryInv' /\ HistoryStays(r)
    BY <1>1, ListKeeps, StartKeeps, LockKeeps, PlanKeeps, NormalizeKeeps, RepairKeeps, ReplaceKeeps, ReplaceFailsKeeps,
       AppendingKeeps, RecheckKeeps DEF Changing
  <1>2. CASE \E r \in Changers : Changing(r) BY <1>1, <1>2 DEF HistoryStays
  <1>3. CASE \E p \in Projects : EditManifest(p) BY <1>3, EditKeeps DEF NowWhole
  <1>4. CASE StopServer BY <1>4, StopKeeps
  <1>5. CASE UNCHANGED projectVars
    <2>2. \A q \in Changers : PlaceFollows(q)' /\ CommitFollows(q)'
      BY <1>5 DEF projectVars, RegistryInv, PlaceFollows, CommitFollows
    <2>3. RegistryTypeOK' BY <1>5 DEF projectVars, RegistryInv, RegistryTypeOK
    <2> QED BY <1>5, <2>2, <2>3 DEF projectVars, RegistryInv, NowWhole
  <1> QED BY <1>2, <1>3, <1>4, <1>5 DEF RegistryNext

LEMMA HistoryIsWhole == RegistryInv => History = NowWhole /\ Recoverable(registryHead, CompleteLines(registryEvents))
  BY LoadIsSound DEF RegistryInv, RegistryTypeOK, History, NowWhole

LEMMA RegistryFollows == RegistryInv => RegistryIsSound
  <1> SUFFICES ASSUME RegistryInv PROVE RegistryIsSound OBVIOUS
  <1>1. History = NowWhole /\ Recoverable(registryHead, CompleteLines(registryEvents)) BY HistoryIsWhole
  <1>3. HistoryExplains BY <1>1 DEF HistoryExplains, RegistryInv, NowWhole
  <1>4. RepliesAreTrue
    <2> SUFFICES ASSUME NEW r \in Changers
                 PROVE  /\ replied[r] = "refused" => ~Committed(r)
                        /\ \A i \in 1..Len(History) : History[i].id = r /\ "expected" \in DOMAIN change[r]
                                                        => change[r].expected \in {AnyRevision, i - 1}
      BY DEF RepliesAreTrue
    <2>1. CommitFollows(r) /\ change[r] \in ChangeRecords BY RequestIs
    <2>3. replied[r] = "refused" => ~Committed(r) BY <2>1, <1>1 DEF CommitFollows, Committed, Occurs, NowWhole
    <2>4. ASSUME NEW i \in 1..Len(History), History[i].id = r, "expected" \in DOMAIN change[r]
          PROVE change[r].expected \in {AnyRevision, i - 1}
      <3>2. change[r].at \notin Uncommitted BY <2>1, <1>1, <2>4 DEF CommitFollows, Occurs, NowWhole
      <3>3. change[r].at # "over"
        <4>1. CASE change[r] = [at |-> "new"] BY <4>1
        <4>2. CASE change[r] = [at |-> "over"] BY <2>4, <4>2
        <4>3. CASE change[r] \in [at : {"reading"}, expected : Nat] BY <4>3
        <4>4. CASE change[r] \in Tasks BY <4>4 DEF Tasks, TaskPlaces, Locked
        <4> QED BY <2>1, <4>1, <4>2, <4>3, <4>4 DEF ChangeRecords
      <3>4. change[r].at \in {"append", "recheck"}
        BY <2>1, <3>2, <3>3, ChangeFields DEF Uncommitted, TaskPlaces, Locked
      <3> QED BY <1>1, <2>4, <2>1, <3>4 DEF ExpectedIs, NowWhole, CommitFollows
    <2> QED BY <2>3, <2>4
  <1> QED BY <1>3, <1>4 DEF RegistryIsSound

LEMMA PrefixStays ==
    ASSUME NEW s \in Seq(Transitions)
    PROVE  IsPrefix(s, s) /\ \A t \in Transitions : IsPrefix(s, Append(s, t))
  <1>2. ASSUME NEW t \in Transitions PROVE IsPrefix(s, Append(s, t))
    <2>1. Append(s, t) \in Seq(Transitions) /\ Len(s) <= Len(Append(s, t)) /\ \A i \in 1..Len(s) : Append(s, t)[i] = s[i]
      BY AppendIs
    <2> QED BY <2>1 DEF IsPrefix
  <1> QED BY <1>2 DEF IsPrefix

(* For every set of Projects, requests and operations, every number of
   failing writes and stops: what is left of projects/store.rs's head and
   journal can be loaded and explains the records, nobody who was refused
   has a transition in the history, and a transition is on the revision
   its request expected. *)
THEOREM RegistryStaysSound == RegistrySpec => []RegistryIsSound
  <1>1. RegistryInit => RegistryInv BY RegistryStarts
  <1>2. RegistryInv /\ [RegistryNext]_projectVars => RegistryInv' BY RegistryStep
  <1>3. RegistryInv => RegistryIsSound BY RegistryFollows
  <1> QED BY <1>1, <1>2, <1>3, PTL DEF RegistrySpec

(* The history of the Projects is only added to, by one transition at a
   time, whichever write of projects/store.rs fails or is cut. *)
THEOREM HistoryGrows == RegistrySpec => HistoryOnlyGrows
  <1>1. RegistryInit => RegistryInv BY RegistryStarts
  <1>2. RegistryInv /\ [RegistryNext]_projectVars => RegistryInv' BY RegistryStep
  <1>0. (RegistryInv => History = NowWhole)'
    <2>1. RegistryInv => History = NowWhole BY HistoryIsWhole
    <2> QED BY <2>1, PTL
  <1>3. ASSUME RegistryInv, RegistryInv', [RegistryNext]_projectVars PROVE IsPrefix(History, History')
    <2>1. History = NowWhole /\ History' = NowWhole' BY <1>3, <1>0, HistoryIsWhole
    <2>2. NowWhole \in Seq(Transitions) BY <1>3, WholeIs DEF RegistryInv, RegistryTypeOK, NowWhole
    <2> QED BY <2>1, <2>2, <1>3, RegistryStep, PrefixStays
  <1>4. RegistryInv /\ RegistryInv' /\ [RegistryNext]_projectVars => [IsPrefix(History, History')]_projectVars BY <1>3
  <1> QED BY <1>1, <1>2, <1>4, PTL DEF RegistrySpec, HistoryOnlyGrows

------------
(* Sources: what the client packs, and what the server keeps of it.
   client/sources.rs: the directory and its archive. *)
FileContents == {<<>>, <<"x">>, <<"y">>}
DirectoryFiles == [chunks : FileContents, executable : BOOLEAN, stamp : Nat]
PackedFile(p) == [path |-> p, executable |-> Look(p).executable, chunks |-> Look(p).chunks]
Observations == UNION {[S -> Nat] : S \in SUBSET SourcePaths}
PackedFiles == [path : SourcePaths, executable : BOOLEAN, chunks : FileContents]
PackPlaces == {"open", "observe", "read", "again", "names", "packed", "refused"}
Asides == UNION {[S -> DirectoryFiles] : S \in SUBSET SourcePaths}
Packs == [at : PackPlaces, seen : Observations, read : SUBSET PackedFiles, aside : Asides]

PackTypeOK ==
    /\ edits \in Nat
    /\ directory \in [SourcePaths -> DirectoryFiles]
    /\ archiving \in Packs

\* A stamp is never used again.
StampsAreOld ==
    /\ \A p \in SourcePaths : directory[p].stamp <= edits + 1 /\ Look(p).stamp <= edits + 1
    /\ \A p \in DOMAIN archiving.seen : archiving.seen[p] <= edits + 1

\* As long as a file is the one that was seen, what was read of it is what it holds.
ReadIsFile ==
    \A f \in archiving.read :
        /\ f.path \in SeenFiles
        /\ Look(f.path).stamp = archiving.seen[f.path] => f = PackedFile(f.path)

WasMissing(p) == \E m \in moments : \A f \in m : f.path # p
MissingWasMissing ==
    /\ \A p \in DOMAIN archiving.seen : archiving.seen[p] = 0 => WasMissing(p)
    /\ \A p \in SourcePaths : Look(p).stamp = 0 => WasMissing(p)

WalkIsOver ==
    /\ archiving.at \in {"read", "again", "names", "packed"} => DOMAIN archiving.seen = SourcePaths
    /\ archiving.at \in {"again", "names", "packed"} => \A p \in SeenFiles : \E f \in archiving.read : f.path = p
    /\ archiving.at \in {"names", "packed"} /\ DOMAIN archiving.aside = {} => \E m \in moments : archiving.read \subseteq m

AsideIsOpen == DOMAIN archiving.aside \subseteq InDirectory

PackInv ==
    /\ PackTypeOK /\ TreeOf(directory) \in moments /\ StampsAreOld /\ ReadIsFile /\ MissingWasMissing
    /\ WalkIsOver /\ AsideIsOpen

LEMMA FirstIsThere == ASSUME NEW S \in SUBSET SourcePaths, S # {} PROVE FirstPath(S) \in S
  <1>1. Before(<<1, 1>>, <<2>>)
    <2>2. SubSeq(<<1, 1>>, 1, 0) = SubSeq(<<2>>, 1, 0) OBVIOUS
    <2>3. 0 \in 0..2 OBVIOUS
    <2> QED BY <2>2, <2>3 DEF Before
  <1>2. \E q \in S : \A o \in S : o = q \/ Before(q, o)
    <2>1. CASE <<1, 1>> \in S BY <1>1, <2>1 DEF SourcePaths
    <2>2. CASE <<1, 1>> \notin S BY <2>2 DEF SourcePaths
    <2> QED BY <2>1, <2>2
  <1> QED BY <1>2 DEF FirstPath

LEMMA NextIsThere == ASSUME NEW S \in SUBSET SourcePaths, S # {} PROVE NextToSee(S) \in S
  <1>1. S \ InDirectory \in SUBSET SourcePaths /\ S \ InDirectory \subseteq S OBVIOUS
  <1>2. S \ InDirectory # {} => FirstPath(S \ InDirectory) \in S \ InDirectory BY <1>1, FirstIsThere
  <1> QED BY <1>1, <1>2, FirstIsThere DEF NextToSee

LEMMA PackStarts == PackingInit => PackInv
  <1> SUFFICES ASSUME PackingInit PROVE PackInv OBVIOUS
  <1>1. PICK present \in {SourcePaths, {<<1, 1>>}} :
          directory = [p \in SourcePaths |-> IF p \in present THEN [chunks |-> <<"x">>, executable |-> FALSE, stamp |-> 1] ELSE NotThere]
    BY DEF PackingInit
  <1> DEFINE empty == [p \in {} |-> NotThere]
  <1>2. edits = 0 /\ moments = {TreeOf(directory)}
        /\ archiving = [at |-> "open", seen |-> [p \in {} |-> 0], read |-> {}, aside |-> empty]
    BY DEF PackingInit
  <1>3. directory \in [SourcePaths -> DirectoryFiles] /\ \A p \in SourcePaths : directory[p].stamp <= 1
    BY <1>1 DEF DirectoryFiles, NotThere, FileContents
  <1>4. [p \in {} |-> 0] \in Observations /\ empty \in Asides
    <2>1. [p \in {} |-> 0] \in [{} -> Nat] /\ empty \in [{} -> DirectoryFiles] OBVIOUS
    <2>2. {} \in SUBSET SourcePaths OBVIOUS
    <2> QED BY <2>1, <2>2 DEF Observations, Asides
  <1>5. PackTypeOK BY <1>2, <1>3, <1>4 DEF PackTypeOK, PackPlaces, Packs
  <1>6. DOMAIN archiving.seen = {} /\ archiving.read = {} /\ archiving.at = "open" /\ DOMAIN archiving.aside = {} BY <1>2
  <1>7. \A p \in SourcePaths : Look(p) = directory[p] BY <1>6 DEF Look
  <1>8. MissingWasMissing BY <1>2, <1>6, <1>7 DEF MissingWasMissing, WasMissing, TreeOf, PresentFiles
  <1> QED BY <1>2, <1>3, <1>5, <1>6, <1>7, <1>8 DEF PackInv, StampsAreOld, ReadIsFile, WalkIsOver, AsideIsOpen

LEMMA ObservationFields ==
    ASSUME PackTypeOK
    PROVE  /\ archiving.at \in PackPlaces /\ archiving.seen \in Observations /\ archiving.read \in SUBSET PackedFiles
           /\ archiving.aside \in Asides
           /\ DOMAIN archiving.seen \in SUBSET SourcePaths /\ \A p \in DOMAIN archiving.seen : archiving.seen[p] \in Nat
           /\ archiving = [at |-> archiving.at, seen |-> archiving.seen, read |-> archiving.read, aside |-> archiving.aside]
           /\ \A p \in SourcePaths : Look(p) \in DirectoryFiles
  <1>1. archiving.aside \in Asides /\ \A p \in DOMAIN archiving.aside : archiving.aside[p] \in DirectoryFiles
    BY DEF PackTypeOK, Packs, Asides
  <1>2. \A p \in SourcePaths : Look(p) \in DirectoryFiles BY <1>1 DEF Look, PackTypeOK
  <1> QED BY <1>1, <1>2 DEF PackTypeOK, Observations, Packs

\* The archive of a packing that moved on, with the same files beside it.
Packing(d, at, seen, read) == d = [at |-> at, seen |-> seen, read |-> read, aside |-> archiving.aside]

LEMMA PackingIs ==
    ASSUME PackInv, NEW at \in PackPlaces, NEW seen \in Observations, NEW read \in SUBSET PackedFiles,
           Packing(archiving', at, seen, read)
    PROVE  /\ archiving'.at = at /\ archiving'.seen = seen /\ archiving'.read = read
           /\ archiving'.aside = archiving.aside /\ archiving' \in Packs
  BY ObservationFields DEF PackInv, Packing, Packs

LEMMA SeesTheSame == ASSUME UNCHANGED directory, archiving'.aside = archiving.aside PROVE \A p : Look(p)' = Look(p)
  BY DEF Look

\* What a step of the packing leaves alone while the directory stays.
LEMMA PackMoves ==
    ASSUME PackInv, NEW at \in PackPlaces, PackTo(at)
    PROVE  /\ archiving'.at = at /\ archiving'.seen = archiving.seen /\ archiving'.read = archiving.read
           /\ archiving'.aside = archiving.aside /\ archiving' \in Packs
  <1>1. Packing(archiving', at, archiving.seen, archiving.read) BY ObservationFields DEF PackInv, PackTo, Packing
  <1> QED BY <1>1, PackingIs, ObservationFields DEF PackInv

\* Nothing but the place of the packing changes.
LEMMA PlaceKeeps ==
    ASSUME PackInv, NEW at \in PackPlaces, PackTo(at), UNCHANGED <<directory, edits, moments>>, WalkIsOver'
    PROVE  PackInv'
  <1>1. archiving' \in Packs /\ archiving'.seen = archiving.seen /\ archiving'.read = archiving.read
        /\ archiving'.aside = archiving.aside
    BY PackMoves
  <1>2. \A p : Look(p)' = Look(p) BY <1>1, SeesTheSame
  <1>4. (TreeOf(directory) \in moments)' BY DEF PackInv, TreeOf, PresentFiles
  <1>5. StampsAreOld' BY <1>1, <1>2 DEF PackInv, StampsAreOld
  <1>6. ReadIsFile' BY <1>1, <1>2 DEF PackInv, ReadIsFile, PackedFile, SeenFiles
  <1>7. MissingWasMissing' BY <1>1, <1>2 DEF PackInv, MissingWasMissing, WasMissing
  <1> QED BY <1>1, <1>4, <1>5, <1>6, <1>7 DEF PackInv, PackTypeOK, AsideIsOpen

LEMMA EditKeepsPacking == ASSUME PackInv, Edit PROVE PackInv'
  <1>1. edits' = edits + 1 /\ UNCHANGED archiving /\ moments' = moments \cup {TreeOf(directory')} /\ edits \in Nat
    BY DEF Edit, PackInv, PackTypeOK
  <1>2. PICK p \in SourcePaths :
          \/ PutFile(p, <<"y">>, directory[p].executable)
          \/ p \in PresentFiles(directory) /\ PutFile(p, directory[p].chunks, ~directory[p].executable)
          \/ p \in PresentFiles(directory) /\ directory' = [directory EXCEPT ![p] = NotThere]
    BY DEF Edit
  <1>3. directory \in [SourcePaths -> DirectoryFiles] /\ directory[p] \in DirectoryFiles BY DEF PackInv, PackTypeOK
  <1>4. directory[p].chunks \in FileContents /\ directory[p].executable \in BOOLEAN BY <1>3 DEF DirectoryFiles
  <1>5. PICK file \in DirectoryFiles : directory' = [directory EXCEPT ![p] = file] /\ file.stamp \in {0, edits + 2}
    <2>1. CASE PutFile(p, <<"y">>, directory[p].executable)
      <3>1. [chunks |-> <<"y">>, executable |-> directory[p].executable, stamp |-> edits + 2] \in DirectoryFiles
        BY <1>1, <1>4 DEF DirectoryFiles, FileContents
      <3> QED BY <2>1, <3>1 DEF PutFile
    <2>2. CASE PutFile(p, directory[p].chunks, ~directory[p].executable)
      <3>1. [chunks |-> directory[p].chunks, executable |-> ~directory[p].executable, stamp |-> edits + 2] \in DirectoryFiles
        BY <1>1, <1>4 DEF DirectoryFiles
      <3> QED BY <2>2, <3>1 DEF PutFile
    <2>3. CASE directory' = [directory EXCEPT ![p] = NotThere]
      <3>1. NotThere \in DirectoryFiles /\ NotThere.stamp = 0 BY DEF NotThere, DirectoryFiles, FileContents
      <3> QED BY <2>3, <3>1
    <2> QED BY <1>2, <2>1, <2>2, <2>3
  <1>6. /\ directory' \in [SourcePaths -> DirectoryFiles] /\ directory'[p] = file
        /\ \A q \in SourcePaths \ {p} : directory'[q] = directory[q]
    BY <1>3, <1>5
  <1>7. PackTypeOK' BY <1>1, <1>6 DEF PackInv, PackTypeOK
  <1>8. \A q \in SourcePaths : Look(q)' = Look(q) \/ (q = p /\ Look(q)' = file /\ directory'[q] = file)
    BY <1>1, <1>6 DEF Look
  <1>9. StampsAreOld'
    <2>1. \A q \in SourcePaths : directory'[q].stamp <= edits + 2 /\ (Look(q)').stamp <= edits + 2
      <3>1. \A q \in SourcePaths : directory[q].stamp \in Nat /\ Look(q).stamp \in Nat
        BY ObservationFields, <1>3 DEF PackInv, DirectoryFiles
      <3> QED BY <1>1, <1>5, <1>6, <1>8, <3>1 DEF PackInv, StampsAreOld
    <2> QED BY <1>1, <2>1, ObservationFields DEF StampsAreOld, PackInv
  <1>10. SeenFiles' = SeenFiles BY <1>1 DEF SeenFiles
  <1>11. ReadIsFile'
    <2> SUFFICES ASSUME NEW f \in archiving.read, (Look(f.path)').stamp = archiving.seen[f.path]
                 PROVE f.path \in SeenFiles /\ f = PackedFile(f.path)'
      BY <1>1, <1>10 DEF ReadIsFile, PackInv
    <2>1. f.path \in SeenFiles /\ (Look(f.path).stamp = archiving.seen[f.path] => f = PackedFile(f.path))
      BY DEF PackInv, ReadIsFile
    <2>2. f.path \in DOMAIN archiving.seen /\ archiving.seen[f.path] # 0 /\ f.path \in SourcePaths
      BY <2>1, ObservationFields DEF SeenFiles, PackInv
    <2>4. Look(f.path)' = Look(f.path)
      BY <1>1, <1>5, <1>8, <2>2, ObservationFields DEF PackInv, StampsAreOld
    <2> QED BY <2>1, <2>4 DEF PackedFile
  <1>12. MissingWasMissing'
    <2>1. \A q : WasMissing(q) => WasMissing(q)' BY <1>1 DEF WasMissing
    <2>2. ASSUME NEW q \in SourcePaths, directory'[q].stamp = 0 PROVE WasMissing(q)'
      <3>1. \A f \in TreeOf(directory') : f.path # q BY <2>2 DEF TreeOf, PresentFiles
      <3> QED BY <1>1, <3>1 DEF WasMissing
    <2> QED BY <1>1, <1>8, <2>1, <2>2 DEF PackInv, MissingWasMissing
  <1>13. WalkIsOver' BY <1>1, <1>10 DEF PackInv, WalkIsOver
  <1>14. (TreeOf(directory) \in moments)' BY <1>1 DEF TreeOf, PresentFiles
  <1> QED BY <1>1, <1>7, <1>14, <1>9, <1>11, <1>12, <1>13 DEF PackInv, AsideIsOpen

\* The files of the directory that is open are those they were, wherever it is now.
LEMMA ReplaceKeepsPacking == ASSUME PackInv, ReplaceDirectory PROVE PackInv'
  <1> DEFINE aside == [p \in InDirectory |-> Look(p)]
  <1>1. edits' = edits + 1 /\ moments' = moments \cup {TreeOf(directory')} /\ edits \in Nat
        /\ archiving' = [archiving EXCEPT !.aside = aside]
    BY DEF ReplaceDirectory, PackInv, PackTypeOK
  <1>2. PICK new \in {NotThere, [chunks |-> <<"y">>, executable |-> FALSE, stamp |-> edits + 2]} :
          directory' = [p \in SourcePaths |-> IF p \in InDirectory THEN new ELSE directory[p]]
    BY DEF ReplaceDirectory
  <1>3. new \in DirectoryFiles /\ new.stamp <= edits + 2
    <2>1. CASE new = NotThere BY <1>1, <2>1 DEF NotThere, DirectoryFiles, FileContents
    <2>2. CASE new = [chunks |-> <<"y">>, executable |-> FALSE, stamp |-> edits + 2]
      BY <1>1, <2>2 DEF DirectoryFiles, FileContents
    <2> QED BY <1>2, <2>1, <2>2
  <1>4. InDirectory \in SUBSET SourcePaths BY DEF InDirectory
  <1>5. aside \in Asides
    <2>1. aside \in [InDirectory -> DirectoryFiles] BY <1>4, ObservationFields DEF PackInv
    <2> QED BY <1>4, <2>1 DEF Asides
  <1>6. DOMAIN aside = InDirectory /\ \A p \in InDirectory : aside[p] = Look(p) OBVIOUS
  <1> HIDE DEF aside
  <1>7. archiving' = [at |-> archiving.at, seen |-> archiving.seen, read |-> archiving.read, aside |-> aside]
    BY <1>1, ObservationFields DEF PackInv
  <1>8. archiving'.at = archiving.at /\ archiving'.seen = archiving.seen /\ archiving'.read = archiving.read
        /\ archiving'.aside = aside /\ archiving' \in Packs
    BY <1>5, <1>7, ObservationFields DEF PackInv, Packs
  <1>9. directory' \in [SourcePaths -> DirectoryFiles] /\ \A p \in SourcePaths : directory'[p].stamp <= edits + 2
    <2>1. \A p \in SourcePaths : directory[p] \in DirectoryFiles /\ directory[p].stamp \in Nat /\ directory[p].stamp <= edits + 1
      BY DEF PackInv, PackTypeOK, StampsAreOld, DirectoryFiles
    <2> QED BY <1>1, <1>2, <1>3, <2>1
  <1>10. PackTypeOK' BY <1>1, <1>8, <1>9 DEF PackTypeOK
  <1>11. \A p \in SourcePaths : Look(p)' = Look(p)
    <2>1. \A p \in SourcePaths \ InDirectory : directory'[p] = directory[p] BY <1>2
    <2>2. DOMAIN archiving.aside \subseteq InDirectory BY DEF PackInv, AsideIsOpen
    <2> QED BY <1>6, <1>8, <2>1, <2>2 DEF Look
  <1>12. AsideIsOpen' BY <1>6, <1>8 DEF AsideIsOpen
  <1>13. StampsAreOld'
    <2>1. \A p \in SourcePaths : Look(p).stamp \in Nat BY ObservationFields DEF PackInv, DirectoryFiles
    <2> QED BY <1>1, <1>8, <1>9, <1>11, <2>1, ObservationFields DEF PackInv, StampsAreOld
  <1>14. SeenFiles' = SeenFiles BY <1>8 DEF SeenFiles
  <1>15. ReadIsFile'
    <2>1. SeenFiles \in SUBSET SourcePaths BY ObservationFields DEF PackInv, SeenFiles
    <2> QED BY <1>8, <1>11, <1>14, <2>1 DEF PackInv, ReadIsFile, PackedFile
  <1>16. MissingWasMissing' BY <1>1, <1>8, <1>11 DEF PackInv, MissingWasMissing, WasMissing
  <1>17. WalkIsOver'
    <2>1. DOMAIN archiving.aside \subseteq InDirectory BY DEF PackInv, AsideIsOpen
    <2>2. DOMAIN archiving'.aside = {} => DOMAIN archiving.aside = {} BY <1>6, <1>8, <2>1
    <2> QED BY <1>1, <1>8, <1>14, <2>2 DEF PackInv, WalkIsOver
  <1>18. (TreeOf(directory) \in moments)' BY <1>1 DEF TreeOf, PresentFiles
  <1> QED BY <1>10, <1>12, <1>13, <1>15, <1>16, <1>17, <1>18 DEF PackInv

LEMMA ObserveKeepsPacking == ASSUME PackInv, OpenDirectory \/ ObserveFile PROVE PackInv'
  <1> DEFINE rest == SourcePaths \ DOMAIN archiving.seen
  <1> DEFINE p == NextToSee(rest)
  <1>1. archiving.at \in {"open", "observe"} /\ UNCHANGED <<directory, edits, moments>>
    BY DEF ObserveFile, OpenDirectory, PackStep
  <1>2. CASE ObserveFile /\ rest = {}
    <2>1. PICK at \in {"refused", "read"} : PackTo(at) BY <1>2 DEF ObserveFile
    <2>3. DOMAIN archiving.seen = SourcePaths BY <1>2, ObservationFields DEF PackInv
    <2>4. WalkIsOver' BY <2>1, PackMoves, <2>3 DEF WalkIsOver, PackPlaces
    <2> QED BY <1>1, <2>1, <2>4, PlaceKeeps DEF PackPlaces
  <1>3. CASE ObserveFile /\ rest # {}
    <2> DEFINE seen == [q \in DOMAIN archiving.seen \cup {p} |-> IF q = p THEN Look(p).stamp ELSE archiving.seen[q]]
    <2>1. archiving' = [archiving EXCEPT !.seen = seen] /\ archiving.at = "observe" BY <1>3 DEF ObserveFile, PackStep
    <2>2. p \in rest
      <3> QED BY <1>3, NextIsThere
    <2>3. Look(p).stamp \in Nat /\ Look(p).stamp <= edits + 1
      BY <2>2, ObservationFields DEF PackInv, DirectoryFiles, StampsAreOld
    <2>4. seen \in Observations
      <3>1. DOMAIN archiving.seen \cup {p} \in SUBSET SourcePaths BY <2>2, ObservationFields DEF PackInv
      <3>2. seen \in [DOMAIN archiving.seen \cup {p} -> Nat] BY <2>3, ObservationFields DEF PackInv
      <3> QED BY <3>1, <3>2 DEF Observations
    <2>5. /\ archiving'.at = "observe" /\ archiving'.seen = seen /\ archiving'.read = archiving.read
          /\ archiving'.aside = archiving.aside /\ archiving' \in Packs
      <3> HIDE DEF seen
      <3>1. Packing(archiving', "observe", seen, archiving.read) BY <2>1, ObservationFields DEF PackInv, Packing
      <3> QED BY <2>4, <3>1, PackingIs, ObservationFields DEF PackInv, PackPlaces
    <2>6. PackTypeOK' BY <1>1, <2>5 DEF PackInv, PackTypeOK
    <2>7. DOMAIN seen = DOMAIN archiving.seen \cup {p} /\ seen[p] = Look(p).stamp
          /\ \A q \in DOMAIN archiving.seen : seen[q] = archiving.seen[q]
      BY <2>2
    <2>8. (TreeOf(directory) \in moments)' BY <1>1 DEF PackInv, TreeOf, PresentFiles
    <2> HIDE DEF p, seen
    <2>13. \A q : Look(q)' = Look(q) BY <1>1, <2>5, SeesTheSame
    <2>9. StampsAreOld' BY <1>1, <2>3, <2>5, <2>7, <2>13 DEF PackInv, StampsAreOld
    <2>10. ReadIsFile'
      <3>1. ASSUME NEW f \in archiving.read
            PROVE  f.path \in SeenFiles' /\ archiving'.seen[f.path] = archiving.seen[f.path]
        <4> QED BY <2>5, <2>7, <3>1 DEF SeenFiles, PackInv, ReadIsFile
      <3> QED BY <2>13, <2>5, <3>1 DEF PackInv, ReadIsFile, PackedFile
    <2>11. MissingWasMissing'
      <3>1. Look(p).stamp = 0 => WasMissing(p) BY <2>2 DEF PackInv, MissingWasMissing
      <3>2. \A q : WasMissing(q)' = WasMissing(q) BY <1>1 DEF WasMissing
      <3> QED BY <2>13, <2>5, <2>7, <3>1, <3>2 DEF PackInv, MissingWasMissing
    <2>12. WalkIsOver' BY <2>5 DEF WalkIsOver
    <2> QED BY <2>6, <2>8, <2>9, <2>10, <2>11, <2>12, <2>5 DEF PackInv, AsideIsOpen
  <1>4. CASE OpenDirectory
    <2>1. PackTo("observe") BY <1>4 DEF OpenDirectory
    <2>2. WalkIsOver' BY <2>1, PackMoves DEF WalkIsOver, PackPlaces
    <2> QED BY <1>1, <2>1, <2>2, PlaceKeeps DEF PackPlaces
  <1> QED BY <1>2, <1>3, <1>4

LEMMA ReadKeepsPacking == ASSUME PackInv, ReadFile PROVE PackInv'
  <1> DEFINE unread == {p \in SeenFiles : \A f \in archiving.read : f.path # p}
  <1> DEFINE p == FirstPath(unread)
  <1>1. archiving.at = "read" /\ UNCHANGED <<directory, edits, moments>> BY DEF ReadFile, PackStep
  <1>2. DOMAIN archiving.seen = SourcePaths BY <1>1 DEF PackInv, WalkIsOver
  <1>3. CASE unread = {}
    <2>1. PackTo("again") BY <1>3 DEF ReadFile
    <2>3. \A q \in SeenFiles : \E f \in archiving.read : f.path = q BY <1>3
    <2>4. WalkIsOver' BY <1>2, <2>1, PackMoves, <2>3 DEF WalkIsOver, SeenFiles, PackPlaces
    <2> QED BY <1>1, <2>1, <2>4, PlaceKeeps DEF PackPlaces
  <1>4. CASE unread # {} /\ Look(p).stamp # archiving.seen[p]
    <2>1. PackTo("refused") BY <1>4 DEF ReadFile
    <2>3. WalkIsOver' BY <2>1, PackMoves DEF WalkIsOver, PackPlaces
    <2> QED BY <1>1, <2>1, <2>3, PlaceKeeps DEF PackPlaces
  <1>5. CASE unread # {} /\ Look(p).stamp = archiving.seen[p]
    <2>1. archiving' = [archiving EXCEPT !.read = archiving.read \cup {PackedFile(p)}]
      BY <1>5 DEF ReadFile, PackedFile
    <2>2. p \in SeenFiles /\ p \in SourcePaths
      <3>1. unread \in SUBSET SourcePaths BY <1>2 DEF SeenFiles
      <3> QED BY <3>1, <1>5, FirstIsThere
    <2>3. PackedFile(p) \in PackedFiles
      BY <2>2, ObservationFields DEF PackInv, DirectoryFiles, PackedFile, PackedFiles
    <2>4. PackedFile(p).path = p BY DEF PackedFile
    <2> HIDE DEF p
    <2>5. Packing(archiving', "read", archiving.seen, archiving.read \cup {PackedFile(p)})
      BY <1>1, <2>1, ObservationFields DEF PackInv, Packing
    <2>6. /\ archiving'.at = "read" /\ archiving'.seen = archiving.seen
          /\ archiving'.read = archiving.read \cup {PackedFile(p)}
          /\ archiving'.aside = archiving.aside /\ archiving' \in Packs
      BY <2>3, <2>5, PackingIs, ObservationFields DEF PackInv, PackPlaces
    <2>7. PackTypeOK' BY <1>1, <2>6 DEF PackInv, PackTypeOK
    <2>8. SeenFiles' = SeenFiles BY <2>6 DEF SeenFiles
    <2>9. (TreeOf(directory) \in moments)' BY <1>1 DEF PackInv, TreeOf, PresentFiles
    <2>14. \A q : Look(q)' = Look(q) BY <1>1, <2>6, SeesTheSame
    <2>10. StampsAreOld' BY <1>1, <2>6, <2>14 DEF PackInv, StampsAreOld
    <2>11. ReadIsFile'
      <3>1. \A q : PackedFile(q)' = PackedFile(q) BY <2>14 DEF PackedFile
      <3>2. ASSUME NEW f \in archiving.read PROVE f.path \in SeenFiles
               /\ (Look(f.path).stamp = archiving.seen[f.path] => f = PackedFile(f.path))
        BY <3>2 DEF PackInv, ReadIsFile
      <3> QED BY <2>14, <2>2, <2>4, <2>6, <2>8, <3>1, <3>2 DEF ReadIsFile
    <2>12. MissingWasMissing' BY <1>1, <2>6, <2>14 DEF PackInv, MissingWasMissing, WasMissing
    <2>13. WalkIsOver' BY <1>2, <2>6 DEF WalkIsOver
    <2> QED BY <2>7, <2>9, <2>10, <2>11, <2>12, <2>13, <2>6 DEF PackInv, AsideIsOpen
  <1> QED BY <1>3, <1>4, <1>5

LEMMA CheckKeepsPacking == ASSUME PackInv, CheckFiles \/ CheckNames PROVE PackInv'
  <1>1. UNCHANGED <<directory, edits, moments>> BY DEF CheckFiles, CheckNames, PackStep
  <1>2. CASE CheckFiles /\ \A p \in SeenFiles : Look(p).stamp = archiving.seen[p]
    <2>1. archiving.at = "again" /\ PackTo("names") BY <1>2 DEF CheckFiles, PackStep
    <2>2. archiving'.at = "names" /\ archiving'.seen = archiving.seen /\ archiving'.read = archiving.read
          /\ archiving'.aside = archiving.aside
      BY <2>1, PackMoves DEF PackPlaces
    <2>3. ASSUME NEW f \in archiving.read, DOMAIN archiving.aside = {} PROVE f \in TreeOf(directory)
      <3>1. f.path \in SeenFiles /\ (Look(f.path).stamp = archiving.seen[f.path] => f = PackedFile(f.path))
        BY <2>3 DEF PackInv, ReadIsFile
      <3>2. Look(f.path).stamp = archiving.seen[f.path] /\ archiving.seen[f.path] # 0 /\ f.path \in SourcePaths
        BY <1>2, <3>1, ObservationFields DEF SeenFiles, PackInv
      <3>3. Look(f.path) = directory[f.path] BY <2>3 DEF Look
      <3> QED BY <3>1, <3>2, <3>3 DEF PackedFile, TreeOf, PresentFiles
    <2>5. SeenFiles' = SeenFiles BY <2>2 DEF SeenFiles
    <2>6. WalkIsOver' BY <1>1, <2>1, <2>2, <2>3, <2>5 DEF WalkIsOver, PackInv
    <2> QED BY <1>1, <2>1, <2>6, PlaceKeeps DEF PackPlaces
  <1>3. CASE PackTo("refused")
    <2>2. WalkIsOver' BY <1>3, PackMoves DEF WalkIsOver, PackPlaces
    <2> QED BY <1>1, <1>3, <2>2, PlaceKeeps DEF PackPlaces
  <1>4. CASE CheckNames /\ PackTo("packed")
    <2>1. archiving.at = "names" BY <1>4 DEF CheckNames, PackStep
    <2>2. archiving'.at = "packed" /\ archiving'.seen = archiving.seen /\ archiving'.read = archiving.read
          /\ archiving'.aside = archiving.aside
      BY <1>4, PackMoves DEF PackPlaces
    <2>4. WalkIsOver' BY <1>1, <2>1, <2>2 DEF WalkIsOver, PackInv, SeenFiles
    <2> QED BY <1>1, <1>4, <2>4, PlaceKeeps DEF PackPlaces
  <1> QED BY <1>2, <1>3, <1>4 DEF CheckFiles, CheckNames

LEMMA PackingStays == PackInv /\ [PackingNext \/ StoreNext]_sourceVars => PackInv'
  <1> SUFFICES ASSUME PackInv, [PackingNext \/ StoreNext]_sourceVars PROVE PackInv' OBVIOUS
  <1>1. CASE PackingNext
    BY <1>1, EditKeepsPacking, ReplaceKeepsPacking, ObserveKeepsPacking, ReadKeepsPacking, CheckKeepsPacking DEF PackingNext
  <1>2. CASE StoreNext \/ UNCHANGED sourceVars
    <2>1. UNCHANGED <<directory, edits, archiving, moments>> BY <1>2 DEF StoreNext, sourceVars, packVars
    <2>2. \A p : Look(p)' = Look(p) BY <2>1 DEF Look
    <2> QED BY <2>1, <2>2 DEF PackInv, PackTypeOK, TreeOf, PresentFiles, StampsAreOld, ReadIsFile, PackedFile,
                        SeenFiles, MissingWasMissing, WasMissing, WalkIsOver, AsideIsOpen
  <1> QED BY <1>1, <1>2

LEMMA PackFollows == PackInv => PackedTogether
  <1> SUFFICES ASSUME PackInv, archiving.at = "packed"
               PROVE  /\ DOMAIN archiving.aside = {} => \E m \in moments : archiving.read \subseteq m
                      /\ \A p \in SourcePaths : (\A m \in moments : \E f \in m : f.path = p)
                                                => \E f \in archiving.read : f.path = p
    BY DEF PackedTogether
  <1>1. /\ DOMAIN archiving.seen = SourcePaths
        /\ \A p \in SeenFiles : \E f \in archiving.read : f.path = p
        /\ DOMAIN archiving.aside = {} => \E m \in moments : archiving.read \subseteq m
    BY DEF PackInv, WalkIsOver
  <1>2. ASSUME NEW p \in SourcePaths, \A m \in moments : \E f \in m : f.path = p
        PROVE  \E f \in archiving.read : f.path = p
    <2> QED BY <1>1, <1>2 DEF SeenFiles, PackInv, MissingWasMissing, WasMissing
  <1> QED BY <1>1, <1>2

(* server/sources: staging, publishing and receipts. *)
ImportPlaces == {"find", "stage", "lock", "decide", "publish", "receipt", "seal", "discard", "recheck"}
StoreLocked == {"decide", "publish", "receipt", "seal"}
ImportResults == {"none", "unavailable", "busy", "stored"}
Imports == [at : ImportPlaces, archive : Archives, observed : Nat, staged : BOOLEAN, published : BOOLEAN, result : ImportResults]
ImportRecords == {[at |-> "none"], [at |-> "over"]} \cup Imports
UploadRecords == {[at |-> "new"]} \cup [at : {"send", "over"}, archive : Archives]
SourceAnswers == {"none", "unavailable", "busy", "done", "refused", "waiting", "unknown"}
StoredTree(a) == [id |-> TreeDigest(a.tree), tree |-> a.tree]
AllReceipts == {Receipt(a, sealed) : a \in Archives, sealed \in BOOLEAN}
Faults == storeFailures + storeStops

StoreTypeOK ==
    /\ upload \in [Uploads -> UploadRecords] /\ importing \in [Uploads -> ImportRecords]
    /\ answer \in [Uploads -> SourceAnswers]
    /\ store \subseteq {StoredTree(a) : a \in Archives} /\ receipts \subseteq AllReceipts
    /\ stages \subseteq Uploads /\ importLock \in Uploads \cup {NoImport}
    /\ approval \in Nat /\ storeFailures \in Nat /\ storeStops \in Nat

\* What an upload's command and its request at the server owe each other.
ImportFollows(u) ==
    /\ stepOf(u) # "none" \/ answer[u] # "none" => upload[u].at = "over"
    /\ Active(u) => importing[u].archive = upload[u].archive
    /\ stepOf(u) \in StoreLocked => importLock = u
    /\ stepOf(u) \in {"receipt", "seal"} => StoredTree(upload[u].archive) \in store
    /\ \/ stepOf(u) = "recheck" \/ answer[u] = "done"
       \/ stepOf(u) = "discard" /\ importing[u].result = "stored"
       => Receipt(upload[u].archive, TRUE) \in receipts
    /\ answer[u] = "unavailable" \/ (Active(u) /\ importing[u].result = "unavailable") => Faults > 0

\* A receipt that is not sealed is being sealed, unless something failed.
TornIsSeen ==
    \A a \in Archives : Receipt(a, FALSE) \in receipts =>
        Faults > 0 \/ \E u \in Uploads : stepOf(u) = "seal" /\ upload[u].archive = a

ReceiptHasSource == \A a \in Archives, s \in BOOLEAN : Receipt(a, s) \in receipts => StoredTree(a) \in store

KeptInv ==
    StoreTypeOK /\ (\A u \in Uploads : ImportFollows(u)) /\ TornIsSeen /\ ReceiptHasSource /\ StagesAreDiscarded

LEMMA RecordsOfImports ==
    ASSUME NEW i \in ImportRecords
    PROVE  /\ i.at \notin {"none", "over"} => i \in Imports
           /\ i \in Imports => i.at \in ImportPlaces /\ i.archive \in Archives /\ i.result \in ImportResults /\ i.observed \in Nat
                               /\ i.staged \in BOOLEAN /\ i.published \in BOOLEAN /\ i.at \notin {"none", "over"}
           /\ i.at \in ImportPlaces \cup {"none", "over"}
  <1>1. CASE i \in Imports BY <1>1 DEF Imports, ImportPlaces
  <1>2. CASE i = [at |-> "none"]
    <2>1. i.at = "none" BY <1>2
    <2> QED BY <2>1 DEF Imports, ImportPlaces
  <1>3. CASE i = [at |-> "over"]
    <2>1. i.at = "over" BY <1>3
    <2> QED BY <2>1 DEF Imports, ImportPlaces
  <1> QED BY <1>1, <1>2, <1>3 DEF ImportRecords

LEMMA ImportIs ==
    ASSUME StoreTypeOK, NEW u \in Uploads
    PROVE  /\ importing[u] \in ImportRecords /\ upload[u] \in UploadRecords /\ answer[u] \in SourceAnswers
           /\ stepOf(u) \in ImportPlaces \cup {"none", "over"}
           /\ stepOf(u) \in ImportPlaces => importing[u] \in Imports /\ Active(u)
           /\ Active(u) <=> importing[u] \in Imports
  <1>2. "none" \notin ImportPlaces /\ "over" \notin ImportPlaces BY DEF ImportPlaces
  <1> QED BY <1>2, RecordsOfImports DEF stepOf, Active, StoreTypeOK

LEMMA UploadIs ==
    ASSUME NEW c \in UploadRecords
    PROVE  /\ c.at \in {"new", "send", "over"}
           /\ c.at # "new" => c.archive \in Archives /\ c \in [at : {"send", "over"}, archive : Archives]
  <1>1. CASE c = [at |-> "new"] BY <1>1
  <1>2. CASE c \in [at : {"send", "over"}, archive : Archives] BY <1>2
  <1> QED BY <1>1, <1>2 DEF UploadRecords

LEMMA ReceiptIs ==
    ASSUME NEW a \in Archives, NEW b \in Archives, NEW s \in BOOLEAN, NEW t \in BOOLEAN
    PROVE  /\ Receipt(a, s).archive = a /\ Receipt(a, s).sealed = s /\ Receipt(a, s).source = TreeDigest(a.tree)
           /\ Receipt(a, s) = Receipt(b, t) => a = b /\ s = t
           /\ Receipt(a, s) \in AllReceipts
  <1> QED BY DEF AllReceipts, Receipt

LEMMA ReceiptsAre ==
    ASSUME StoreTypeOK, NEW a \in Archives
    PROVE  /\ HasReceipt(a) <=> \E s \in BOOLEAN : Receipt(a, s) \in receipts
           /\ Torn(a) <=> Receipt(a, FALSE) \in receipts
           /\ HasReceipt(a) /\ ~Torn(a) => Receipt(a, TRUE) \in receipts
  <1>1. \A r \in receipts : \E b \in Archives, s \in BOOLEAN : r = Receipt(b, s) BY DEF StoreTypeOK, AllReceipts
  <1>2. \A b \in Archives, s \in BOOLEAN : Receipt(b, s).archive = b /\ Receipt(b, s).sealed = s BY ReceiptIs
  <1>3. HasReceipt(a) <=> \E s \in BOOLEAN : Receipt(a, s) \in receipts BY <1>1, <1>2 DEF HasReceipt
  <1>4. ASSUME Torn(a) PROVE Receipt(a, FALSE) \in receipts
    <2>1. PICK r \in receipts : r.archive = a /\ ~r.sealed BY <1>4 DEF Torn
    <2>2. PICK b \in Archives, s \in BOOLEAN : r = Receipt(b, s) BY <1>1
    <2>4. s = FALSE /\ b = a BY <2>1, <1>2, <2>2
    <2> QED BY <2>1, <2>2, <2>4
  <1>5. ASSUME Receipt(a, FALSE) \in receipts PROVE Torn(a)
    <2> QED BY <1>5, ReceiptIs DEF Torn
  <1> QED BY <1>3, <1>4, <1>5

OnlyUpload(u) ==
    \A q \in Uploads \ {u} : upload'[q] = upload[q] /\ importing'[q] = importing[q] /\ answer'[q] = answer[q]
StoreLockIsHis(u) == importLock' = importLock \/ (importLock = NoImport /\ importLock' = u) \/ (importLock = u /\ importLock' = NoImport)
\* Nothing that was published or sealed goes, and no fault is forgotten.
NothingGoes ==
    /\ store \subseteq store'
    /\ \A a \in Archives : Receipt(a, TRUE) \in receipts => Receipt(a, TRUE) \in receipts'
    /\ Faults > 0 => Faults' > 0

LEMMA OthersFollow ==
    ASSUME KeptInv, NEW u \in Uploads, OnlyUpload(u), StoreLockIsHis(u), NothingGoes, StoreTypeOK',
           NEW q \in Uploads \ {u}
    PROVE  ImportFollows(q)'
  <1>1. upload'[q] = upload[q] /\ importing'[q] = importing[q] /\ answer'[q] = answer[q] BY DEF OnlyUpload
  <1>2. ImportFollows(q) BY DEF KeptInv
  <1>3. stepOf(q)' = stepOf(q) /\ Active(q)' = Active(q) BY <1>1 DEF stepOf, Active
  <1>5. importLock = q => importLock' = q BY SourceAssumption DEF StoreLockIsHis, NoImport
  <1>6. upload[q].at = "over" => upload[q].archive \in Archives
    BY ImportIs, UploadIs DEF KeptInv
  <1>7. ImportFollows(q) /\ stepOf(q) \in {"receipt", "seal"} => upload[q].at = "over" BY DEF ImportFollows
  <1>8. (stepOf(q) # "none" \/ answer[q] # "none" => upload[q].at = "over")' BY <1>1, <1>2, <1>3 DEF ImportFollows
  <1>9. (Active(q) => importing[q].archive = upload[q].archive)' BY <1>1, <1>2, <1>3 DEF ImportFollows
  <1>10. (stepOf(q) \in StoreLocked => importLock = q)' BY <1>2, <1>3, <1>5 DEF ImportFollows
  <1>11. (stepOf(q) \in {"receipt", "seal"} => StoredTree(upload[q].archive) \in store)'
    <2> QED BY <1>2, <1>3, <1>1 DEF ImportFollows, NothingGoes, StoredTree
  <1>12. (stepOf(q) = "recheck" \/ answer[q] = "done" \/ (stepOf(q) = "discard" /\ importing[q].result = "stored")
          => Receipt(upload[q].archive, TRUE) \in receipts)'
    <2>2. Receipt(upload[q].archive, TRUE)' = Receipt(upload[q].archive, TRUE) BY <1>1 DEF Receipt
    <2> QED BY <1>1, <1>2, <1>3, <1>6, <2>2 DEF ImportFollows, NothingGoes
  <1>13. (answer[q] = "unavailable" \/ (Active(q) /\ importing[q].result = "unavailable") => Faults > 0)'
    BY <1>1, <1>2, <1>3 DEF ImportFollows, NothingGoes
  <1> QED BY <1>8, <1>9, <1>10, <1>11, <1>12, <1>13 DEF ImportFollows

LEMMA UploadKeeps ==
    ASSUME KeptInv, NEW u \in Uploads, OnlyUpload(u), StoreLockIsHis(u), NothingGoes, StoreTypeOK',
           ImportFollows(u)', TornIsSeen', ReceiptHasSource', StagesAreDiscarded'
    PROVE  KeptInv'
  <1>1. ASSUME NEW q \in Uploads PROVE ImportFollows(q)'
    <2>1. CASE q = u BY <2>1
    <2>2. CASE q # u BY <2>2, OthersFollow
    <2> QED BY <2>1, <2>2
  <1> QED BY <1>1 DEF KeptInv

\* A step of a request that writes nothing to the store.
StoreUntouched == UNCHANGED <<store, receipts, stages>> /\ storeStops' = storeStops /\ storeFailures' \in {storeFailures, storeFailures + 1}

LEMMA MoreFaults ==
    ASSUME StoreTypeOK, storeStops' = storeStops, storeFailures' \in {storeFailures, storeFailures + 1}
    PROVE  /\ Faults > 0 => Faults' > 0
           /\ storeFailures' = storeFailures + 1 => Faults' > 0
           /\ storeFailures' \in Nat /\ storeStops' \in Nat
  <1>1. storeFailures \in Nat /\ storeStops \in Nat BY DEF StoreTypeOK
  <1>7. storeFailures + storeStops > 0 => storeFailures' + storeStops' > 0
    <2>1. CASE storeFailures' = storeFailures BY <2>1
    <2>2. CASE storeFailures' = storeFailures + 1 BY <1>1, <2>2
    <2> QED BY <2>1, <2>2
  <1>4. Faults > 0 => Faults' > 0 BY <1>7 DEF Faults
  <1>5. storeFailures' = storeFailures + 1 => Faults' > 0 BY <1>1 DEF Faults
  <1> QED BY <1>1, <1>4, <1>5

LEMMA StagesBound ==
    ASSUME StoreTypeOK, StagesAreDiscarded, storeStops' = storeStops, storeFailures' \in {storeFailures, storeFailures + 1},
           \/ stages' = stages
           \/ storeFailures' = storeFailures + 1 /\ \E u \in Uploads : stages' = stages \cup {u}
    PROVE  StagesAreDiscarded'
  <1>1. IsFiniteSet(stages) /\ stages \subseteq Uploads BY SourceAssumption, FS_Subset DEF StoreTypeOK
  <1>2. Cardinality(stages) \in Nat /\ Cardinality(Uploads) \in Nat BY <1>1, SourceAssumption, FS_CardinalityType
  <1>3. Cardinality(stages') <= Cardinality(stages) + (storeFailures' - storeFailures)
    <2>1. CASE stages' = stages BY <1>2, <2>1 DEF StoreTypeOK
    <2>2. CASE storeFailures' = storeFailures + 1 /\ \E u \in Uploads : stages' = stages \cup {u}
      <3>1. PICK u \in Uploads : stages' = stages \cup {u} BY <2>2
      <3>3. storeFailures' - storeFailures = 1 BY <2>2 DEF StoreTypeOK
      <3> QED BY <1>2, <3>1, <1>1, FS_AddElement, <3>3
    <2> QED BY <2>1, <2>2
  <1>4. Cardinality(Uploads)' = Cardinality(Uploads) OBVIOUS
  <1>6. Cardinality(Uploads) * storeStops \in Nat BY <1>2 DEF StoreTypeOK
  <1>10. IsFiniteSet(stages')
    <2> QED BY <1>1, SourceAssumption, FS_Subset
  <1>9. Cardinality(stages') \in Nat BY <1>10, FS_CardinalityType
  <1>7. Cardinality(stages') <= storeFailures' + Cardinality(Uploads) * storeStops
    <2> DEFINE n == Cardinality(Uploads) * storeStops
    <2> HIDE DEF n
    <2>1. n \in Nat /\ Cardinality(stages) <= storeFailures + n BY <1>6 DEF n, StagesAreDiscarded
    <2>2. Cardinality(stages') <= storeFailures' + n BY <1>2, <1>3, <1>9, <2>1 DEF StoreTypeOK
    <2> QED BY <2>2 DEF n
  <1> QED BY <1>7 DEF StagesAreDiscarded

\* When no receipt is written, a torn one that is seen stays seen.
LEMMA TornStaysSeen ==
    ASSUME KeptInv, NEW u \in Uploads, OnlyUpload(u), NothingGoes, stepOf(u) # "seal" \/ Faults' > 0,
           \A a \in Archives : Receipt(a, FALSE) \in receipts' => Receipt(a, FALSE) \in receipts \/ Faults' > 0
    PROVE  TornIsSeen'
  <1> SUFFICES ASSUME NEW a \in Archives, Receipt(a, FALSE) \in receipts', ~(Faults' > 0)
               PROVE  \E q \in Uploads : stepOf(q)' = "seal" /\ upload'[q].archive = a
    BY DEF TornIsSeen, Receipt
  <1>1. PICK q \in Uploads : stepOf(q) = "seal" /\ upload[q].archive = a BY DEF KeptInv, TornIsSeen, NothingGoes
  <1>3. stepOf(q)' = stepOf(q) /\ upload'[q] = upload[q] BY <1>1 DEF OnlyUpload, stepOf
  <1> QED BY <1>1, <1>3

LEMMA SourceStays ==
    ASSUME KeptInv, NothingGoes,
           \A a \in Archives, s \in BOOLEAN : Receipt(a, s) \in receipts' => Receipt(a, s) \in receipts \/ StoredTree(a) \in store
    PROVE  ReceiptHasSource'
  <1> SUFFICES ASSUME NEW a \in Archives, NEW s \in BOOLEAN, Receipt(a, s) \in receipts' PROVE StoredTree(a) \in store'
    BY DEF ReceiptHasSource, Receipt, StoredTree
  <1> QED BY DEF KeptInv, ReceiptHasSource, NothingGoes

LEMMA UntouchedKeeps ==
    ASSUME KeptInv, StoreUntouched, NEW u \in Uploads, OnlyUpload(u), stepOf(u) # "seal" \/ Faults' > 0
    PROVE  NothingGoes /\ TornIsSeen' /\ ReceiptHasSource' /\ StagesAreDiscarded'
  <1>1. StoreTypeOK /\ StagesAreDiscarded BY DEF KeptInv
  <1>2. NothingGoes BY <1>1, MoreFaults DEF NothingGoes, StoreUntouched
  <1>4. receipts' = receipts BY DEF StoreUntouched
  <1>5. TornIsSeen' BY <1>2, <1>4, TornStaysSeen
  <1>6. ReceiptHasSource' BY <1>2, <1>4, SourceStays
  <1> QED BY <1>2, <1>1, StagesBound, <1>5, <1>6 DEF StoreUntouched

\* The record of a request with another place, and what else a step changes in it.
LEMMA PlaceChanged ==
    ASSUME NEW c \in Imports, NEW at \in ImportPlaces, NEW d, d = [c EXCEPT !.at = at]
    PROVE  d \in Imports /\ d.at = at /\ d.archive = c.archive /\ d.result = c.result
  BY DEF Imports

IsResultChanged(c, d, at, result) == d = [c EXCEPT !.at = at, !.result = result]
LEMMA ResultChanged ==
    ASSUME NEW c \in Imports, NEW at \in ImportPlaces, NEW result \in ImportResults, NEW d,
           IsResultChanged(c, d, at, result)
    PROVE  d \in Imports /\ d.at = at /\ d.archive = c.archive /\ d.result = result
  BY DEF Imports, IsResultChanged

IsStaged(c, d, at) == d = [c EXCEPT !.at = at, !.staged = TRUE]
LEMMA StagedIs ==
    ASSUME NEW c \in Imports, NEW at \in ImportPlaces, NEW d, IsStaged(c, d, at)
    PROVE  d \in Imports /\ d.at = at /\ d.archive = c.archive /\ d.result = c.result
  BY DEF Imports, IsStaged

IsGivenUp(c, d) == d = [c EXCEPT !.at = "discard", !.staged = TRUE, !.result = "unavailable"]
LEMMA GivenUpIs ==
    ASSUME NEW c \in Imports, NEW d, IsGivenUp(c, d)
    PROVE  d \in Imports /\ d.at = "discard" /\ d.archive = c.archive /\ d.result = "unavailable"
  BY DEF Imports, IsGivenUp, ImportPlaces, ImportResults

IsPublished(c, d) == d = [c EXCEPT !.at = "receipt", !.staged = FALSE, !.published = TRUE]
LEMMA PublishedIs ==
    ASSUME NEW c \in Imports, NEW d, IsPublished(c, d)
    PROVE  d \in Imports /\ d.at = "receipt" /\ d.archive = c.archive /\ d.result = c.result
  BY DEF Imports, IsPublished, ImportPlaces

Moved(u, at, result) ==
    /\ importing' \in [Uploads -> ImportRecords] /\ importing'[u] \in Imports
    /\ importing'[u].at = at /\ importing'[u].archive = importing[u].archive /\ importing'[u].result = result
    /\ \A q \in Uploads \ {u} : importing'[q] = importing[q]

LEMMA ChangedMoves ==
    ASSUME StoreTypeOK, NEW u \in Uploads, NEW i \in Imports, i.archive = importing[u].archive,
           importing' = [importing EXCEPT ![u] = i]
    PROVE  Moved(u, i.at, i.result)
  <1> QED BY DEF Moved, StoreTypeOK, ImportRecords

LEMMA ImportToMoves ==
    ASSUME StoreTypeOK, NEW u \in Uploads, Active(u), NEW at \in ImportPlaces, ImportTo(u, at)
    PROVE  Moved(u, at, importing[u].result)
  <1> DEFINE i == [importing[u] EXCEPT !.at = at]
  <1>2. importing' = [importing EXCEPT ![u] = i] BY DEF ImportTo
  <1>3. i \in Imports /\ i.at = at /\ i.archive = importing[u].archive /\ i.result = importing[u].result
    BY ImportIs, PlaceChanged
  <1> HIDE DEF i
  <1> QED BY <1>2, <1>3, ChangedMoves

LEMMA SettleMoves ==
    ASSUME StoreTypeOK, NEW u \in Uploads, Active(u), NEW at \in ImportPlaces, NEW result \in ImportResults, Settle(u, at, result)
    PROVE  Moved(u, at, result)
  <1> DEFINE i == [importing[u] EXCEPT !.at = at, !.result = result]
  <1>2. importing' = [importing EXCEPT ![u] = i] BY DEF Settle, StoreTypeOK
  <1>3. i \in Imports /\ i.at = at /\ i.archive = importing[u].archive /\ i.result = result
    <2> DEFINE c == importing[u]
    <2>1. c \in Imports BY ImportIs
    <2>2. IsResultChanged(c, i, at, result) BY DEF IsResultChanged
    <2> HIDE DEF c, i
    <2>3. i \in Imports /\ i.at = at /\ i.archive = c.archive /\ i.result = result BY <2>1, <2>2, ResultChanged
    <2> QED BY <2>3 DEF c
  <1> HIDE DEF i
  <1> QED BY <1>2, <1>3, ChangedMoves

LEMMA MovedFollows ==
    ASSUME KeptInv, NEW u \in Uploads, Active(u), NEW at \in ImportPlaces, NEW result, Moved(u, at, result),
           UNCHANGED <<upload, answer>>, NothingGoes, at \in StoreLocked => importLock' = u,
           at \in {"receipt", "seal"} => StoredTree(importing[u].archive) \in store',
           at = "recheck" \/ (at = "discard" /\ result = "stored") => Receipt(importing[u].archive, TRUE) \in receipts',
           result = "unavailable" => Faults' > 0
    PROVE  ImportFollows(u)' /\ OnlyUpload(u)
  <1>1. ImportFollows(u) /\ StoreTypeOK BY DEF KeptInv
  <1>2. upload[u].at = "over" /\ importing[u].archive = upload[u].archive /\ upload[u].archive \in Archives
    BY <1>1, ImportIs, UploadIs DEF ImportFollows, Active
  <1>3. stepOf(u)' = at /\ Active(u)' /\ importing'[u].archive = upload[u].archive /\ importing'[u].result = result
    BY <1>2, RecordsOfImports DEF Moved, stepOf, Active
  <1>4. StoredTree(upload[u].archive)' = StoredTree(importing[u].archive)
        /\ Receipt(upload[u].archive, TRUE)' = Receipt(importing[u].archive, TRUE)
    BY <1>2 DEF StoredTree, Receipt
  <1>5. answer'[u] = answer[u] /\ upload'[u] = upload[u] OBVIOUS
  <1>6. (stepOf(u) # "none" \/ answer[u] # "none" => upload[u].at = "over")' BY <1>2, <1>5
  <1>7. (Active(u) => importing[u].archive = upload[u].archive)' BY <1>3, <1>5
  <1>8. (stepOf(u) \in StoreLocked => importLock = u)' BY <1>3
  <1>9. (stepOf(u) \in {"receipt", "seal"} => StoredTree(upload[u].archive) \in store)' BY <1>3, <1>4
  <1>10. (stepOf(u) = "recheck" \/ answer[u] = "done" \/ (stepOf(u) = "discard" /\ importing[u].result = "stored")
          => Receipt(upload[u].archive, TRUE) \in receipts)'
    <2> QED BY <1>2, <1>3, <1>4, <1>5, <1>1 DEF NothingGoes, ImportFollows
  <1>11. (answer[u] = "unavailable" \/ (Active(u) /\ importing[u].result = "unavailable") => Faults > 0)'
    <2> QED BY <1>3, <1>5, <1>1 DEF NothingGoes, ImportFollows
  <1>12. OnlyUpload(u) BY DEF OnlyUpload, Moved
  <1> QED BY <1>6, <1>7, <1>8, <1>9, <1>10, <1>11, <1>12 DEF ImportFollows

LEMMA CloseFollows ==
    ASSUME KeptInv, NEW u \in Uploads, Active(u), NEW what \in SourceAnswers, Close(u, what), upload' = upload, NothingGoes,
           what = "done" => Receipt(importing[u].archive, TRUE) \in receipts',
           what = "unavailable" => Faults' > 0
    PROVE  /\ ImportFollows(u)' /\ OnlyUpload(u)
           /\ importing' \in [Uploads -> ImportRecords] /\ answer' \in [Uploads -> SourceAnswers]
  <1>1. ImportFollows(u) /\ StoreTypeOK BY DEF KeptInv
  <1>2. upload[u].at = "over" /\ importing[u].archive = upload[u].archive /\ upload[u].archive \in Archives
    BY <1>1, ImportIs, UploadIs DEF ImportFollows, Active
  <1>3. PICK heard \in {what, "unknown"} : answer' = [answer EXCEPT ![u] = heard] BY DEF Close
  <1>5. importing' = [importing EXCEPT ![u] = [at |-> "over"]] BY DEF Close
  <1>6. importing' \in [Uploads -> ImportRecords] /\ answer' \in [Uploads -> SourceAnswers]
    BY <1>1, <1>3, <1>5 DEF StoreTypeOK, ImportRecords, SourceAnswers
  <1>7. importing'[u] = [at |-> "over"] /\ answer'[u] = heard BY <1>1, <1>3, <1>5 DEF StoreTypeOK
  <1>8. stepOf(u)' = "over" /\ ~Active(u)' BY <1>7 DEF stepOf, Active
  <1>9. OnlyUpload(u) BY <1>1, <1>3, <1>5 DEF OnlyUpload, StoreTypeOK
  <1>11. (stepOf(u) # "none" \/ answer[u] # "none" => upload[u].at = "over")' BY <1>2
  <1>12. (stepOf(u) = "recheck" \/ answer[u] = "done" \/ (stepOf(u) = "discard" /\ importing[u].result = "stored")
          => Receipt(upload[u].archive, TRUE) \in receipts)' BY <1>3, <1>7, <1>8, <1>2 DEF Receipt
  <1>13. (answer[u] = "unavailable" \/ (Active(u) /\ importing[u].result = "unavailable") => Faults > 0)'
    BY <1>3, <1>7, <1>8
  <1>14. (Active(u) => importing[u].archive = upload[u].archive)' BY <1>8
  <1>15. (stepOf(u) \in StoreLocked => importLock = u)' /\ (stepOf(u) \in {"receipt", "seal"} => StoredTree(upload[u].archive) \in store)'
    BY <1>8 DEF StoreLocked
  <1> QED BY <1>6, <1>9, <1>11, <1>12, <1>13, <1>14, <1>15 DEF ImportFollows

\* A step of a request that writes nothing: what is left to say about it.
LEMMA RequestMoves ==
    ASSUME KeptInv, NEW u \in Uploads, Active(u), NEW at \in ImportPlaces, NEW result \in ImportResults,
           Moved(u, at, result), StoreUntouched, UNCHANGED <<upload, answer, approval>>,
           stepOf(u) # "seal" \/ Faults' > 0, StoreLockIsHis(u), at \in StoreLocked => importLock' = u,
           at \in {"receipt", "seal"} => StoredTree(importing[u].archive) \in store,
           at = "recheck" \/ (at = "discard" /\ result = "stored") => Receipt(importing[u].archive, TRUE) \in receipts,
           result = "unavailable" => Faults' > 0
    PROVE  KeptInv'
  <1>1. StoreTypeOK BY DEF KeptInv
  <1>2. OnlyUpload(u) BY DEF Moved, OnlyUpload
  <1>3. NothingGoes /\ TornIsSeen' /\ ReceiptHasSource' /\ StagesAreDiscarded' BY <1>2, UntouchedKeeps
  <1>6. importLock' \in Uploads \cup {NoImport} BY <1>1 DEF StoreLockIsHis, StoreTypeOK
  <1>7. StoreTypeOK' BY <1>1, MoreFaults, <1>6 DEF StoreTypeOK, StoreUntouched, Moved
  <1> QED BY <1>2, <1>3, MovedFollows, <1>7, UploadKeeps DEF StoreUntouched

LEMMA RequestCloses ==
    ASSUME KeptInv, NEW u \in Uploads, Active(u), NEW what \in SourceAnswers, Close(u, what), StoreUntouched,
           UNCHANGED <<upload, approval>>, stepOf(u) # "seal" \/ Faults' > 0, StoreLockIsHis(u),
           what = "done" => Receipt(importing[u].archive, TRUE) \in receipts,
           what = "unavailable" => Faults' > 0
    PROVE  KeptInv'
  <1>1. StoreTypeOK BY DEF KeptInv
  <1>2. OnlyUpload(u) BY <1>1 DEF OnlyUpload, Close, StoreTypeOK
  <1>3. NothingGoes /\ TornIsSeen' /\ ReceiptHasSource' /\ StagesAreDiscarded' BY <1>2, UntouchedKeeps
  <1>4. ImportFollows(u)' /\ importing' \in [Uploads -> ImportRecords] /\ answer' \in [Uploads -> SourceAnswers]
    BY <1>3, CloseFollows DEF StoreUntouched
  <1>6. importLock' \in Uploads \cup {NoImport} BY <1>1 DEF StoreLockIsHis, StoreTypeOK
  <1>7. StoreTypeOK' BY <1>1, <1>4, MoreFaults, <1>6 DEF StoreTypeOK, StoreUntouched
  <1> QED BY <1>2, <1>3, <1>4, <1>7, UploadKeeps

\* Where a request is, what it has and what it waits for.
LEMMA RequestHas ==
    ASSUME KeptInv, NEW u \in Uploads, stepOf(u) \in ImportPlaces
    PROVE  /\ Active(u) /\ importing[u] \in Imports /\ importing[u].archive \in Archives /\ importing[u].result \in ImportResults
           /\ importing[u].archive = upload[u].archive /\ upload[u].at = "over"
           /\ importing[u].published \in BOOLEAN /\ importing[u].staged \in BOOLEAN
           /\ importing[u].result = "unavailable" => Faults > 0
           /\ stepOf(u) \in StoreLocked => importLock = u
           /\ stepOf(u) \in {"receipt", "seal"} => StoredTree(importing[u].archive) \in store
           /\ stepOf(u) = "recheck" \/ (stepOf(u) = "discard" /\ importing[u].result = "stored")
              => Receipt(importing[u].archive, TRUE) \in receipts
  <1>1. StoreTypeOK /\ ImportFollows(u) BY DEF KeptInv
  <1>2. Active(u) /\ importing[u] \in Imports BY <1>1, ImportIs
  <1>5. importing[u].archive = upload[u].archive /\ upload[u].at = "over"
    BY <1>1, <1>2 DEF ImportFollows, Active
  <1>6. stepOf(u) = "recheck" \/ (stepOf(u) = "discard" /\ importing[u].result = "stored")
        => Receipt(importing[u].archive, TRUE) \in receipts
    BY <1>1, <1>5 DEF ImportFollows
  <1>7. /\ importing[u].result = "unavailable" => Faults > 0
        /\ stepOf(u) \in StoreLocked => importLock = u
        /\ stepOf(u) \in {"receipt", "seal"} => StoredTree(importing[u].archive) \in store
    BY <1>1, <1>2, <1>5 DEF ImportFollows
  <1> QED BY <1>2, <1>5, <1>6, <1>7 DEF Imports

\* A torn receipt is nobody's, while the lock is free or held by a request that writes none.
LEMMA TornIsFaulty ==
    ASSUME KeptInv, NEW a \in Archives, Torn(a), \A q \in Uploads : importLock = q => stepOf(q) # "seal"
    PROVE  Faults > 0
  <1>2. Faults > 0 \/ \E q \in Uploads : stepOf(q) = "seal" /\ upload[q].archive = a
    BY ReceiptsAre DEF KeptInv, TornIsSeen
  <1>3. ASSUME NEW q \in Uploads, stepOf(q) = "seal" PROVE FALSE
    <2> QED BY <1>3, RequestHas DEF ImportPlaces, StoreLocked
  <1> QED BY <1>2, <1>3

LEMMA SameFaults == ASSUME UNCHANGED <<storeFailures, storeStops>> PROVE Faults' = Faults
  BY DEF Faults

LEMMA FindKeeps == ASSUME KeptInv, NEW u \in Uploads, Find(u) PROVE KeptInv'
  <1> DEFINE a == importing[u].archive
  <1>1. /\ stepOf(u) = "find" /\ importLock = NoImport
        /\ UNCHANGED <<upload, storeStops, store, receipts, stages, importLock, approval, storeFailures>>
    BY DEF Find, ImportStep
  <1>2. /\ Active(u) /\ importing[u] \in Imports /\ a \in Archives /\ importing[u].result \in ImportResults
        /\ importing[u].result = "unavailable" => Faults > 0
    BY <1>1, RequestHas DEF ImportPlaces
  <1>3. StoreUntouched /\ StoreLockIsHis(u) /\ Faults' = Faults BY <1>1, SameFaults DEF StoreUntouched, StoreLockIsHis
  <1>4. StoreTypeOK BY DEF KeptInv
  <1>5. CASE ImportTo(u, "stage") /\ UNCHANGED answer
    <2>1. Moved(u, "stage", importing[u].result) BY <1>2, <1>4, <1>5, ImportToMoves DEF ImportPlaces
    <2> QED BY <1>1, <1>2, <1>3, <1>5, <2>1, RequestMoves DEF ImportPlaces, StoreLocked
  <1>6. CASE HasReceipt(a) /\ ~Torn(a) /\ ImportTo(u, "recheck") /\ UNCHANGED answer
    <2>1. Moved(u, "recheck", importing[u].result) BY <1>2, <1>4, <1>6, ImportToMoves DEF ImportPlaces
    <2>2. Receipt(a, TRUE) \in receipts BY <1>2, <1>4, <1>6, ReceiptsAre
    <2> QED BY <1>1, <1>2, <1>3, <1>6, <2>1, <2>2, RequestMoves DEF ImportPlaces, StoreLocked
  <1>7. CASE Torn(a) /\ Close(u, "unavailable")
    <2>2. Faults > 0 BY <1>2, <1>7, <1>1, SourceAssumption, TornIsFaulty DEF NoImport
    <2> QED BY <1>1, <1>2, <1>3, <1>7, <2>2, RequestCloses DEF SourceAnswers
  <1> QED BY <1>5, <1>6, <1>7 DEF Find

LEMMA FailingIsFault ==
    ASSUME StoreTypeOK, Failing, storeStops' = storeStops
    PROVE  Faults' > 0 /\ storeFailures' = storeFailures + 1
  BY MoreFaults DEF Failing

LEMMA StageKeeps == ASSUME KeptInv, NEW u \in Uploads, Stage(u) PROVE KeptInv'
  <1>1. stepOf(u) = "stage" /\ UNCHANGED <<upload, storeStops, answer, store, receipts, stages, importLock, approval>>
    BY DEF Stage, ImportStep
  <1>2. /\ Active(u) /\ importing[u] \in Imports /\ importing[u].result \in ImportResults
        /\ importing[u].result = "unavailable" => Faults > 0
    BY <1>1, RequestHas DEF ImportPlaces
  <1>3. StoreTypeOK /\ StoreLockIsHis(u) BY <1>1 DEF KeptInv, StoreLockIsHis
  <1> DEFINE c == importing[u]
  <1>4. CASE importing' = [importing EXCEPT ![u].at = "lock", ![u].staged = TRUE] /\ UNCHANGED storeFailures
    <2> DEFINE i == [c EXCEPT !.at = "lock", !.staged = TRUE]
    <2>1. importing' = [importing EXCEPT ![u] = i] BY <1>3, <1>4 DEF StoreTypeOK
    <2>2. IsStaged(c, i, "lock") BY DEF IsStaged
    <2>3. i \in Imports /\ i.at = "lock" /\ i.archive = c.archive /\ i.result = c.result
      <3> HIDE DEF i, c
      <3>1. c \in Imports BY <1>2 DEF c
      <3>2. "lock" \in ImportPlaces BY DEF ImportPlaces
      <3> QED BY <2>2, <3>1, <3>2, StagedIs
    <2> HIDE DEF i
    <2>4. Moved(u, "lock", importing[u].result) BY <1>3, <2>1, <2>3, ChangedMoves
    <2>5. StoreUntouched /\ Faults' = Faults BY <1>1, <1>4, SameFaults DEF StoreUntouched
    <2> QED BY <1>1, <1>2, <1>3, <2>4, <2>5, RequestMoves DEF ImportPlaces, StoreLocked
  <1>5. CASE Failing /\ importing' = [importing EXCEPT ![u].at = "discard", ![u].staged = TRUE, ![u].result = "unavailable"]
    <2> DEFINE i == [c EXCEPT !.at = "discard", !.staged = TRUE, !.result = "unavailable"]
    <2>1. importing' = [importing EXCEPT ![u] = i] BY <1>3, <1>5 DEF StoreTypeOK
    <2>2. IsGivenUp(c, i) BY DEF IsGivenUp
    <2>3. i \in Imports /\ i.at = "discard" /\ i.archive = c.archive /\ i.result = "unavailable"
      <3> HIDE DEF i, c
      <3>1. c \in Imports BY <1>2 DEF c
      <3> QED BY <2>2, <3>1, GivenUpIs
    <2> HIDE DEF i
    <2>4. Moved(u, "discard", "unavailable") BY <1>3, <2>1, <2>3, ChangedMoves
    <2>5. Faults' > 0 /\ storeFailures' = storeFailures + 1 BY <1>1, <1>3, <1>5, FailingIsFault
    <2>6. StoreUntouched BY <1>1, <2>5 DEF StoreUntouched
    <2> QED BY <1>1, <1>2, <1>3, <2>4, <2>5, <2>6, RequestMoves DEF ImportPlaces, ImportResults, StoreLocked
  <1> QED BY <1>4, <1>5 DEF Stage

LEMMA LockStoreKeeps == ASSUME KeptInv, NEW u \in Uploads, LockStore(u) PROVE KeptInv'
  <1>1. stepOf(u) = "lock" /\ UNCHANGED <<upload, storeStops, answer, store, receipts, stages, approval, storeFailures>>
    BY DEF LockStore, ImportStep
  <1>2. /\ Active(u) /\ importing[u] \in Imports /\ importing[u].result \in ImportResults
        /\ importing[u].result = "unavailable" => Faults > 0
    BY <1>1, RequestHas DEF ImportPlaces
  <1>3. StoreTypeOK /\ StoreUntouched /\ Faults' = Faults BY <1>1, SameFaults DEF KeptInv, StoreUntouched
  <1>4. CASE importLock = NoImport /\ importLock' = u /\ ImportTo(u, "decide")
    <2>1. Moved(u, "decide", importing[u].result) BY <1>2, <1>3, <1>4, ImportToMoves DEF ImportPlaces
    <2>2. StoreLockIsHis(u) BY <1>4 DEF StoreLockIsHis
    <2> QED BY <1>1, <1>2, <1>3, <1>4, <2>1, <2>2, RequestMoves DEF ImportPlaces, StoreLocked
  <1>5. CASE importing' = [importing EXCEPT ![u].at = "discard", ![u].result = "busy"] /\ UNCHANGED importLock
    <2>2. Moved(u, "discard", "busy") BY <1>2, <1>3, <1>5, SettleMoves DEF ImportPlaces, ImportResults, Settle
    <2>3. StoreLockIsHis(u) BY <1>5 DEF StoreLockIsHis
    <2> QED BY <1>1, <1>2, <1>3, <2>2, <2>3, RequestMoves DEF ImportPlaces, ImportResults, StoreLocked
  <1> QED BY <1>4, <1>5 DEF LockStore

LEMMA OnlyOneImports ==
    ASSUME KeptInv, NEW u \in Uploads, stepOf(u) \in StoreLocked, stepOf(u) # "seal"
    PROVE  importLock = u /\ \A q \in Uploads : importLock = q => stepOf(q) # "seal"
  BY RequestHas DEF StoreLocked, ImportPlaces

LEMMA IsStored ==
    ASSUME StoreTypeOK, NEW a \in Archives, ASSUME NEW b \in Archives, TreeDigest(a.tree) = TreeDigest(b.tree) PROVE a.tree = b.tree
    PROVE  SourceExists(TreeDigest(a.tree)) => StoredTree(a) \in store
  <1>1. ASSUME NEW s \in store, s.id = TreeDigest(a.tree) PROVE StoredTree(a) \in store
    <2>1. PICK b \in Archives : s = StoredTree(b) BY DEF StoreTypeOK
    <2>3. a.tree = b.tree BY <1>1, <2>1 DEF StoredTree
    <2> QED BY <2>1, <2>3 DEF StoredTree
  <1> QED BY <1>1 DEF SourceExists

\* The assumption about TreeDigest that the model's archives satisfy.
DigestsTellApart == \A a, b \in Archives : TreeDigest(a.tree) = TreeDigest(b.tree) => a.tree = b.tree

LEMMA DecideKeeps == ASSUME DigestsTellApart, KeptInv, NEW u \in Uploads, Decide(u) PROVE KeptInv'
  <1> DEFINE a == importing[u].archive
  <1>1. stepOf(u) = "decide" /\ UNCHANGED <<upload, storeStops, answer, store, receipts, stages, approval, storeFailures>>
    BY DEF Decide, ImportStep
  <1>2. /\ Active(u) /\ importing[u] \in Imports /\ importing[u].result \in ImportResults /\ a \in Archives
        /\ importing[u].result = "unavailable" => Faults > 0
    BY <1>1, RequestHas DEF ImportPlaces
  <1>3. StoreTypeOK /\ StoreUntouched /\ Faults' = Faults BY <1>1, SameFaults DEF KeptInv, StoreUntouched
  <1>4. importLock = u /\ \A q \in Uploads : importLock = q => stepOf(q) # "seal"
    BY <1>1, OnlyOneImports DEF StoreLocked
  <1>5. CASE HasReceipt(a) /\ Settle(u, "discard", IF Torn(a) THEN "unavailable" ELSE "stored") /\ importLock' = NoImport
    <2>1. StoreLockIsHis(u) BY <1>4, <1>5 DEF StoreLockIsHis
    <2>2. CASE Torn(a)
      <3>1. Moved(u, "discard", "unavailable") BY <1>2, <1>3, <1>5, <2>2, SettleMoves DEF ImportPlaces, ImportResults
      <3>2. Faults > 0 BY <1>2, <1>4, <2>2, TornIsFaulty
      <3> QED BY <1>1, <1>2, <1>3, <2>1, <3>1, <3>2, RequestMoves DEF ImportPlaces, ImportResults, StoreLocked
    <2>3. CASE ~Torn(a)
      <3>1. Moved(u, "discard", "stored") BY <1>2, <1>3, <1>5, <2>3, SettleMoves DEF ImportPlaces, ImportResults
      <3>2. Receipt(a, TRUE) \in receipts BY <1>2, <1>3, <1>5, <2>3, ReceiptsAre
      <3> QED BY <1>1, <1>2, <1>3, <2>1, <3>1, <3>2, RequestMoves DEF ImportPlaces, ImportResults, StoreLocked
    <2> QED BY <2>2, <2>3
  <1>6. CASE SourceExists(TreeDigest(a.tree)) /\ ImportTo(u, "receipt") /\ UNCHANGED importLock
    <2>1. StoreLockIsHis(u) BY <1>6 DEF StoreLockIsHis
    <2>2. Moved(u, "receipt", importing[u].result) BY <1>2, <1>3, <1>6, ImportToMoves DEF ImportPlaces
    <2>3. StoredTree(a) \in store BY <1>2, <1>3, <1>6, IsStored DEF DigestsTellApart
    <2> QED BY <1>1, <1>2, <1>3, <1>4, <1>6, <2>1, <2>2, <2>3, RequestMoves DEF ImportPlaces, StoreLocked
  <1>7. CASE ImportTo(u, "publish") /\ UNCHANGED importLock
    <2>1. StoreLockIsHis(u) BY <1>7 DEF StoreLockIsHis
    <2>2. Moved(u, "publish", importing[u].result) BY <1>2, <1>3, <1>7, ImportToMoves DEF ImportPlaces
    <2> QED BY <1>1, <1>2, <1>3, <1>4, <1>7, <2>1, <2>2, RequestMoves DEF ImportPlaces, StoreLocked
  <1> QED BY <1>5, <1>6, <1>7 DEF Decide

\* The types of the store after a step of one request.
LEMMA StoreTypes ==
    ASSUME StoreTypeOK, NEW u \in Uploads, importing' \in [Uploads -> ImportRecords], answer' \in [Uploads -> SourceAnswers],
           UNCHANGED <<upload, approval, storeStops>>, StoreLockIsHis(u), storeFailures' \in {storeFailures, storeFailures + 1},
           store' \subseteq store \cup {StoredTree(b) : b \in Archives}, receipts' \subseteq AllReceipts,
           stages' \subseteq stages \cup {u}
    PROVE  StoreTypeOK'
  <1>2. importLock' \in Uploads \cup {NoImport} BY DEF StoreLockIsHis, StoreTypeOK
  <1>3. store' \subseteq {StoredTree(b) : b \in Archives} /\ stages' \subseteq Uploads BY DEF StoreTypeOK
  <1>4. \A b : StoredTree(b)' = StoredTree(b) BY DEF StoredTree
  <1>5. upload' \in [Uploads -> UploadRecords] /\ approval' \in Nat BY DEF StoreTypeOK
  <1>6. AllReceipts' = AllReceipts BY DEF AllReceipts, Receipt
  <1> QED BY MoreFaults, <1>2, <1>3, <1>4, <1>5, <1>6 DEF StoreTypeOK

LEMMA PublishKeeps == ASSUME KeptInv, NEW u \in Uploads, PublishDirectory(u) PROVE KeptInv'
  <1> DEFINE a == importing[u].archive
             c == importing[u]
  <1>1. stepOf(u) = "publish" /\ UNCHANGED <<upload, storeStops, receipts, approval>> BY DEF PublishDirectory, ImportStep
  <1>2. /\ Active(u) /\ c \in Imports /\ c.result \in ImportResults /\ a \in Archives
        /\ c.result = "unavailable" => Faults > 0
    BY <1>1, RequestHas DEF ImportPlaces
  <1>3. StoreTypeOK /\ importLock = u BY <1>1, OnlyOneImports DEF KeptInv, StoreLocked
  <1>4. WithSource(a) = store \cup {StoredTree(a)} BY DEF WithSource, StoredTree
  <1>5. CASE /\ store' = WithSource(a)
             /\ importing' = [importing EXCEPT ![u].at = "receipt", ![u].staged = FALSE, ![u].published = TRUE]
             /\ UNCHANGED <<answer, importLock, stages, storeFailures>>
    <2> DEFINE i == [c EXCEPT !.at = "receipt", !.staged = FALSE, !.published = TRUE]
    <2>1. importing' = [importing EXCEPT ![u] = i] BY <1>3, <1>5 DEF StoreTypeOK
    <2>2. IsPublished(c, i) BY DEF IsPublished
    <2>3. i \in Imports /\ i.at = "receipt" /\ i.archive = c.archive /\ i.result = c.result
      <3> HIDE DEF i, c
      <3>1. c \in Imports BY <1>2 DEF c
      <3> QED BY <2>2, <3>1, PublishedIs
    <2> HIDE DEF i
    <2>4. Moved(u, "receipt", c.result) BY <1>3, <2>1, <2>3, ChangedMoves
    <2>5. StoreLockIsHis(u) /\ Faults' = Faults BY <1>1, <1>5, SameFaults DEF StoreLockIsHis
    <2>6. NothingGoes BY <1>1, <1>4, <1>5, <2>5 DEF NothingGoes
    <2>7. StoredTree(a) \in store' BY <1>4, <1>5
    <2>8. ImportFollows(u)' /\ OnlyUpload(u)
      BY <1>1, <1>2, <1>3, <1>5, <2>4, <2>5, <2>6, <2>7, MovedFollows DEF ImportPlaces, StoreLocked
    <2>9. receipts' \subseteq AllReceipts /\ importing' \in [Uploads -> ImportRecords] BY <1>1, <1>3, <2>4 DEF StoreTypeOK, Moved
    <2>10. store' \subseteq store \cup {StoredTree(b) : b \in Archives} BY <1>2, <1>4, <1>5
    <2>11. answer' \in [Uploads -> SourceAnswers] /\ stages' \subseteq stages \cup {u} /\ storeFailures' \in {storeFailures, storeFailures + 1}
      BY <1>3, <1>5 DEF StoreTypeOK
    <2>12. StoreTypeOK' BY <1>1, <1>3, <2>5, <2>9, <2>10, <2>11, StoreTypes
    <2>13. TornIsSeen' BY <1>1, <2>6, <2>8, TornStaysSeen
    <2>14. ReceiptHasSource' BY <1>1, <2>6, SourceStays
    <2>15. StagesAreDiscarded' BY <1>1, <1>3, <1>5, StagesBound DEF KeptInv
    <2> QED BY <2>5, <2>6, <2>8, <2>12, <2>13, <2>14, <2>15, UploadKeeps
  <1>6. CASE /\ Failing /\ Close(u, "unknown") /\ importLock' = NoImport
             /\ \/ store' = WithSource(a) /\ UNCHANGED stages
                \/ stages' = stages \cup {u} /\ UNCHANGED store
    <2>1. Faults' > 0 /\ storeFailures' = storeFailures + 1 BY <1>1, <1>3, <1>6, FailingIsFault
    <2>2. StoreLockIsHis(u) BY <1>3, <1>6 DEF StoreLockIsHis
    <2>3. NothingGoes BY <1>1, <1>4, <1>6, <2>1 DEF NothingGoes
    <2>4. ImportFollows(u)' /\ OnlyUpload(u) /\ importing' \in [Uploads -> ImportRecords] /\ answer' \in [Uploads -> SourceAnswers]
      BY <1>1, <1>2, <1>6, <2>3, CloseFollows DEF SourceAnswers
    <2>5. receipts' \subseteq AllReceipts BY <1>1, <1>3 DEF StoreTypeOK
    <2>6. store' \subseteq store \cup {StoredTree(b) : b \in Archives} /\ stages' \subseteq stages \cup {u}
      BY <1>2, <1>4, <1>6
    <2>7. StoreTypeOK' BY <1>1, <1>3, <2>1, <2>2, <2>4, <2>5, <2>6, StoreTypes
    <2>8. TornIsSeen' BY <2>1, <2>3, <2>4, TornStaysSeen
    <2>9. ReceiptHasSource' BY <1>1, <2>3, SourceStays
    <2>10. StagesAreDiscarded' BY <1>1, <1>3, <1>6, <2>1, StagesBound DEF KeptInv
    <2> QED BY <2>2, <2>3, <2>4, <2>7, <2>8, <2>9, <2>10, UploadKeeps
  <1> QED BY <1>5, <1>6 DEF PublishDirectory

LEMMA UnwindFollows ==
    ASSUME KeptInv, NEW u \in Uploads, Active(u), Unwind(u), upload' = upload, NothingGoes, Faults' > 0
    PROVE  /\ ImportFollows(u)' /\ OnlyUpload(u)
           /\ importing' \in [Uploads -> ImportRecords] /\ answer' \in [Uploads -> SourceAnswers]
  <1>1. StoreTypeOK BY DEF KeptInv
  <1>2. CASE Close(u, "unavailable") BY <1>2, CloseFollows DEF SourceAnswers
  <1>3. CASE Settle(u, "discard", "unavailable") /\ UNCHANGED answer
    <2>1. Moved(u, "discard", "unavailable") BY <1>1, <1>3, SettleMoves DEF ImportPlaces, ImportResults
    <2>3. importing' \in [Uploads -> ImportRecords] /\ answer' \in [Uploads -> SourceAnswers]
      BY <1>1, <1>3, <2>1 DEF Moved, StoreTypeOK
    <2> QED BY <1>3, <2>1, MovedFollows, <2>3 DEF ImportPlaces, StoreLocked
  <1> QED BY <1>2, <1>3 DEF Unwind

\* The lock is given back only by who has it; a request that writes a receipt has its source.
LEMMA ReceiptSteps ==
    ASSUME KeptInv, NEW u \in Uploads, stepOf(u) = "receipt", importing[u].archive \in Archives,
           receipts' \in {receipts, receipts \cup {Receipt(importing[u].archive, FALSE)}}, store' = store
    PROVE  /\ receipts' \subseteq AllReceipts
           /\ \A b \in Archives, s \in BOOLEAN : Receipt(b, s) \in receipts' => Receipt(b, s) \in receipts \/ StoredTree(b) \in store
           /\ \A b \in Archives : Receipt(b, TRUE) \in receipts => Receipt(b, TRUE) \in receipts'
           /\ \A b \in Archives : Receipt(b, FALSE) \in receipts' => Receipt(b, FALSE) \in receipts \/ b = importing[u].archive
  <1> DEFINE a == importing[u].archive
  <1>1. receipts \subseteq AllReceipts /\ Receipt(a, FALSE) \in AllReceipts BY ReceiptIs DEF KeptInv, StoreTypeOK
  <1>3. \A b \in Archives, s \in BOOLEAN : Receipt(b, s) = Receipt(a, FALSE) => b = a /\ s = FALSE BY ReceiptIs
  <1>4. receipts' \subseteq AllReceipts BY <1>1
  <1>5. \A b \in Archives, s \in BOOLEAN : Receipt(b, s) \in receipts' => Receipt(b, s) \in receipts \/ b = a BY <1>3
  <1>6. \A b \in Archives, s \in BOOLEAN : Receipt(b, s) \in receipts' => Receipt(b, s) \in receipts \/ StoredTree(b) \in store
    BY RequestHas, <1>5 DEF ImportPlaces
  <1> QED BY <1>4, <1>5, <1>6

LEMMA WriteReceiptKeeps == ASSUME KeptInv, NEW u \in Uploads, WriteReceipt(u) PROVE KeptInv'
  <1> DEFINE a == importing[u].archive
  <1>1. stepOf(u) = "receipt" /\ UNCHANGED <<upload, storeStops, store, stages, approval>> BY DEF WriteReceipt, ImportStep
  <1>2. /\ Active(u) /\ importing[u] \in Imports /\ importing[u].result \in ImportResults /\ a \in Archives
        /\ importing[u].result = "unavailable" => Faults > 0
        /\ StoredTree(a) \in store /\ upload[u].archive = a
    BY <1>1, RequestHas DEF ImportPlaces
  <1>3. StoreTypeOK /\ importLock = u /\ \A q \in Uploads : importLock = q => stepOf(q) # "seal"
    BY <1>1, OnlyOneImports DEF KeptInv, StoreLocked
  <1>5. /\ receipts' \subseteq AllReceipts
        /\ \A b \in Archives, s \in BOOLEAN : Receipt(b, s) \in receipts' => Receipt(b, s) \in receipts \/ StoredTree(b) \in store
        /\ \A b \in Archives : Receipt(b, TRUE) \in receipts => Receipt(b, TRUE) \in receipts'
        /\ \A b \in Archives : Receipt(b, FALSE) \in receipts' => Receipt(b, FALSE) \in receipts \/ b = a
    BY <1>1, <1>2, ReceiptSteps DEF WriteReceipt
  <1>6. CASE ImportTo(u, "seal") /\ UNCHANGED <<answer, importLock, storeFailures>>
    <2>1. Moved(u, "seal", importing[u].result) BY <1>2, <1>3, <1>6, ImportToMoves DEF ImportPlaces
    <2>2. StoreLockIsHis(u) /\ Faults' = Faults BY <1>1, <1>6, SameFaults DEF StoreLockIsHis
    <2>3. NothingGoes BY <1>1, <1>5, <2>2 DEF NothingGoes
    <2>4. ImportFollows(u)' /\ OnlyUpload(u)
      BY <1>1, <1>2, <1>3, <1>6, <2>1, <2>2, <2>3, MovedFollows DEF ImportPlaces, StoreLocked
    <2>5. importing' \in [Uploads -> ImportRecords] /\ answer' \in [Uploads -> SourceAnswers]
          /\ storeFailures' \in {storeFailures, storeFailures + 1}
      BY <1>3, <1>6, <2>1 DEF Moved, StoreTypeOK
    <2>7. StoreTypeOK' BY <1>1, <1>3, <1>5, <2>2, <2>5, StoreTypes
    <2>8. TornIsSeen'
      <3> SUFFICES ASSUME NEW b \in Archives, Receipt(b, FALSE) \in receipts'
                   PROVE  Faults' > 0 \/ \E q \in Uploads : stepOf(q)' = "seal" /\ upload'[q].archive = b
        BY DEF TornIsSeen, Receipt
      <3>1. CASE b = a
        <4> QED BY <1>1, <1>2, <2>1, <3>1 DEF Moved, stepOf
      <3>2. CASE b # a
        <4> QED BY <1>3, <2>2, <1>5, <3>2, ReceiptsAre, TornIsFaulty
      <3> QED BY <3>1, <3>2
    <2>9. ReceiptHasSource' BY <1>5, <2>3, SourceStays
    <2>10. StagesAreDiscarded' BY <1>1, <1>3, <1>6, StagesBound DEF KeptInv
    <2> QED BY <2>2, <2>3, <2>4, <2>7, <2>8, <2>9, <2>10, UploadKeeps
  <1>7. CASE Failing /\ Unwind(u) /\ importLock' = NoImport
    <2>1. Faults' > 0 /\ storeFailures' = storeFailures + 1 BY <1>1, <1>3, <1>7, FailingIsFault
    <2>2. StoreLockIsHis(u) BY <1>3, <1>7 DEF StoreLockIsHis
    <2>3. NothingGoes BY <1>1, <1>5, <2>1 DEF NothingGoes
    <2>4. ImportFollows(u)' /\ OnlyUpload(u) /\ importing' \in [Uploads -> ImportRecords] /\ answer' \in [Uploads -> SourceAnswers]
      BY <1>1, <1>2, <1>7, <2>1, <2>3, UnwindFollows
    <2>7. StoreTypeOK' BY <1>1, <1>3, <1>5, <2>1, <2>2, <2>4, StoreTypes
    <2>8. TornIsSeen' BY <2>1, <2>3, <2>4, TornStaysSeen
    <2>9. ReceiptHasSource' BY <1>5, <2>3, SourceStays
    <2>10. StagesAreDiscarded' BY <1>1, <1>3, <2>1, StagesBound DEF KeptInv
    <2> QED BY <2>2, <2>3, <2>4, <2>7, <2>8, <2>9, <2>10, UploadKeeps
  <1> QED BY <1>6, <1>7 DEF WriteReceipt

LEMMA SealSteps ==
    ASSUME KeptInv, NEW u \in Uploads, stepOf(u) = "seal", importing[u].archive \in Archives,
           receipts' \in {receipts, SealedReceipts(importing[u].archive)}, store' = store
    PROVE  /\ receipts' \subseteq AllReceipts
           /\ \A b \in Archives, s \in BOOLEAN : Receipt(b, s) \in receipts' => Receipt(b, s) \in receipts \/ StoredTree(b) \in store
           /\ \A b \in Archives : Receipt(b, TRUE) \in receipts => Receipt(b, TRUE) \in receipts'
           /\ \A b \in Archives : Receipt(b, FALSE) \in receipts' => Receipt(b, FALSE) \in receipts
  <1> DEFINE a == importing[u].archive
  <1>1. receipts \subseteq AllReceipts /\ Receipt(a, TRUE) \in AllReceipts BY ReceiptIs DEF KeptInv, StoreTypeOK
  <1>2. StoredTree(a) \in store BY RequestHas DEF ImportPlaces
  <1>3. \A b \in Archives, s \in BOOLEAN : Receipt(b, s) = Receipt(a, TRUE) => b = a /\ s = TRUE BY DEF Receipt
  <1>4. \A b \in Archives : Receipt(b, TRUE) # Receipt(a, FALSE)
    <2>1. \A b \in Archives : Receipt(b, TRUE).sealed = TRUE BY ReceiptIs
    <2>2. Receipt(a, FALSE).sealed = FALSE BY ReceiptIs
    <2> QED BY <2>1, <2>2
  <1>5. receipts' \subseteq receipts \cup {Receipt(a, TRUE)} BY DEF SealedReceipts
  <1>6. receipts' \subseteq AllReceipts BY <1>1, <1>5
  <1>7. \A b \in Archives, s \in BOOLEAN : Receipt(b, s) \in receipts' => Receipt(b, s) \in receipts \/ StoredTree(b) \in store
    BY <1>2, <1>3, <1>5
  <1>8. \A b \in Archives : Receipt(b, TRUE) \in receipts => Receipt(b, TRUE) \in receipts' BY <1>4 DEF SealedReceipts
  <1>9. \A b \in Archives : Receipt(b, FALSE) \in receipts' => Receipt(b, FALSE) \in receipts
    <2>1. \A b \in Archives : Receipt(b, FALSE) # Receipt(a, TRUE)
      <3>1. \A b \in Archives : Receipt(b, FALSE).sealed = FALSE BY ReceiptIs
      <3>2. Receipt(a, TRUE).sealed = TRUE BY ReceiptIs
      <3> QED BY <3>1, <3>2
    <2> QED BY <1>5, <2>1
  <1> QED BY <1>6, <1>7, <1>8, <1>9

LEMMA SealReceiptKeeps == ASSUME KeptInv, NEW u \in Uploads, SealReceipt(u) PROVE KeptInv'
  <1> DEFINE a == importing[u].archive
  <1>1. stepOf(u) = "seal" /\ importLock' = NoImport /\ UNCHANGED <<upload, storeStops, store, stages, approval>>
    BY DEF SealReceipt, ImportStep
  <1>2. /\ Active(u) /\ importing[u] \in Imports /\ importing[u].result \in ImportResults /\ a \in Archives
        /\ importing[u].result = "unavailable" => Faults > 0
        /\ importLock = u /\ upload[u].archive = a
    BY <1>1, RequestHas DEF ImportPlaces, StoreLocked
  <1>3. StoreTypeOK BY DEF KeptInv
  <1>5. /\ receipts' \subseteq AllReceipts
        /\ \A b \in Archives, s \in BOOLEAN : Receipt(b, s) \in receipts' => Receipt(b, s) \in receipts \/ StoredTree(b) \in store
        /\ \A b \in Archives : Receipt(b, TRUE) \in receipts => Receipt(b, TRUE) \in receipts'
        /\ \A b \in Archives : Receipt(b, FALSE) \in receipts' => Receipt(b, FALSE) \in receipts
    BY <1>1, <1>2, SealSteps DEF SealReceipt
  <1>6. StoreLockIsHis(u) BY <1>1, <1>2 DEF StoreLockIsHis
  <1>7. store' \subseteq store \cup {StoredTree(b) : b \in Archives} /\ stages' \subseteq stages \cup {u} BY <1>1
  <1>8. CASE /\ receipts' = SealedReceipts(a) /\ UNCHANGED <<answer, storeFailures>>
             /\ IF importing[u].published THEN ImportTo(u, "recheck") ELSE Settle(u, "discard", "stored")
    <2>1. Faults' = Faults BY <1>1, <1>8, SameFaults
    <2>2. NothingGoes BY <1>1, <1>5, <2>1 DEF NothingGoes
    <2>3. Receipt(a, TRUE) \in receipts' BY <1>8 DEF SealedReceipts
    <2>4. ImportFollows(u)' /\ OnlyUpload(u) /\ importing' \in [Uploads -> ImportRecords]
      <3>1. CASE importing[u].published
        <4>1. Moved(u, "recheck", importing[u].result) BY <1>2, <1>3, <1>8, <3>1, ImportToMoves DEF ImportPlaces
        <4> QED BY <1>1, <1>2, <1>8, <2>1, <2>2, <2>3, <4>1, MovedFollows DEF ImportPlaces, StoreLocked, Moved
      <3>2. CASE ~importing[u].published
        <4>1. Moved(u, "discard", "stored") BY <1>2, <1>3, <1>8, <3>2, SettleMoves DEF ImportPlaces, ImportResults
        <4> QED BY <1>1, <1>2, <1>8, <2>1, <2>2, <2>3, <4>1, MovedFollows DEF ImportPlaces, StoreLocked, Moved
      <3> QED BY <3>1, <3>2
    <2>5. answer' \in [Uploads -> SourceAnswers] /\ storeFailures' \in {storeFailures, storeFailures + 1}
      BY <1>3, <1>8 DEF StoreTypeOK
    <2>7. StoreTypeOK' BY <1>1, <1>3, <1>5, <1>6, <1>7, <2>4, <2>5, StoreTypes
    <2>8. TornIsSeen'
      <3> SUFFICES ASSUME NEW b \in Archives, Receipt(b, FALSE) \in receipts' PROVE Faults' > 0
        BY DEF TornIsSeen, Receipt
      <3>1. b # a
        <4>1. Receipt(a, FALSE) # Receipt(a, TRUE)
          <5> QED BY <1>2, ReceiptIs
        <4> QED BY <1>8, <4>1 DEF SealedReceipts
      <3>3. ASSUME NEW q \in Uploads, stepOf(q) = "seal", upload[q].archive = b PROVE FALSE
        <4> QED BY <1>2, <3>1, <3>3, RequestHas DEF ImportPlaces, StoreLocked
      <3> QED BY <2>1, <1>5, <3>3 DEF KeptInv, TornIsSeen
    <2>9. ReceiptHasSource' BY <1>5, <2>2, SourceStays
    <2>10. StagesAreDiscarded' BY <1>1, <1>3, <1>8, StagesBound DEF KeptInv
    <2> QED BY <1>6, <2>2, <2>4, <2>7, <2>8, <2>9, <2>10, UploadKeeps
  <1>9. CASE Failing /\ Unwind(u)
    <2>1. Faults' > 0 /\ storeFailures' = storeFailures + 1 BY <1>1, <1>3, <1>9, FailingIsFault
    <2>3. NothingGoes BY <1>1, <1>5, <2>1 DEF NothingGoes
    <2>4. ImportFollows(u)' /\ OnlyUpload(u) /\ importing' \in [Uploads -> ImportRecords] /\ answer' \in [Uploads -> SourceAnswers]
      BY <1>1, <1>2, <1>9, <2>1, <2>3, UnwindFollows
    <2>7. StoreTypeOK' BY <1>1, <1>3, <1>5, <1>6, <1>7, <2>1, <2>4, StoreTypes
    <2>8. TornIsSeen' BY <2>1, <2>3, <2>4, TornStaysSeen
    <2>9. ReceiptHasSource' BY <1>5, <2>3, SourceStays
    <2>10. StagesAreDiscarded' BY <1>1, <1>3, <2>1, StagesBound DEF KeptInv
    <2> QED BY <1>6, <2>3, <2>4, <2>7, <2>8, <2>9, <2>10, UploadKeeps
  <1> QED BY <1>8, <1>9 DEF SealReceipt

LEMMA DiscardKeeps == ASSUME KeptInv, NEW u \in Uploads, Discard(u) PROVE KeptInv'
  <1>1. stepOf(u) = "discard" /\ UNCHANGED <<upload, storeStops, store, receipts, importLock, approval>>
    BY DEF Discard, ImportStep
  <1>2. /\ Active(u) /\ importing[u] \in Imports /\ importing[u].result \in ImportResults
        /\ importing[u].result = "unavailable" => Faults > 0
        /\ importing[u].result = "stored" => Receipt(importing[u].archive, TRUE) \in receipts
    BY <1>1, RequestHas DEF ImportPlaces
  <1>3. StoreTypeOK /\ StoreLockIsHis(u) BY <1>1 DEF KeptInv, StoreLockIsHis
  <1>4. CASE UNCHANGED <<stages, storeFailures>> /\ importing[u].result = "stored" /\ ImportTo(u, "recheck") /\ UNCHANGED answer
    <2>1. Moved(u, "recheck", importing[u].result) BY <1>2, <1>3, <1>4, ImportToMoves DEF ImportPlaces
    <2>2. StoreUntouched /\ Faults' = Faults BY <1>1, <1>4, SameFaults DEF StoreUntouched
    <2> QED BY <1>1, <1>2, <1>3, <1>4, <2>1, <2>2, RequestMoves DEF ImportPlaces, StoreLocked
  <1>5. CASE UNCHANGED <<stages, storeFailures>> /\ importing[u].result # "stored" /\ Close(u, importing[u].result)
    <2>1. StoreUntouched /\ Faults' = Faults BY <1>1, <1>5, SameFaults DEF StoreUntouched
    <2>2. importing[u].result \in SourceAnswers /\ importing[u].result # "done" BY <1>2, <1>5 DEF ImportResults, SourceAnswers
    <2> QED BY <1>1, <1>2, <1>3, <1>5, <2>1, <2>2, RequestCloses
  <1>6. CASE Failing /\ stages' = stages \cup {u} /\ Close(u, "unknown")
    <2>1. Faults' > 0 /\ storeFailures' = storeFailures + 1 BY <1>1, <1>3, <1>6, FailingIsFault
    <2>3. NothingGoes BY <1>1, <2>1 DEF NothingGoes
    <2>4. ImportFollows(u)' /\ OnlyUpload(u) /\ importing' \in [Uploads -> ImportRecords] /\ answer' \in [Uploads -> SourceAnswers]
      BY <1>1, <1>2, <1>6, <2>3, CloseFollows DEF SourceAnswers
    <2>6. receipts' \subseteq AllReceipts BY <1>1, <1>3 DEF StoreTypeOK
    <2>7. StoreTypeOK' BY <1>1, <1>3, <2>1, <2>4, <1>6, <2>6, StoreTypes
    <2>8. TornIsSeen' BY <2>1, <2>3, <2>4, TornStaysSeen
    <2>9. ReceiptHasSource' BY <1>1, <2>3, SourceStays
    <2>10. StagesAreDiscarded' BY <1>1, <1>3, <1>6, <2>1, StagesBound DEF KeptInv
    <2> QED BY <1>3, <2>3, <2>4, <2>7, <2>8, <2>9, <2>10, UploadKeeps
  <1> QED BY <1>4, <1>5, <1>6 DEF Discard

LEMMA ApproveKeeps == ASSUME KeptInv, NEW u \in Uploads, Approve(u) PROVE KeptInv'
  <1>1. stepOf(u) = "recheck" /\ UNCHANGED <<upload, storeStops, store, receipts, stages, importLock, approval, storeFailures>>
    BY DEF Approve, ImportStep
  <1>3. PICK what \in {"done", "unknown"} : Close(u, what) BY DEF Approve
  <1>4. StoreUntouched /\ StoreLockIsHis(u) BY <1>1 DEF StoreUntouched, StoreLockIsHis
  <1> QED BY <1>1, RequestHas, <1>3, <1>4, RequestCloses DEF SourceAnswers, ImportPlaces

LEMMA LookupKeeps == ASSUME KeptInv, NEW u \in Uploads, Lookup(u) PROVE KeptInv'
  <1>1. /\ upload[u].at = "new" /\ importLock = NoImport
        /\ UNCHANGED <<importing, store, receipts, stages, importLock, approval, storeFailures, storeStops>>
    BY DEF Lookup
  <1>2. PICK a \in Archives :
         /\ upload' = [upload EXCEPT ![u] = [at |-> IF HasReceipt(a) THEN "over" ELSE "send", archive |-> a]]
         /\ answer' = [answer EXCEPT ![u] = IF Torn(a) THEN "unavailable" ELSE IF HasReceipt(a) THEN "done" ELSE @]
    BY DEF Lookup
  <1>3. StoreTypeOK /\ ImportFollows(u) BY DEF KeptInv
  <1>4. stepOf(u) = "none" /\ answer[u] = "none" BY <1>1, <1>3 DEF ImportFollows
  <1> DEFINE next == [at |-> IF HasReceipt(a) THEN "over" ELSE "send", archive |-> a]
             says == IF Torn(a) THEN "unavailable" ELSE IF HasReceipt(a) THEN "done" ELSE "none"
  <1>5. next \in UploadRecords /\ next.archive = a /\ (HasReceipt(a) => next.at = "over") /\ says \in SourceAnswers
    BY DEF UploadRecords, SourceAnswers
  <1>6. answer' = [answer EXCEPT ![u] = says] BY <1>2, <1>4
  <1>7. upload' = [upload EXCEPT ![u] = next] BY <1>2
  <1>8. Torn(a) => Faults > 0
    <2> QED BY <1>1, SourceAssumption, TornIsFaulty DEF NoImport
  <1>10. says = "done" => Receipt(a, TRUE) \in receipts BY <1>3, ReceiptsAre
  <1>11. says = "unavailable" => Faults > 0 BY <1>8
  <1>12. says # "none" => HasReceipt(a) BY DEF Torn, HasReceipt
  <1> HIDE DEF next, says
  <1>13. /\ upload' \in [Uploads -> UploadRecords] /\ answer' \in [Uploads -> SourceAnswers]
         /\ upload'[u] = next /\ answer'[u] = says /\ OnlyUpload(u)
    BY <1>1, <1>3, <1>5, <1>6, <1>7 DEF StoreTypeOK, OnlyUpload
  <1>14. StoreUntouched /\ StoreLockIsHis(u) /\ Faults' = Faults BY <1>1, SameFaults DEF StoreUntouched, StoreLockIsHis
  <1>16. StoreTypeOK'
    <2>2. AllReceipts' = AllReceipts BY DEF AllReceipts, Receipt
    <2> QED BY <1>1, <1>3, <1>13, <2>2 DEF StoreTypeOK, StoredTree
  <1>17. stepOf(u)' = "none" /\ ~Active(u)' BY <1>1, <1>4 DEF stepOf, Active
  <1>18. (stepOf(u) # "none" \/ answer[u] # "none" => upload[u].at = "over")' BY <1>5, <1>12, <1>13, <1>17
  <1>19. (stepOf(u) = "recheck" \/ answer[u] = "done" \/ (stepOf(u) = "discard" /\ importing[u].result = "stored")
          => Receipt(upload[u].archive, TRUE) \in receipts)'
    <2>1. Receipt(upload[u].archive, TRUE)' = Receipt(a, TRUE) BY <1>5, <1>13 DEF Receipt
    <2> QED BY <1>1, <1>10, <1>13, <1>17, <2>1
  <1>20. (answer[u] = "unavailable" \/ (Active(u) /\ importing[u].result = "unavailable") => Faults > 0)'
    BY <1>11, <1>13, <1>14, <1>17
  <1>21. ImportFollows(u)' BY <1>17, <1>18, <1>19, <1>20 DEF ImportFollows, StoreLocked
  <1> QED BY <1>13, <1>14, <1>4, UntouchedKeeps, <1>16, <1>21, UploadKeeps

LEMMA SendKeeps == ASSUME KeptInv, NEW u \in Uploads, SendArchive(u) PROVE KeptInv'
  <1>1. /\ upload[u].at = "send" /\ upload' = [upload EXCEPT ![u].at = "over"]
        /\ UNCHANGED <<store, receipts, stages, importLock, approval, storeFailures, storeStops>>
    BY DEF SendArchive
  <1>2. StoreTypeOK /\ ImportFollows(u) BY DEF KeptInv
  <1>4. upload[u].archive \in Archives /\ upload[u] \in [at : {"send", "over"}, archive : Archives]
    BY <1>1, <1>2, ImportIs, UploadIs
  <1> DEFINE a == upload[u].archive
             says == IF approval = 0 THEN "refused" ELSE "waiting"
             next == IF approval = 0 THEN [at |-> "over"]
                     ELSE [at |-> "find", archive |-> a, observed |-> approval, staged |-> FALSE,
                           published |-> FALSE, result |-> "none"]
  <1>5. answer' = [answer EXCEPT ![u] = says] /\ importing' = [importing EXCEPT ![u] = next] BY DEF SendArchive
  <1>6. /\ next \in ImportRecords /\ (approval = 0 => next.at = "over")
        /\ (approval # 0 => next.at = "find" /\ next.archive = a /\ next.result = "none") /\ next.at \in {"over", "find"}
    <2>1. CASE approval = 0 BY <2>1 DEF ImportRecords
    <2>2. CASE approval # 0
      <3>2. next \in Imports BY <1>4, <2>2, <1>2 DEF Imports, ImportPlaces, ImportResults, StoreTypeOK
      <3> QED BY <2>2, <3>2 DEF ImportRecords
    <2> QED BY <2>1, <2>2
  <1>7. says \in SourceAnswers /\ says \notin {"done", "unavailable"} BY DEF SourceAnswers
  <1>8. upload' \in [Uploads -> UploadRecords] /\ upload'[u].at = "over" /\ upload'[u].archive = a
        /\ \A q \in Uploads \ {u} : upload'[q] = upload[q]
    <2> DEFINE over == [at |-> "over", archive |-> a]
    <2>3. [upload[u] EXCEPT !.at = "over"] = over BY <1>4
    <2>4. upload' = [upload EXCEPT ![u] = [upload[u] EXCEPT !.at = "over"]] BY <1>1
    <2>1. upload' = [upload EXCEPT ![u] = over] BY <2>3, <2>4
    <2>2. over \in UploadRecords /\ over.at = "over" /\ over.archive = a BY <1>4 DEF UploadRecords
    <2> HIDE DEF over
    <2> QED BY <1>2, <2>1, <2>2 DEF StoreTypeOK
  <1> HIDE DEF says, next
  <1>9. importing' \in [Uploads -> ImportRecords] /\ answer' \in [Uploads -> SourceAnswers]
        /\ importing'[u] = next /\ answer'[u] = says /\ OnlyUpload(u)
    BY <1>2, <1>5, <1>6, <1>7, <1>8 DEF StoreTypeOK, OnlyUpload
  <1>14. StoreUntouched /\ StoreLockIsHis(u) /\ Faults' = Faults BY <1>1, SameFaults DEF StoreUntouched, StoreLockIsHis
  <1>15. NothingGoes /\ TornIsSeen' /\ ReceiptHasSource' /\ StagesAreDiscarded'
    BY <1>1, <1>2, <1>9, <1>14, UntouchedKeeps DEF ImportFollows
  <1>16. StoreTypeOK'
    <2>2. AllReceipts' = AllReceipts BY DEF AllReceipts, Receipt
    <2> QED BY <1>1, <1>2, <1>8, <1>9, <2>2 DEF StoreTypeOK, StoredTree
  <1>17. stepOf(u)' \in {"over", "find"} /\ (Active(u)' => importing'[u].archive = a /\ importing'[u].result = "none")
    BY <1>6, <1>9 DEF stepOf, Active
  <1>21. ImportFollows(u)' BY <1>7, <1>8, <1>9, <1>17 DEF ImportFollows, StoreLocked
  <1> QED BY <1>9, <1>14, <1>15, <1>16, <1>21, UploadKeeps

LEMMA ChangeProjectKeeps == ASSUME KeptInv, ChangeProject PROVE KeptInv'
  <1>1. /\ approval' \in {0, 2}
        /\ UNCHANGED <<upload, answer, importing, store, receipts, stages, importLock, storeFailures, storeStops>>
    BY DEF ChangeProject
  <1>2. StoreTypeOK'
    <2>2. AllReceipts' = AllReceipts BY DEF AllReceipts, Receipt
    <2> QED BY <1>1, <2>2 DEF KeptInv, StoreTypeOK, StoredTree
  <1>3. \A u \in Uploads : ImportFollows(u)' = ImportFollows(u)
    BY <1>1 DEF ImportFollows, stepOf, Active, StoredTree, Receipt, Faults
  <1>4. TornIsSeen' /\ ReceiptHasSource' BY <1>1 DEF KeptInv, TornIsSeen, ReceiptHasSource, Faults, stepOf, Receipt, StoredTree
  <1> QED BY <1>2, <1>3, <1>4, <1>1 DEF KeptInv, StagesAreDiscarded

LEMMA StopStoreKeeps == ASSUME KeptInv, StopStore PROVE KeptInv'
  <1>1. /\ storeStops' = storeStops + 1 /\ stages' = stages \cup {u \in Uploads : Active(u) /\ importing[u].staged}
        /\ importing' = [u \in Uploads |-> IF Active(u) THEN [at |-> "over"] ELSE importing[u]]
        /\ answer' = [u \in Uploads |-> IF answer[u] = "waiting" THEN "unknown" ELSE answer[u]]
        /\ importLock' = NoImport /\ UNCHANGED <<upload, store, receipts, approval, storeFailures>>
    BY DEF StopStore
  <1>2. StoreTypeOK BY DEF KeptInv
  <1>3. storeFailures \in Nat /\ storeStops \in Nat BY <1>2 DEF StoreTypeOK
  <1>4. Faults' > 0 BY <1>1, <1>3 DEF Faults
  <1>5. StoreTypeOK'
    <2>1. \A b : StoredTree(b)' = StoredTree(b) BY DEF StoredTree
    <2>2. AllReceipts' = AllReceipts BY DEF AllReceipts, Receipt
    <2>3. importing' \in [Uploads -> ImportRecords] BY <1>1, <1>2 DEF StoreTypeOK, ImportRecords
    <2>4. answer' \in [Uploads -> SourceAnswers] BY <1>1, <1>2 DEF StoreTypeOK, SourceAnswers
    <2>5. stages' \subseteq Uploads /\ storeStops' \in Nat BY <1>1, <1>2, <1>3 DEF StoreTypeOK
    <2> QED BY <1>1, <1>2, <2>1, <2>2, <2>3, <2>4, <2>5 DEF StoreTypeOK
  <1>6. ASSUME NEW u \in Uploads PROVE ImportFollows(u)'
    <2>1. ImportFollows(u) BY DEF KeptInv
    <2>3. stepOf(u)' \in {"none", "over"} /\ ~Active(u)' /\ (stepOf(u)' # "none" => stepOf(u) # "none")
      BY <1>1 DEF stepOf, Active
    <2>4. answer'[u] = answer[u] \/ (answer[u] = "waiting" /\ answer'[u] = "unknown") BY <1>1
    <2>6. (stepOf(u) # "none" \/ answer[u] # "none" => upload[u].at = "over")'
      BY <1>1, <2>1, <2>3, <2>4 DEF ImportFollows
    <2>7. (stepOf(u) = "recheck" \/ answer[u] = "done" \/ (stepOf(u) = "discard" /\ importing[u].result = "stored")
            => Receipt(upload[u].archive, TRUE) \in receipts)'
      BY <1>1, <2>1, <2>3, <2>4 DEF ImportFollows, Receipt
    <2> QED BY <1>4, <2>3, <2>6, <2>7 DEF ImportFollows, StoreLocked
  <1>8. ReceiptHasSource' BY <1>1 DEF KeptInv, ReceiptHasSource, Receipt, StoredTree
  <1>9. StagesAreDiscarded'
    <2>1. IsFiniteSet(Uploads) /\ IsFiniteSet(stages) /\ IsFiniteSet(stages')
      BY <1>2, <1>5, SourceAssumption, FS_Subset DEF StoreTypeOK
    <2>2. Cardinality(Uploads) \in Nat /\ Cardinality(stages') \in Nat BY <2>1, FS_CardinalityType
    <2>4. Cardinality(stages') <= Cardinality(Uploads) BY <2>1, <1>5, FS_Subset DEF StoreTypeOK
    <2> DEFINE n == Cardinality(Uploads)
    <2> HIDE DEF n
    <2>5. n \in Nat /\ Cardinality(stages') <= n BY <2>2, <2>4 DEF n
    <2>7. Cardinality(stages') <= storeFailures' + n * storeStops' BY <1>1, <1>3, <2>2, <2>5
    <2> QED BY <2>7 DEF n, StagesAreDiscarded
  <1> QED BY <1>5, <1>6, <1>4, <1>8, <1>9 DEF KeptInv, TornIsSeen

LEMMA StoreStarts == StoreInit => KeptInv
  <1> SUFFICES ASSUME StoreInit PROVE KeptInv OBVIOUS
  <1>1. /\ upload = [u \in Uploads |-> [at |-> "new"]] /\ importing = [u \in Uploads |-> [at |-> "none"]]
        /\ answer = [u \in Uploads |-> "none"] /\ store = {} /\ receipts = {} /\ stages = {} /\ importLock = NoImport
        /\ approval = 1 /\ storeFailures = 0 /\ storeStops = 0
    BY DEF StoreInit
  <1>2. StoreTypeOK BY <1>1 DEF StoreTypeOK, UploadRecords, ImportRecords, SourceAnswers
  <1>4. \A u \in Uploads : ImportFollows(u) BY <1>1 DEF ImportFollows, StoreLocked, stepOf, Active
  <1>6. StagesAreDiscarded
    <2> DEFINE n == Cardinality(Uploads)
    <2> HIDE DEF n
    <2>3. n * 0 = 0 BY SourceAssumption, FS_CardinalityType DEF n
    <2> QED BY <1>1, FS_EmptySet, <2>3 DEF StagesAreDiscarded, n
  <1> QED BY <1>2, <1>4, <1>1, <1>6 DEF KeptInv, TornIsSeen, ReceiptHasSource

LEMMA StoreStays == ASSUME DigestsTellApart PROVE KeptInv /\ [PackingNext \/ StoreNext]_sourceVars => KeptInv'
  <1> SUFFICES ASSUME KeptInv, [PackingNext \/ StoreNext]_sourceVars PROVE KeptInv' OBVIOUS
  <1>1. CASE StoreNext
    <2>1. CASE ChangeProject \/ StopStore BY <2>1, ChangeProjectKeeps, StopStoreKeeps
    <2>2. ASSUME NEW u \in Uploads, Command(u) \/ Import(u) PROVE KeptInv'
      <3>1. CASE Command(u) BY <3>1, LookupKeeps, SendKeeps DEF Command
      <3>2. CASE Import(u)
        BY <3>2, FindKeeps, StageKeeps, LockStoreKeeps, DecideKeeps, PublishKeeps, WriteReceiptKeeps,
           SealReceiptKeeps, DiscardKeeps, ApproveKeeps DEF Import
      <3> QED BY <2>2, <3>1, <3>2
    <2> QED BY <1>1, <2>1, <2>2 DEF StoreNext
  <1>2. CASE PackingNext \/ UNCHANGED sourceVars
    <2>1. UNCHANGED storeVars BY <1>2 DEF PackingNext, sourceVars
    <2>2. /\ \A a : StoredTree(a)' = StoredTree(a) /\ \A s : Receipt(a, s)' = Receipt(a, s)
          /\ AllReceipts' = AllReceipts
      BY DEF StoredTree, Receipt, AllReceipts
    <2>3. StoreTypeOK' BY <2>1, <2>2 DEF KeptInv, StoreTypeOK, storeVars
    <2>4. \A u \in Uploads : ImportFollows(u)'
      BY <2>1, <2>2 DEF KeptInv, ImportFollows, stepOf, Active, Faults, storeVars
    <2>5. TornIsSeen' /\ ReceiptHasSource' BY <2>1, <2>2 DEF KeptInv, TornIsSeen, ReceiptHasSource, Faults, stepOf, storeVars
    <2> QED BY <2>3, <2>4, <2>5, <2>1 DEF KeptInv, StagesAreDiscarded, storeVars
  <1> QED BY <1>1, <1>2

LEMMA StoreFollows == ASSUME DigestsTellApart PROVE KeptInv => ReceiptsAreTrue /\ ImportsAreApart /\ StagesAreDiscarded
  <1> SUFFICES ASSUME KeptInv PROVE ReceiptsAreTrue /\ ImportsAreApart /\ StagesAreDiscarded OBVIOUS
  <1>0. StoreTypeOK /\ StagesAreDiscarded BY DEF KeptInv
  <1>1. ReceiptsAreTrue
    <2> SUFFICES ASSUME NEW r \in receipts PROVE SourceExists(r.source) /\ Source(r.source).tree = r.archive.tree
      BY DEF ReceiptsAreTrue
    <2>1. PICK a \in Archives, s \in BOOLEAN : r = Receipt(a, s) BY <1>0 DEF StoreTypeOK, AllReceipts
    <2>2. r.archive = a /\ r.source = TreeDigest(a.tree) BY <2>1, ReceiptIs
    <2>4. StoredTree(a).id = TreeDigest(a.tree) BY DEF StoredTree
    <2>5. SourceExists(r.source) BY <2>2, <2>1, <2>4 DEF SourceExists, KeptInv, ReceiptHasSource
    <2>6. Source(r.source) \in store /\ Source(r.source).id = r.source BY <2>5 DEF SourceExists, Source
    <2>7. PICK b \in Archives : Source(r.source) = StoredTree(b) BY <1>0, <2>6 DEF StoreTypeOK
    <2>8. Source(r.source).id = TreeDigest(b.tree) /\ Source(r.source).tree = b.tree BY <2>7 DEF StoredTree
    <2> QED BY <2>2, <2>5, <2>8, <2>6 DEF DigestsTellApart
  <1>2. ImportsAreApart
    <2> SUFFICES ASSUME NEW u \in Uploads
                 PROVE  /\ answer[u] = "done" => \E r \in receipts : r.sealed /\ r.archive = upload[u].archive
                        /\ answer[u] = "unavailable" => storeFailures + storeStops > 0
      BY DEF ImportsAreApart
    <2>1. ImportFollows(u) BY DEF KeptInv
    <2>2. ASSUME answer[u] = "done" PROVE \E r \in receipts : r.sealed /\ r.archive = upload[u].archive
      <3>1. Receipt(upload[u].archive, TRUE) \in receipts /\ upload[u].at = "over" BY <2>1, <2>2 DEF ImportFollows
      <3>3. Receipt(upload[u].archive, TRUE).sealed = TRUE /\ Receipt(upload[u].archive, TRUE).archive = upload[u].archive
        BY <1>0, <3>1, ImportIs, UploadIs, ReceiptIs
      <3> QED BY <3>1, <3>3
    <2> QED BY <2>2, <2>1 DEF ImportFollows, Faults
  <1> QED BY <1>0, <1>1, <1>2

LEMMA SourcesStay ==
    ASSUME [PackingNext \/ StoreNext]_sourceVars
    PROVE  store \subseteq store' /\ \A r \in receipts : r.sealed => r \in receipts'
  <1>1. CASE UNCHANGED <<store, receipts>> BY <1>1
  <1>2. ASSUME NEW u \in Uploads, PublishDirectory(u)
        PROVE  store \subseteq store' /\ \A r \in receipts : r.sealed => r \in receipts'
    BY <1>2 DEF PublishDirectory, WithSource
  <1>3. ASSUME NEW u \in Uploads, WriteReceipt(u)
        PROVE  store \subseteq store' /\ \A r \in receipts : r.sealed => r \in receipts'
    BY <1>3 DEF WriteReceipt
  <1>4. ASSUME NEW u \in Uploads, SealReceipt(u)
        PROVE  store \subseteq store' /\ \A r \in receipts : r.sealed => r \in receipts'
    <2> DEFINE a == importing[u].archive
    <2>2. \A r \in receipts : r.sealed => r \in SealedReceipts(a) BY DEF SealedReceipts, Receipt
    <2> QED BY <2>2, <1>4 DEF SealReceipt
  <1>5. CASE StoreNext
    <2>1. ASSUME NEW u \in Uploads, Command(u) \/ Import(u), ~PublishDirectory(u), ~WriteReceipt(u), ~SealReceipt(u)
          PROVE  UNCHANGED <<store, receipts>>
      BY <2>1 DEF Command, Import, Lookup, SendArchive, Find, Stage, LockStore, Decide, Discard, Approve
    <2>2. ChangeProject \/ StopStore => UNCHANGED <<store, receipts>> BY DEF ChangeProject, StopStore
    <2> QED BY <1>1, <1>2, <1>3, <1>4, <1>5, <2>1, <2>2 DEF StoreNext
  <1> QED BY <1>1, <1>5 DEF PackingNext, sourceVars, storeVars

(* For every number of edits, uploads, failing writes and stops, over
   archives whose trees TreeDigest tells apart: what client/sources.rs
   packs was there together, every receipt of server/sources/store.rs
   names a stored tree that is the archive's, whoever is told that a
   source is stored finds its receipt, and only a failure or a stop leaves
   a stage. *)
THEOREM SourcesStayWhole == ASSUME DigestsTellApart PROVE SourceSpec => []SourcesAreWhole
  <1>1. PackingInit => PackInv BY PackStarts
  <1>2. StoreInit => KeptInv BY StoreStarts
  <1>3. PackInv /\ [PackingNext \/ StoreNext]_sourceVars => PackInv' BY PackingStays
  <1>4. KeptInv /\ [PackingNext \/ StoreNext]_sourceVars => KeptInv' BY StoreStays
  <1>5. PackInv /\ KeptInv => SourcesAreWhole BY PackFollows, StoreFollows DEF SourcesAreWhole
  <1> QED BY <1>1, <1>2, <1>3, <1>4, <1>5, PTL DEF SourceSpec

(* Nothing of server/sources/store.rs takes back a source that was
   published or a receipt that was sealed, whichever step fails. *)
THEOREM SourcesAreNeverTakenBack == SourceSpec => SourcesAreKept
  <1>1. [PackingNext \/ StoreNext]_sourceVars
          => [store \subseteq store' /\ \A r \in receipts : r.sealed => r \in receipts']_sourceVars
    BY SourcesStay
  <1> QED BY <1>1, PTL DEF SourceSpec, SourcesAreKept

------------
(* io/checkpoints.rs, server/checkpoints.rs: checkpoints of a Worker. *)
Versions == UNION {[names -> Nat \ {0}] : names \in SUBSET Names}
Documents == [of : Generations, files : Versions]
CheckpointFiles == [version : Nat, sealed : BOOLEAN, held : BOOLEAN, late : BOOLEAN]
CheckPlaces == {"walk", "hash", "seal", "directory", "walk again", "hash again", "marker"}
Checks == [at : CheckPlaces, marker : Documents, done : SUBSET Names]

SealTypeOK ==
    /\ generation \in [Generations -> [sealed : BOOLEAN, files : [Names -> CheckpointFiles]]]
    /\ budget \in [writes : 0..MaxWrites, marks : Nat, crashes : Nat]
    /\ marker \in Documents \cup {NoMarker}
    /\ check = Unoccupied \/ check \in Checks
    /\ verified \in documents \cup {NoMarker}
    /\ documents \subseteq Documents
    /\ DOMAIN registrations \subseteq documents
    /\ restore = Unoccupied \/ restore \in [at : {"modes", "hash", "started", "refused"}, of : documents]

\* Nobody has a file open that is not there.
NoneIsHeld == \A g \in Generations, n \in Names : Files(g)[n].version = 0 => ~Files(g)[n].held

\* What a manifest names stays in a directory that is sealed, or is written late.
IsCertain(m, n) == SameFile(m, n) \/ Files(m.of)[n].late
IsClosed(m) == generation[m.of].sealed
Certain(m) == IsClosed(m) /\ SameListing(m) /\ \A n \in DOMAIN m.files : IsCertain(m, n)

CheckFollows ==
    check # Unoccupied =>
        /\ check.done \subseteq ListedNames
        /\ check.at \in {"walk again", "hash again", "marker"} => IsClosed(check.marker)
        /\ check.at \in {"directory", "walk again"} => check.done = {}
        /\ check.at \in {"hash again", "marker"} => SameListing(check.marker)
        /\ check.at = "hash again" => \A n \in check.done : IsCertain(check.marker, n)
        /\ check.at = "marker" => \A n \in ListedNames : IsCertain(check.marker, n)
DocumentsAreCertain == \A d \in documents : Certain(d)
RestoreFollows ==
    restore # Unoccupied =>
        /\ budget.writes = 0
        /\ restore.at = "started" => RestoredMatches(restore.of)

SealInv ==
    /\ SealTypeOK /\ NoneIsHeld /\ CheckFollows /\ DocumentsAreCertain /\ RestoreFollows

(* A manifest is not the absence of one, and a check under way is not none. *)
LEMMA MarkerIsDocument ==
    /\ NoMarker \notin Documents
    /\ Unoccupied \notin Checks
    /\ \A docs : Unoccupied \notin [at : {"modes", "hash", "started", "refused"}, of : docs]
  <1>1. Unoccupied.at = "idle" BY DEF Unoccupied
  <1>3. Unoccupied \notin Checks BY <1>1 DEF Checks, CheckPlaces
  <1>4. ASSUME NEW docs, Unoccupied \in [at : {"modes", "hash", "started", "refused"}, of : docs] PROVE FALSE
    <2> QED BY <1>1, <1>4
  <1>6. \A d \in Documents : DOMAIN d = {"of", "files"} BY DEF Documents
  <1>7. "files" \notin {"of"} /\ "files" \in {"of", "files"} OBVIOUS
  <1>8. NoMarker \notin Documents BY <1>6, <1>7 DEF NoMarker
  <1> QED BY <1>3, <1>4, <1>8

(* What a manifest names is a file of a generation. *)
LEMMA ManifestType ==
    ASSUME NEW m \in Documents
    PROVE  /\ m.of \in Generations /\ DOMAIN m.files \subseteq Names
           /\ \A n \in DOMAIN m.files : m.files[n] \in Nat /\ m.files[n] # 0
  BY DEF Documents, Versions

(* What no step of anybody does to a file of a sealed directory: it does
   not come or go, and a change of it is late. *)
FileGoesOn(f, new, closed) ==
    /\ new \in CheckpointFiles
    /\ new.version = 0 => ~new.held
    /\ closed => /\ new.version = 0 <=> f.version = 0
                 /\ f.late => new.late
                 /\ new.version # f.version => new.late
GoesOn ==
    /\ \A g \in Generations : generation[g].sealed => generation'[g].sealed
    /\ \A g \in Generations, n \in Names : FileGoesOn(Files(g)[n], Files(g)'[n], generation[g].sealed)
    /\ budget'.writes <= budget.writes
    /\ budget.writes = 0 => \A g \in Generations, n \in Names : Files(g)'[n].version = Files(g)[n].version

LEMMA ManifestGoesOn ==
    ASSUME GoesOn, NEW m \in Documents
    PROVE  /\ IsClosed(m) => IsClosed(m)'
           /\ IsClosed(m) /\ SameListing(m) => SameListing(m)'
           /\ IsClosed(m) => \A n \in DOMAIN m.files : IsCertain(m, n) => IsCertain(m, n)'
           /\ budget.writes = 0 /\ RestoredMatches(m) => RestoredMatches(m)'
  <1>0. m.of \in Generations /\ DOMAIN m.files \subseteq Names BY ManifestType
  <1>3. IsClosed(m) => IsClosed(m)' BY <1>0 DEF IsClosed, GoesOn
  <1>4. ASSUME NEW n \in Names
        PROVE  FileGoesOn(Files(m.of)[n], Files(m.of)'[n], generation[m.of].sealed)
    BY <1>0 DEF GoesOn
  <1>5. IsClosed(m) /\ SameListing(m) => SameListing(m)'
    BY <1>4 DEF IsClosed, SameListing, Present, FileGoesOn
  <1>7. ASSUME NEW n \in DOMAIN m.files, IsClosed(m)
        PROVE  IsCertain(m, n) => IsCertain(m, n)'
    BY <1>0, <1>4, <1>7 DEF IsClosed, IsCertain, SameFile, FileGoesOn
  <1>8. budget.writes = 0 /\ RestoredMatches(m) => RestoredMatches(m)'
    BY <1>0 DEF RestoredMatches, SameFile, GoesOn
  <1> QED BY <1>3, <1>5, <1>7, <1>8

(* Whoever changes only files, and goes on, keeps the rest true. *)
LEMMA SealFollows ==
    ASSUME SealInv, GoesOn, UNCHANGED restore, budget' \in [writes : 0..MaxWrites, marks : Nat, crashes : Nat]
    PROVE  /\ NoneIsHeld'
           /\ \A d \in documents : Certain(d)'
           /\ restore # Unoccupied => /\ budget'.writes = 0
                                      /\ restore.at = "started" => RestoredMatches(restore.of)'
  <1>3. ASSUME NEW d \in documents PROVE Certain(d)'
    BY <1>3, ManifestGoesOn DEF SealInv, SealTypeOK, DocumentsAreCertain, Certain
  <1>4. ASSUME restore # Unoccupied
        PROVE  budget'.writes = 0 /\ (restore.at = "started" => RestoredMatches(restore.of)')
    <2>2. restore.of \in Documents BY <1>4 DEF SealInv, SealTypeOK
    <2>3. budget.writes = 0 /\ (restore.at = "started" => RestoredMatches(restore.of))
      BY <1>4 DEF SealInv, RestoreFollows
    <2> PICK m \in Documents : m = restore.of BY <2>2
    <2>6. m = restore'.of OBVIOUS
    <2>5. budget'.writes = 0 BY <2>3 DEF GoesOn
    <2> QED BY <2>3, ManifestGoesOn, <2>5, <2>6
  <1> QED BY <1>3, <1>4 DEF GoesOn, FileGoesOn, NoneIsHeld

(* ... and what a check knows. *)
LEMMA CheckGoesOn == ASSUME SealInv, GoesOn, check' = check PROVE CheckFollows'
  <1>1. CASE check = Unoccupied BY <1>1 DEF CheckFollows
  <1>2. CASE check # Unoccupied
    <2>1. check.marker \in Documents /\ check.done \subseteq ListedNames
      BY <1>2 DEF SealInv, SealTypeOK, CheckFollows, Checks
    <2>2. ListedNames' = ListedNames BY DEF ListedNames
    <2> PICK m \in Documents : m = check.marker BY <2>1
    <2>4. /\ IsClosed(m) => IsClosed(m)'
          /\ IsClosed(m) /\ SameListing(m) => SameListing(m)'
          /\ IsClosed(m) => \A n \in DOMAIN m.files : IsCertain(m, n) => IsCertain(m, n)'
      BY ManifestGoesOn
    <2>5. /\ check.at \in {"walk again", "hash again", "marker"} => IsClosed(m)
          /\ check.at \in {"hash again", "marker"} => SameListing(m)
          /\ check.at = "hash again" => \A n \in check.done : IsCertain(m, n)
          /\ check.at = "marker" => \A n \in ListedNames : IsCertain(m, n)
      BY <1>2 DEF SealInv, CheckFollows
    <2>7. /\ check'.at \in {"walk again", "hash again", "marker"} => IsClosed(m)'
          /\ check'.at \in {"hash again", "marker"} => SameListing(m)'
          /\ check'.at = "hash again" => \A n \in check'.done : IsCertain(m, n)'
          /\ check'.at = "marker" => \A n \in ListedNames' : IsCertain(m, n)'
      <3>1. DOMAIN m.files = ListedNames BY DEF ListedNames
      <3> QED BY <2>1, <2>2, <2>4, <2>5, <3>1
    <2>8. check.at \in {"directory", "walk again"} => check.done = {} BY <1>2 DEF SealInv, CheckFollows
    <2> QED BY <1>2, <2>1, <2>2, <2>7, <2>8 DEF CheckFollows
  <1> QED BY <1>1, <1>2

(* Nothing changes in the generations. *)
LEMMA NothingChanges == ASSUME SealInv, UNCHANGED <<generation, budget>> PROVE GoesOn
  <1>1. \A g \in Generations, n \in Names :
          /\ Files(g)'[n] = Files(g)[n] /\ Files(g)[n] \in CheckpointFiles
          /\ Files(g)[n].version = 0 => ~Files(g)[n].held
    BY DEF SealInv, SealTypeOK, NoneIsHeld, Files
  <1>3. budget'.writes <= budget.writes BY DEF SealInv, SealTypeOK
  <1> QED BY <1>1, <1>3 DEF GoesOn, FileGoesOn

(* One file of one generation changes. *)
LEMMA ChangedFile ==
    ASSUME SealTypeOK, NEW g \in Generations, NEW n \in Names, NEW f \in CheckpointFiles, Change(g, n, f)
    PROVE  /\ generation' \in [Generations -> [sealed : BOOLEAN, files : [Names -> CheckpointFiles]]]
           /\ \A h \in Generations : generation'[h].sealed = generation[h].sealed
           /\ \A h \in Generations, k \in Names :
                Files(h)'[k] = IF h = g /\ k = n THEN f ELSE Files(h)[k]
  <1>1. generation \in [Generations -> [sealed : BOOLEAN, files : [Names -> CheckpointFiles]]] BY DEF SealTypeOK
  <1> DEFINE new == [generation[g] EXCEPT !.files = [generation[g].files EXCEPT ![n] = f]]
  <1>3. generation' = [generation EXCEPT ![g] = new] BY DEF Change
  <1>5. /\ new \in [sealed : BOOLEAN, files : [Names -> CheckpointFiles]]
        /\ new.sealed = generation[g].sealed /\ new.files = [generation[g].files EXCEPT ![n] = f] BY <1>1
  <1> HIDE DEF new
  <1>7. generation' \in [Generations -> [sealed : BOOLEAN, files : [Names -> CheckpointFiles]]] BY <1>1, <1>3, <1>5
  <1>8. \A h \in Generations : generation'[h] = IF h = g THEN new ELSE generation[h] BY <1>1, <1>3
  <1>9. \A h \in Generations : generation'[h].sealed = generation[h].sealed BY <1>5, <1>8
  <1> QED BY <1>1, <1>5, <1>7, <1>8, <1>9 DEF Files

LEMMA OneGoesOn ==
    ASSUME SealInv, NEW g \in Generations, NEW n \in Names, NEW f, Change(g, n, f),
           FileGoesOn(Files(g)[n], f, generation[g].sealed), budget'.writes <= budget.writes,
           budget.writes = 0 => f.version = Files(g)[n].version
    PROVE  GoesOn /\ generation' \in [Generations -> [sealed : BOOLEAN, files : [Names -> CheckpointFiles]]]
  <1>1. SealTypeOK /\ NoneIsHeld /\ f \in CheckpointFiles BY DEF SealInv, FileGoesOn
  <1>4. /\ generation' \in [Generations -> [sealed : BOOLEAN, files : [Names -> CheckpointFiles]]]
        /\ \A h \in Generations : generation'[h].sealed = generation[h].sealed
        /\ \A h \in Generations, k \in Names : Files(h)'[k] = IF h = g /\ k = n THEN f ELSE Files(h)[k]
    BY <1>1, ChangedFile
  <1>5. \A h \in Generations, k \in Names :
          Files(h)[k] \in CheckpointFiles /\ (Files(h)[k].version = 0 => ~Files(h)[k].held)
    BY <1>1 DEF SealTypeOK, NoneIsHeld, Files
  <1>6. ASSUME NEW h \in Generations, NEW k \in Names
        PROVE  FileGoesOn(Files(h)[k], Files(h)'[k], generation[h].sealed)
    <2>1. CASE h = g /\ k = n BY <1>4, <2>1
    <2>2. CASE ~(h = g /\ k = n) BY <1>5, <1>4, <2>2 DEF FileGoesOn
    <2> QED BY <2>1, <2>2
  <1> QED BY <1>4, <1>6 DEF GoesOn

(* A step of training. *)
TrainingStep == UNCHANGED <<marker, check, verified, documents, registrations, restore>>
LEMMA TrainingKeeps ==
    ASSUME SealInv, TrainingStep, GoesOn, budget' \in [writes : 0..MaxWrites, marks : Nat, crashes : Nat],
           generation' \in [Generations -> [sealed : BOOLEAN, files : [Names -> CheckpointFiles]]]
    PROVE  SealInv'
  <1>1. SealTypeOK' BY DEF SealInv, SealTypeOK, TrainingStep
  <1>2. /\ NoneIsHeld' /\ \A d \in documents : Certain(d)'
        /\ restore # Unoccupied => budget'.writes = 0 /\ (restore.at = "started" => RestoredMatches(restore.of)')
    BY SealFollows DEF TrainingStep
  <1>4. CheckFollows' BY CheckGoesOn DEF TrainingStep
  <1>5. documents' = documents /\ restore' = restore BY DEF TrainingStep
  <1>7. DocumentsAreCertain' BY <1>2, <1>5 DEF DocumentsAreCertain
  <1>8. RestoreFollows' BY <1>2, <1>5 DEF RestoreFollows
  <1> QED BY <1>1, <1>2, <1>4, <1>7, <1>8 DEF SealInv

(* A step of a check: what it knows is given. *)
CheckStep == UNCHANGED <<marker, registrations, restore, budget>>
LEMMA CheckKeeps ==
    ASSUME SealInv, CheckStep, GoesOn, UNCHANGED <<verified, documents>>,
           generation' \in [Generations -> [sealed : BOOLEAN, files : [Names -> CheckpointFiles]]],
           check' = Unoccupied \/ check' \in Checks,
           CheckFollows'
    PROVE  SealInv'
  <1>2. /\ NoneIsHeld' /\ \A d \in documents : Certain(d)'
        /\ restore # Unoccupied => budget'.writes = 0 /\ (restore.at = "started" => RestoredMatches(restore.of)')
    BY SealFollows DEF CheckStep, SealInv, SealTypeOK
  <1>5. documents' = documents /\ restore' = restore BY DEF CheckStep
  <1>7. DocumentsAreCertain' BY <1>2, <1>5 DEF DocumentsAreCertain
  <1>8. RestoreFollows' BY <1>2, <1>5 DEF RestoreFollows
  <1> QED BY <1>2, <1>7, <1>8 DEF SealInv, SealTypeOK, CheckStep

(* A check that goes on with the manifest it has. *)
LEMMA CheckMoves ==
    ASSUME SealInv, CheckStep, UNCHANGED <<generation, verified, documents>>,
           check # Unoccupied, NEW at \in CheckPlaces, NEW done \in SUBSET ListedNames,
           check' \in Checks, check'.at = at, check'.marker = check.marker, check'.done = done,
           at \in {"walk again", "hash again", "marker"} => IsClosed(check.marker),
           at \in {"directory", "walk again"} => done = {},
           at \in {"hash again", "marker"} => SameListing(check.marker),
           at = "hash again" => \A n \in done : IsCertain(check.marker, n),
           at = "marker" => \A n \in ListedNames : IsCertain(check.marker, n)
    PROVE  SealInv'
  <1>5. /\ check'.marker = check.marker /\ check'.at = at /\ check'.done = done /\ check' # Unoccupied
    BY MarkerIsDocument
  <1>6. ListedNames' = ListedNames BY <1>5 DEF ListedNames
  <1>8. /\ IsClosed(check.marker)' <=> IsClosed(check.marker)
        /\ SameListing(check.marker)' <=> SameListing(check.marker)
        /\ \A n : IsCertain(check.marker, n)' <=> IsCertain(check.marker, n)
    BY <1>5 DEF IsClosed, SameListing, IsCertain, SameFile, Present, Files
  <1>10. CheckFollows' BY <1>5, <1>6, <1>8 DEF CheckFollows
  <1>11. generation' \in [Generations -> [sealed : BOOLEAN, files : [Names -> CheckpointFiles]]]
    BY DEF SealInv, SealTypeOK
  <1> QED BY NothingChanges, <1>10, <1>11, CheckKeeps DEF CheckStep

LEMMA CheckEnds ==
    ASSUME SealInv, CheckStep, UNCHANGED <<generation, verified, documents>>, NotVerified
    PROVE  SealInv'
  <1>2. check' = Unoccupied BY DEF NotVerified
  <1>3. CheckFollows' BY <1>2 DEF CheckFollows
  <1>4. generation' \in [Generations -> [sealed : BOOLEAN, files : [Names -> CheckpointFiles]]]
    BY DEF SealInv, SealTypeOK
  <1> QED BY NothingChanges, <1>2, <1>3, <1>4, CheckKeeps DEF CheckStep

------------
(* Each step. *)
LEMMA WriteFileKeeps ==
    ASSUME SealInv, NEW g \in Generations, NEW n \in Names, WriteFile(g, n)
    PROVE  SealInv'
  <1>0. SealTypeOK /\ NoneIsHeld BY DEF SealInv
  <1>1. budget.writes \in 1..MaxWrites /\ MaxWrites \in Nat /\ budget' = [budget EXCEPT !.writes = budget.writes - 1]
    BY <1>0, SealAssumption DEF SealTypeOK, WriteFile
  <1>2. /\ budget' \in [writes : 0..MaxWrites, marks : Nat, crashes : Nat]
        /\ budget'.writes = budget.writes - 1
    BY <1>0, <1>1 DEF SealTypeOK
  <1> DEFINE f == Files(g)[n]
             number == MaxWrites + 1 - budget.writes
             late == f.sealed \/ generation[g].sealed
  <1>3. f \in CheckpointFiles /\ (f.version = 0 => ~f.held) /\ generation[g].sealed \in BOOLEAN
    BY <1>0 DEF SealTypeOK, NoneIsHeld, Files
  <1>4. PICK held \in BOOLEAN : Change(g, n, [version |-> number, sealed |-> f.sealed, held |-> held, late |-> late])
    BY DEF WriteFile
  <1> DEFINE new == [version |-> number, sealed |-> f.sealed, held |-> held, late |-> late]
  <1>5. late \in BOOLEAN /\ f.sealed \in BOOLEAN BY <1>3 DEF CheckpointFiles
  <1>6. number \in Nat /\ number # 0 BY <1>1
  <1>7. new \in CheckpointFiles /\ new.version # 0 /\ (generation[g].sealed => new.late)
    BY <1>5, <1>6 DEF CheckpointFiles
  <1>8. generation[g].sealed => f.version # 0 BY <1>3 DEF WriteFile
  <1> HIDE DEF new
  <1>9. FileGoesOn(f, new, generation[g].sealed) BY <1>7, <1>8 DEF FileGoesOn
  <1>11. GoesOn /\ generation' \in [Generations -> [sealed : BOOLEAN, files : [Names -> CheckpointFiles]]]
    BY <1>1, <1>2, <1>9, <1>4, OneGoesOn DEF new
  <1> QED BY <1>2, <1>11, TrainingKeeps DEF WriteFile, TrainingStep

LEMMA ReplaceFileKeeps ==
    ASSUME SealInv, NEW g \in Generations, NEW n \in Names, ReplaceFile(g, n)
    PROVE  SealInv'
  <1>0. SealTypeOK /\ NoneIsHeld BY DEF SealInv
  <1>1. budget.writes \in 1..MaxWrites /\ MaxWrites \in Nat /\ budget' = [budget EXCEPT !.writes = budget.writes - 1]
    BY <1>0, SealAssumption DEF SealTypeOK, ReplaceFile
  <1>2. /\ budget' \in [writes : 0..MaxWrites, marks : Nat, crashes : Nat]
        /\ budget'.writes = budget.writes - 1
    BY <1>0, <1>1 DEF SealTypeOK
  <1>3. Files(g)[n].version \in Nat BY <1>0 DEF SealTypeOK, Files, CheckpointFiles
  <1>4. PICK version \in {0, Files(g)[n].version, MaxWrites + 1 - budget.writes} : Change(g, n, [NoFile EXCEPT !.version = version])
    BY DEF ReplaceFile
  <1>6. version \in Nat BY <1>1, <1>3, <1>4
  <1> DEFINE new == [NoFile EXCEPT !.version = version]
  <1>7. new \in CheckpointFiles /\ ~new.held
    <2>2. NoFile \in CheckpointFiles /\ ~NoFile.held BY DEF NoFile, CheckpointFiles
    <2> QED BY <1>6, <2>2 DEF CheckpointFiles
  <1> HIDE DEF new
  <1>9. FileGoesOn(Files(g)[n], new, generation[g].sealed) BY <1>7 DEF FileGoesOn, ReplaceFile
  <1>11. GoesOn /\ generation' \in [Generations -> [sealed : BOOLEAN, files : [Names -> CheckpointFiles]]]
    BY <1>1, <1>2, <1>9, <1>4, OneGoesOn DEF new
  <1> QED BY <1>2, <1>11, TrainingKeeps DEF ReplaceFile, TrainingStep

LEMMA NothingLeft ==
    ASSUME NEW b \in [writes : 0..MaxWrites, marks : Nat, crashes : Nat], NEW c,
           c = [b EXCEPT !.writes = 0, !.marks = 0]
    PROVE  c \in [writes : 0..MaxWrites, marks : Nat, crashes : Nat] /\ c.writes = 0
  <1>1. 0 \in 0..MaxWrites BY SealAssumption
  <1> QED BY <1>1

LEMMA TrainingEndsKeeps ==
    ASSUME SealInv, TrainingEnds
    PROVE  SealInv'
  <1>0. SealTypeOK BY DEF SealInv
  <1>1. /\ budget' \in [writes : 0..MaxWrites, marks : Nat, crashes : Nat] /\ budget'.writes = 0
        /\ budget.writes \in Nat /\ MaxWrites \in Nat
    <2>2. budget \in [writes : 0..MaxWrites, marks : Nat, crashes : Nat] BY <1>0 DEF SealTypeOK
    <2>3. budget' \in [writes : 0..MaxWrites, marks : Nat, crashes : Nat] /\ budget'.writes = 0
      BY <2>2, NothingLeft DEF TrainingEnds
    <2> QED BY <2>2, <2>3, SealAssumption
  <1> DEFINE Closed(g) == [n \in Names |-> [Files(g)[n] EXCEPT !.held = FALSE]]
  <1>2. generation' = [g \in Generations |-> [generation[g] EXCEPT !.files = Closed(g)]]
    BY DEF TrainingEnds, Files
  <1>3. \A g \in Generations, n \in Names :
          /\ Files(g)[n] \in CheckpointFiles
          /\ generation[g] \in [sealed : BOOLEAN, files : [Names -> CheckpointFiles]]
    BY <1>0 DEF SealTypeOK, Files
  <1>4. \A g \in Generations : Closed(g) \in [Names -> CheckpointFiles] BY <1>3 DEF CheckpointFiles
  <1>5. \A g \in Generations, n \in Names :
          /\ Closed(g)[n].version = Files(g)[n].version /\ Closed(g)[n].sealed = Files(g)[n].sealed
          /\ Closed(g)[n].late = Files(g)[n].late /\ Closed(g)[n].held = FALSE
    BY <1>3 DEF CheckpointFiles
  <1> HIDE DEF Closed
  <1>6. \A g \in Generations :
          /\ generation[g] \in [sealed : BOOLEAN, files : [Names -> CheckpointFiles]]
          /\ [generation[g] EXCEPT !.files = Closed(g)] \in [sealed : BOOLEAN, files : [Names -> CheckpointFiles]]
          /\ [generation[g] EXCEPT !.files = Closed(g)].files = Closed(g)
          /\ [generation[g] EXCEPT !.files = Closed(g)].sealed = generation[g].sealed
    BY <1>0, <1>4 DEF SealTypeOK
  <1>7. /\ generation' \in [Generations -> [sealed : BOOLEAN, files : [Names -> CheckpointFiles]]]
        /\ \A g \in Generations : generation'[g].files = Closed(g) /\ generation'[g].sealed = generation[g].sealed
    BY <1>2, <1>6
  <1>9. \A g \in Generations, n \in Names : Files(g)'[n] = Closed(g)[n] BY <1>7 DEF Files
  <1>10. ASSUME NEW g \in Generations, NEW n \in Names
         PROVE  FileGoesOn(Files(g)[n], Files(g)'[n], generation[g].sealed)
    <2> QED BY <1>5, <1>9, <1>4 DEF FileGoesOn
  <1>11. GoesOn BY <1>1, <1>5, <1>7, <1>9, <1>10 DEF GoesOn
  <1> QED BY <1>1, <1>7, <1>11, TrainingKeeps DEF TrainingEnds, TrainingStep

LEMMA MarkReadyKeeps ==
    ASSUME SealInv, NEW g \in Generations, MarkReady(g)
    PROVE  SealInv'
  <1>0. SealTypeOK BY DEF SealInv
  <1>1. PICK names \in SUBSET Present(g) \ {{}} : marker' = [of |-> g, files |-> Contents(g, names)] BY DEF MarkReady
  <1>2. \A n \in names : n \in Names /\ Files(g)[n].version \in Nat \ {0}
    BY <1>0, <1>1 DEF Present, SealTypeOK, Files, CheckpointFiles
  <1>3. Contents(g, names) \in Versions
    <2> QED BY <1>2 DEF Versions, Contents
  <1>4. marker' \in Documents BY <1>1, <1>3 DEF Documents
  <1>5. budget' \in [writes : 0..MaxWrites, marks : Nat, crashes : Nat] /\ budget'.writes = budget.writes
    BY <1>0 DEF SealTypeOK, MarkReady
  <1>8. UNCHANGED <<generation, check, verified, documents, registrations, restore>> BY DEF MarkReady
  <1>9. SealTypeOK' BY <1>0, <1>4, <1>5, <1>8 DEF SealTypeOK
  <1>10. NoneIsHeld' BY <1>8 DEF SealInv, NoneIsHeld, Files
  <1>12. CheckFollows'
    BY <1>8 DEF SealInv, CheckFollows, ListedNames, IsCertain, IsClosed, SameListing, SameFile, Present, Files
  <1>13. DocumentsAreCertain'
    BY <1>8 DEF SealInv, DocumentsAreCertain, Certain, IsCertain, IsClosed, SameListing, SameFile, Present, Files
  <1>14. RestoreFollows' BY <1>5, <1>8 DEF SealInv, RestoreFollows, RestoredMatches, SameFile, Files
  <1> QED BY <1>9, <1>10, <1>12, <1>13, <1>14 DEF SealInv

CheckMoved(d, c, at, done) == d = [c EXCEPT !.at = at, !.done = done]
Arrived(d, c, at) == d = [c EXCEPT !.at = at]
Added(d, c, done) == d = [c EXCEPT !.done = done]
IsCheck(d, c, at, done) == d \in Checks /\ d.at = at /\ d.marker = c.marker /\ d.done = done
LEMMA CheckChanges ==
    ASSUME NEW c \in Checks, NEW d, NEW at \in CheckPlaces, NEW done \in SUBSET Names
    PROVE  /\ CheckMoved(d, c, at, done) => IsCheck(d, c, at, done)
           /\ Arrived(d, c, at) => IsCheck(d, c, at, c.done)
           /\ Added(d, c, done) => IsCheck(d, c, c.at, done)
  <1>1. ASSUME CheckMoved(d, c, at, done) PROVE IsCheck(d, c, at, done) BY <1>1 DEF CheckMoved, IsCheck, Checks
  <1>2. ASSUME Arrived(d, c, at) PROVE IsCheck(d, c, at, c.done) BY <1>2 DEF Arrived, IsCheck, Checks
  <1>3. ASSUME Added(d, c, done) PROVE IsCheck(d, c, c.at, done) BY <1>3 DEF Added, IsCheck, Checks
  <1> QED BY <1>1, <1>2, <1>3

LEMMA ReadMarkerKeeps ==
    ASSUME SealInv, ReadMarker
    PROVE  SealInv'
  <1>0. SealTypeOK BY DEF SealInv
  <1>1. marker # NoMarker /\ marker \in Documents BY <1>0 DEF ReadMarker, SealTypeOK
  <1>2. UNCHANGED <<generation, marker, verified, registrations, restore, budget>> BY DEF ReadMarker
  <1>3. GoesOn /\ generation' \in [Generations -> [sealed : BOOLEAN, files : [Names -> CheckpointFiles]]]
    BY <1>0, <1>2, NothingChanges DEF SealTypeOK
  <1>4. documents' = documents BY <1>0, <1>1 DEF ReadMarker, SealTypeOK
  <1>5. CASE marker = verified
    <2>1. check' = check BY <1>5 DEF ReadMarker
    <2>3. CheckFollows' BY <1>3, <2>1, CheckGoesOn
    <2>4. check' = Unoccupied \/ check' \in Checks BY <1>0, <2>1 DEF SealTypeOK
    <2> QED BY <1>2, <1>3, <1>4, <2>3, <2>4, CheckKeeps DEF CheckStep
  <1>6. CASE marker # verified
    <2>1. check' = [at |-> "walk", marker |-> marker, done |-> {}] BY <1>6 DEF ReadMarker
    <2>2. check' \in Checks /\ check'.marker = marker /\ check'.at = "walk" /\ check'.done = {}
      BY <1>1, <2>1 DEF Checks, CheckPlaces
    <2>5. CheckFollows' BY <2>2 DEF CheckFollows
    <2> QED BY <1>2, <1>3, <1>4, <2>2, <2>5, CheckKeeps DEF CheckStep
  <1> QED BY <1>5, <1>6

(* Whoever is at a place of a check has a manifest. *)
LEMMA CheckIsThere ==
    ASSUME SealInv, check.at \in CheckPlaces
    PROVE  /\ check # Unoccupied /\ check \in Checks /\ check.marker \in Documents
           /\ check.done \subseteq ListedNames /\ ListedNames \subseteq Names
  <1>0. Unoccupied.at = "idle" /\ "idle" \notin CheckPlaces BY DEF Unoccupied, CheckPlaces
  <1>1. check # Unoccupied BY <1>0
  <1>2. check \in Checks BY <1>1 DEF SealInv, SealTypeOK
  <1> QED BY <1>1, <1>2, ManifestType DEF SealInv, CheckFollows, ListedNames, Checks

LEMMA WalkKeeps ==
    ASSUME SealInv, Walk
    PROVE  SealInv'
  <1>2. check # Unoccupied /\ check \in Checks /\ check.done \subseteq ListedNames /\ ListedNames \subseteq Names
    BY CheckIsThere DEF Walk, Checking, CheckPlaces
  <1>3. CheckStep /\ UNCHANGED <<generation, verified, documents>> BY DEF Walk, CheckStep
  <1>4. CASE NotVerified BY <1>3, <1>4, CheckEnds
  <1>5. CASE CheckAt("hash")
    <2>1. "hash" \in CheckPlaces /\ check.done \in SUBSET Names BY <1>2 DEF CheckPlaces
    <2>2. check' \in Checks /\ check'.at = "hash" /\ check'.marker = check.marker /\ check'.done = check.done
      <3>2. IsCheck(check', check, "hash", check.done) BY <1>2, <1>5, <2>1, CheckChanges DEF Arrived, CheckAt
      <3> QED BY <1>2, <1>5, <2>1, <3>2 DEF IsCheck
    <2> QED BY <1>2, <1>3, <2>1, <2>2, CheckMoves
  <1> QED BY <1>4, <1>5 DEF Walk

LEMMA HashFileKeeps ==
    ASSUME SealInv, NEW n \in Names, HashFile(n)
    PROVE  SealInv'
  <1>1. check.at = "hash" /\ check.at \in CheckPlaces /\ n \in ListedNames
    BY DEF HashFile, Checking, CheckPlaces
  <1>2. check # Unoccupied /\ check \in Checks /\ check.done \subseteq ListedNames /\ ListedNames \subseteq Names
    BY <1>1, CheckIsThere
  <1>3. CheckStep /\ UNCHANGED <<generation, verified, documents>> BY DEF HashFile, CheckStep
  <1> DEFINE d == check.done \cup {n}
  <1>4. d \in SUBSET ListedNames /\ d \in SUBSET Names /\ {} \in SUBSET Names /\ {} \in SUBSET ListedNames
    BY <1>1, <1>2
  <1>5. CASE NotVerified BY <1>3, <1>5, CheckEnds
  <1>6. CASE check' = [check EXCEPT !.at = "seal", !.done = {}]
    <2>1. "seal" \in CheckPlaces BY DEF CheckPlaces
    <2>2. check' \in Checks /\ check'.at = "seal" /\ check'.marker = check.marker /\ check'.done = {}
      <3>2. IsCheck(check', check, "seal", {}) BY <1>2, <1>4, <1>6, <2>1, CheckChanges DEF CheckMoved
      <3> QED BY <1>2, <1>4, <1>6, <2>1, <3>2 DEF IsCheck
    <2> QED BY <1>2, <1>3, <1>4, <2>1, <2>2, CheckMoves
  <1>7. CASE check' = [check EXCEPT !.done = d]
    <2> HIDE DEF d
    <2>1. check' \in Checks /\ check'.at = "hash" /\ check'.marker = check.marker /\ check'.done = d
      <3>2. IsCheck(check', check, check.at, d) BY <1>1, <1>2, <1>4, <1>7, CheckChanges DEF Added
      <3> QED BY <1>1, <1>2, <1>4, <1>7, <3>2 DEF IsCheck
    <2> QED BY <1>1, <1>2, <1>3, <1>4, <2>1, CheckMoves
  <1> QED BY <1>5, <1>6, <1>7 DEF HashFile

LEMMA WalkSealedKeeps ==
    ASSUME SealInv, WalkSealed
    PROVE  SealInv'
  <1>1. check.at = "walk again" /\ check.at \in CheckPlaces BY DEF WalkSealed, Checking, CheckPlaces
  <1>2. check # Unoccupied /\ check \in Checks /\ check.done \subseteq ListedNames /\ ListedNames \subseteq Names
    BY <1>1, CheckIsThere
  <1>3. CheckStep /\ UNCHANGED <<generation, verified, documents>> BY DEF WalkSealed, CheckStep
  <1>4. IsClosed(check.marker) /\ check.done = {} BY <1>1, <1>2 DEF SealInv, CheckFollows
  <1>5. CASE NotVerified BY <1>3, <1>5, CheckEnds
  <1>6. CASE SameListing(check.marker) /\ CheckAt("hash again")
    <2>1. "hash again" \in CheckPlaces /\ check.done \in SUBSET Names /\ check.done \in SUBSET ListedNames
      BY <1>2 DEF CheckPlaces
    <2>2. check' \in Checks /\ check'.at = "hash again" /\ check'.marker = check.marker /\ check'.done = check.done
      <3>2. IsCheck(check', check, "hash again", check.done)
        BY <1>2, <1>6, <2>1, CheckChanges DEF Arrived, CheckAt
      <3> QED BY <1>2, <1>6, <2>1, <3>2 DEF IsCheck
    <2> QED BY <1>2, <1>3, <1>4, <1>6, <2>1, <2>2, CheckMoves
  <1> QED BY <1>5, <1>6 DEF WalkSealed

LEMMA HashSealedKeeps ==
    ASSUME SealInv, NEW n \in Names, HashSealed(n)
    PROVE  SealInv'
  <1>1. check.at = "hash again" /\ check.at \in CheckPlaces /\ n \in ListedNames
    BY DEF HashSealed, Checking, CheckPlaces
  <1>2. check # Unoccupied /\ check \in Checks /\ check.done \subseteq ListedNames /\ ListedNames \subseteq Names
    BY <1>1, CheckIsThere
  <1>3. CheckStep /\ UNCHANGED <<generation, verified, documents>> BY DEF HashSealed, CheckStep
  <1>4. /\ IsClosed(check.marker) /\ SameListing(check.marker)
        /\ \A k \in check.done : IsCertain(check.marker, k)
    BY <1>1, <1>2 DEF SealInv, CheckFollows
  <1> DEFINE d == check.done \cup {n}
  <1>5. d \in SUBSET ListedNames /\ d \in SUBSET Names /\ {} \in SUBSET Names /\ {} \in SUBSET ListedNames
    BY <1>1, <1>2
  <1>6. CASE NotVerified BY <1>3, <1>6, CheckEnds
  <1>7. ASSUME SameBytes(check.marker, n) PROVE \A k \in d : IsCertain(check.marker, k)
    <2> QED BY <1>4, <1>7 DEF SameBytes, IsCertain
  <1>8. CASE SameBytes(check.marker, n) /\ d = ListedNames /\ check' = [check EXCEPT !.at = "marker", !.done = {}]
    <2>1. "marker" \in CheckPlaces BY DEF CheckPlaces
    <2>2. check' \in Checks /\ check'.at = "marker" /\ check'.marker = check.marker /\ check'.done = {}
      <3>2. IsCheck(check', check, "marker", {}) BY <1>2, <1>5, <1>8, <2>1, CheckChanges DEF CheckMoved
      <3> QED BY <1>2, <1>5, <1>8, <2>1, <3>2 DEF IsCheck
    <2> QED BY <1>2, <1>3, <1>4, <1>5, <1>7, <1>8, <2>1, <2>2, CheckMoves
  <1>9. CASE SameBytes(check.marker, n) /\ check' = [check EXCEPT !.done = d]
    <2> HIDE DEF d
    <2>1. check' \in Checks /\ check'.at = "hash again" /\ check'.marker = check.marker /\ check'.done = d
      <3>2. IsCheck(check', check, check.at, d) BY <1>1, <1>2, <1>5, <1>9, CheckChanges DEF Added
      <3> QED BY <1>1, <1>2, <1>5, <1>9, <3>2 DEF IsCheck
    <2> QED BY <1>1, <1>2, <1>3, <1>4, <1>5, <1>7, <1>9, <2>1, CheckMoves
  <1> QED BY <1>6, <1>8, <1>9 DEF HashSealed

(* A check that goes on with the manifest it has, and seals. *)
LEMMA CheckMovesOn ==
    ASSUME SealInv, CheckStep, UNCHANGED <<verified, documents>>, GoesOn,
           generation' \in [Generations -> [sealed : BOOLEAN, files : [Names -> CheckpointFiles]]],
           check # Unoccupied, NEW at \in {"seal", "directory", "walk again"}, NEW done \in SUBSET ListedNames,
           NEW m \in Documents, m = check.marker,
           check' \in Checks, check'.at = at, check'.marker = m, check'.done = done,
           at = "walk again" => IsClosed(m)',
           at \in {"directory", "walk again"} => done = {}
    PROVE  SealInv'
  <1>4. ListedNames' = ListedNames BY DEF ListedNames
  <1>6. CheckFollows' BY <1>4 DEF CheckFollows
  <1> QED BY <1>6, CheckKeeps

LEMMA SealFileKeeps ==
    ASSUME SealInv, NEW n \in Names, SealFile(n)
    PROVE  SealInv'
  <1>0. SealTypeOK /\ NoneIsHeld BY DEF SealInv
  <1>1. check.at = "seal" /\ check.at \in CheckPlaces /\ n \in ListedNames
    BY DEF SealFile, Checking, CheckPlaces
  <1>2. check # Unoccupied /\ check \in Checks /\ check.done \subseteq ListedNames /\ ListedNames \subseteq Names
    BY <1>1, CheckIsThere
  <1>3. CheckStep /\ UNCHANGED <<verified, documents>> BY DEF SealFile, CheckStep
  <1>4. PICK m \in Documents : m = check.marker BY <1>1, CheckIsThere
  <1>5. m.of \in Generations BY ManifestType
  <1> DEFINE f == Files(m.of)[n]
             new == [f EXCEPT !.sealed = TRUE]
             d == check.done \cup {n}
  <1>6. CASE f.version = 0 BY <1>3, <1>4, <1>6, CheckEnds DEF SealFile
  <1>7. CASE f.version # 0
    <2>1. Change(m.of, n, new) BY <1>4, <1>7 DEF SealFile
    <2>2. f \in CheckpointFiles BY <1>0, <1>5 DEF SealTypeOK, Files
    <2>3. new \in CheckpointFiles /\ new.version = f.version /\ new.late = f.late BY <2>2 DEF CheckpointFiles
    <2>6. budget'.writes <= budget.writes BY <1>0, <1>3, SealAssumption DEF SealTypeOK, CheckStep
    <2> HIDE DEF new
    <2>7. FileGoesOn(f, new, generation[m.of].sealed) BY <1>7, <2>3 DEF FileGoesOn
    <2>8. GoesOn /\ generation' \in [Generations -> [sealed : BOOLEAN, files : [Names -> CheckpointFiles]]]
      BY <1>5, <2>1, <2>3, <2>6, <2>7, OneGoesOn
    <2>15. d \in SUBSET ListedNames /\ d \in SUBSET Names /\ {} \in SUBSET Names /\ {} \in SUBSET ListedNames
      BY <1>1, <1>2
    <2>16. CASE d = ListedNames /\ check' = [check EXCEPT !.at = "directory", !.done = {}]
      <3>1. "directory" \in CheckPlaces BY DEF CheckPlaces
      <3>2. check' \in Checks /\ check'.at = "directory" /\ check'.marker = check.marker /\ check'.done = {}
        <4>2. IsCheck(check', check, "directory", {}) BY <1>2, <2>15, <2>16, <3>1, CheckChanges DEF CheckMoved
        <4> QED BY <1>2, <2>15, <2>16, <3>1, <4>2 DEF IsCheck
      <3> QED BY <1>2, <1>3, <1>4, <2>8, <2>15, <3>2, CheckMovesOn
    <2>17. CASE check' = [check EXCEPT !.done = d]
      <3> HIDE DEF d
      <3>1. check' \in Checks /\ check'.at = "seal" /\ check'.marker = check.marker /\ check'.done = d
        <4>2. IsCheck(check', check, check.at, d) BY <1>1, <1>2, <2>15, <2>17, CheckChanges DEF Added
        <4> QED BY <1>1, <1>2, <2>15, <2>17, <4>2 DEF IsCheck
      <3> QED BY <1>2, <1>3, <1>4, <2>8, <2>15, <3>1, CheckMovesOn
    <2> QED BY <1>4, <1>7, <2>16, <2>17 DEF SealFile
  <1> QED BY <1>6, <1>7

LEMMA SealDirectoryKeeps ==
    ASSUME SealInv, SealDirectory
    PROVE  SealInv'
  <1>0. SealTypeOK /\ NoneIsHeld BY DEF SealInv
  <1>1. check.at = "directory" /\ check.at \in CheckPlaces BY DEF SealDirectory, Checking, CheckPlaces
  <1>2. check # Unoccupied /\ check \in Checks /\ check.done \subseteq ListedNames /\ ListedNames \subseteq Names
    BY <1>1, CheckIsThere
  <1>3. CheckStep /\ UNCHANGED <<verified, documents>> BY DEF SealDirectory, CheckStep
  <1>4. PICK m \in Documents : m = check.marker BY <1>1, CheckIsThere
  <1>5. m.of \in Generations BY ManifestType
  <1>7. generation \in [Generations -> [sealed : BOOLEAN, files : [Names -> CheckpointFiles]]] BY <1>0 DEF SealTypeOK
  <1> DEFINE new == [generation[m.of] EXCEPT !.sealed = TRUE]
  <1>8. generation' = [generation EXCEPT ![m.of] = new] BY <1>4 DEF SealDirectory
  <1>9. new \in [sealed : BOOLEAN, files : [Names -> CheckpointFiles]] /\ new.sealed /\ new.files = generation[m.of].files
    BY <1>5, <1>7
  <1> HIDE DEF new
  <1>10. generation' \in [Generations -> [sealed : BOOLEAN, files : [Names -> CheckpointFiles]]]
    BY <1>5, <1>7, <1>8, <1>9
  <1>11. \A g \in Generations : generation'[g].files = generation[g].files /\ (generation[g].sealed => generation'[g].sealed)
    BY <1>5, <1>7, <1>8, <1>9
  <1>12. budget' = budget BY <1>3 DEF CheckStep
  <1>14. GoesOn
    <2>1. \A g \in Generations, k \in Names :
            /\ Files(g)'[k] = Files(g)[k] /\ Files(g)[k] \in CheckpointFiles
            /\ Files(g)[k].version = 0 => ~Files(g)[k].held
      BY <1>0, <1>11 DEF SealTypeOK, NoneIsHeld, Files
    <2>2. budget'.writes <= budget.writes BY <1>0, <1>12 DEF SealTypeOK
    <2> QED BY <1>11, <1>12, <2>1, <2>2 DEF GoesOn, FileGoesOn
  <1>18. IsClosed(m)' BY <1>5, <1>7, <1>8, <1>9 DEF IsClosed
  <1>19. check.done = {} BY <1>1, <1>2 DEF SealInv, CheckFollows
  <1>20. "walk again" \in CheckPlaces /\ {} \in SUBSET Names /\ {} \in SUBSET ListedNames BY DEF CheckPlaces
  <1>21. check' \in Checks /\ check'.at = "walk again" /\ check'.marker = check.marker /\ check'.done = {}
    <2>2. IsCheck(check', check, "walk again", check.done)
      BY <1>2, <1>19, <1>20, CheckChanges DEF Arrived, SealDirectory, CheckAt
    <2> QED BY <1>2, <1>19, <1>20, <2>2 DEF IsCheck
  <1> QED BY <1>2, <1>3, <1>4, <1>10, <1>14, <1>18, <1>20, <1>21, CheckMovesOn

(* Steps that change neither the files nor what is left of training. *)
LEMMA FilesStay ==
    ASSUME SealInv, generation' = generation
    PROVE  /\ NoneIsHeld'
           /\ \A m : Certain(m)' <=> Certain(m)
           /\ \A m : RestoredMatches(m)' <=> RestoredMatches(m)
           /\ check' = check => CheckFollows'
  <1>2. NoneIsHeld' BY DEF SealInv, NoneIsHeld, Files
  <1>4. \A m : Certain(m)' <=> Certain(m)
    BY DEF Certain, IsCertain, IsClosed, SameListing, SameFile, Present, Files
  <1>5. \A m : RestoredMatches(m)' <=> RestoredMatches(m) BY DEF RestoredMatches, SameFile, Files
  <1>6. check' = check => CheckFollows'
    BY DEF SealInv, CheckFollows, ListedNames, IsCertain, IsClosed, SameListing, SameFile, Present, Files
  <1> QED BY <1>2, <1>4, <1>5, <1>6

LEMMA ReadMarkerAgainKeeps ==
    ASSUME SealInv, ReadMarkerAgain
    PROVE  SealInv'
  <1>0. SealTypeOK BY DEF SealInv
  <1>1. check.at = "marker" /\ check.at \in CheckPlaces BY DEF ReadMarkerAgain, Checking, CheckPlaces
  <1>2. check # Unoccupied /\ check.marker \in Documents BY <1>1, CheckIsThere
  <1>3. UNCHANGED <<generation, marker, registrations, restore, budget>> /\ check' = Unoccupied
    BY DEF ReadMarkerAgain, NotVerified
  <1>4. Certain(check.marker)
    BY <1>1, <1>2 DEF SealInv, CheckFollows, Certain, ListedNames
  <1>5. /\ documents' = documents \/ (documents' = documents \cup {marker} /\ marker = check.marker)
        /\ verified' = verified \/ (verified' = marker /\ documents' = documents \cup {marker})
    BY DEF ReadMarkerAgain
  <1>6. \A d \in documents' : d \in Documents /\ Certain(d)
    BY <1>0, <1>2, <1>4, <1>5 DEF SealInv, SealTypeOK, DocumentsAreCertain
  <1>8. SealTypeOK' BY <1>0, <1>3, <1>6, <1>5 DEF SealTypeOK
  <1>9. NoneIsHeld' BY <1>3, FilesStay
  <1>11. CheckFollows' BY <1>3 DEF CheckFollows
  <1>12. DocumentsAreCertain'
    <2> SUFFICES ASSUME NEW d \in documents' PROVE Certain(d)' BY DEF DocumentsAreCertain
    <2>1. Certain(d) BY <1>6
    <2> QED BY <1>3, <2>1 DEF Certain, IsClosed, SameListing, IsCertain, SameFile, Present, Files
  <1>13. RestoreFollows' BY <1>3 DEF SealInv, RestoreFollows, RestoredMatches, SameFile, Files
  <1> QED BY <1>8, <1>9, <1>11, <1>12, <1>13 DEF SealInv

(* Steps of the server and of the restoring Worker. *)
LEMMA LaterKeeps ==
    ASSUME SealInv, UNCHANGED <<generation, marker, check, verified, documents>>,
           budget' \in [writes : 0..MaxWrites, marks : Nat, crashes : Nat], budget'.writes = budget.writes,
           DOMAIN registrations' \subseteq documents,
           restore' = Unoccupied \/ restore' \in [at : {"modes", "hash", "started", "refused"}, of : documents],
           restore' # Unoccupied =>
                budget.writes = 0 /\ (restore'.at = "started" => RestoredMatches(restore'.of))
    PROVE  SealInv'
  <1>1. SealTypeOK' BY DEF SealTypeOK, SealInv
  <1>4. DocumentsAreCertain'
    BY DEF SealInv, DocumentsAreCertain, Certain, IsCertain, IsClosed, SameListing, SameFile, Present, Files
  <1>5. RestoreFollows' BY DEF RestoreFollows, RestoredMatches, SameFile, Files
  <1> QED BY <1>1, FilesStay, <1>4, <1>5 DEF SealInv

LEMMA RegisterKeeps ==
    ASSUME SealInv, NEW d \in documents, Register(d)
    PROVE  SealInv'
  <1>0. SealTypeOK /\ RestoreFollows BY DEF SealInv
  <1>2. budget' \in [writes : 0..MaxWrites, marks : Nat, crashes : Nat] /\ budget'.writes = budget.writes
    BY <1>0 DEF SealTypeOK, Register
  <1>4. DOMAIN registrations' \subseteq documents BY <1>0 DEF SealTypeOK, Register
  <1>5. restore = Unoccupied \/ restore \in [at : {"modes", "hash", "started", "refused"}, of : documents]
    BY <1>0 DEF SealTypeOK
  <1>6. restore # Unoccupied => budget.writes = 0 /\ (restore.at = "started" => RestoredMatches(restore.of))
    BY <1>0 DEF RestoreFollows
  <1> QED BY <1>2, <1>4, <1>5, <1>6, LaterKeeps DEF Register

LEMMA SelectCheckpointKeeps ==
    ASSUME SealInv, NEW d \in documents, SelectCheckpoint(d)
    PROVE  SealInv'
  <1>1. UNCHANGED <<generation, marker, check, verified, documents, registrations, budget>> BY DEF SelectCheckpoint
  <1>2. budget' \in [writes : 0..MaxWrites, marks : Nat, crashes : Nat] /\ DOMAIN registrations' \subseteq documents
    BY <1>1 DEF SealTypeOK, SealInv
  <1>3. restore' = [at |-> "modes", of |-> d] /\ budget.writes = 0 BY DEF SelectCheckpoint, TrainingIsOver
  <1> QED BY <1>1, <1>2, <1>3, LaterKeeps

LEMMA RestoreKeeps ==
    ASSUME SealInv, RestoreWalks \/ RestoreHashes
    PROVE  SealInv'
  <1>0. SealTypeOK /\ RestoreFollows BY DEF SealInv
  <1>1. UNCHANGED <<generation, marker, check, verified, documents, registrations, budget>>
    BY DEF RestoreWalks, RestoreHashes
  <1>4. restore # Unoccupied BY DEF Unoccupied, RestoreWalks, RestoreHashes
  <1>5. restore \in [at : {"modes", "hash", "started", "refused"}, of : documents] /\ budget.writes = 0
    BY <1>0, <1>4 DEF SealTypeOK, RestoreFollows
  <1>6. PICK at \in {"hash", "started", "refused"} :
          restore' = [restore EXCEPT !.at = at] /\ (at = "started" => RestoredMatches(restore.of))
    BY DEF RestoreWalks, RestoreHashes
  <1>7. /\ restore' \in [at : {"modes", "hash", "started", "refused"}, of : documents]
        /\ restore'.at = at /\ restore'.of = restore.of
    BY <1>5, <1>6
  <1> QED BY <1>1, <1>0, <1>5, <1>6, <1>7, LaterKeeps DEF SealTypeOK

(* A checkpoint in the beginning: there is none. *)
LEMMA SealBegins == SealInit => SealInv
  <1> SUFFICES ASSUME SealInit PROVE SealInv OBVIOUS
  <1>1. NoFile \in CheckpointFiles /\ NoFile.version = 0 /\ NoFile.held = FALSE BY DEF NoFile, CheckpointFiles
  <1>3. [sealed |-> FALSE, files |-> [n \in Names |-> NoFile]] \in [sealed : BOOLEAN, files : [Names -> CheckpointFiles]]
    BY <1>1
  <1>5. budget \in [writes : 0..MaxWrites, marks : Nat, crashes : Nat] BY SealAssumption DEF SealInit
  <1>6. SealTypeOK BY <1>3, <1>5 DEF SealInit, SealTypeOK
  <1>8. NoneIsHeld BY <1>1 DEF NoneIsHeld, Files, SealInit
  <1> QED BY <1>6, <1>8 DEF SealInv, SealInit, CheckFollows, DocumentsAreCertain, RestoreFollows

LEMMA SealStays ==
    ASSUME SealInv, SealNext
    PROVE  SealInv'
  <1>1. ASSUME TrainingEnds PROVE SealInv' BY <1>1, TrainingEndsKeeps
  <1>2. ASSUME ReadMarker PROVE SealInv' BY <1>2, ReadMarkerKeeps
  <1>3. ASSUME Walk PROVE SealInv' BY <1>3, WalkKeeps
  <1>4. ASSUME SealDirectory PROVE SealInv' BY <1>4, SealDirectoryKeeps
  <1>5. ASSUME WalkSealed PROVE SealInv' BY <1>5, WalkSealedKeeps
  <1>6. ASSUME ReadMarkerAgain PROVE SealInv' BY <1>6, ReadMarkerAgainKeeps
  <1>7. ASSUME RestoreWalks \/ RestoreHashes PROVE SealInv' BY <1>7, RestoreKeeps
  <1>8. ASSUME NEW g \in Generations, MarkReady(g) PROVE SealInv' BY <1>8, MarkReadyKeeps
  <1>9. ASSUME NEW g \in Generations, NEW n \in Names, WriteFile(g, n) PROVE SealInv' BY <1>9, WriteFileKeeps
  <1>10. ASSUME NEW g \in Generations, NEW n \in Names, ReplaceFile(g, n) PROVE SealInv' BY <1>10, ReplaceFileKeeps
  <1>11. ASSUME NEW n \in Names, HashFile(n) PROVE SealInv' BY <1>11, HashFileKeeps
  <1>12. ASSUME NEW n \in Names, SealFile(n) PROVE SealInv' BY <1>12, SealFileKeeps
  <1>13. ASSUME NEW n \in Names, HashSealed(n) PROVE SealInv' BY <1>13, HashSealedKeeps
  <1>14. ASSUME NEW d \in documents, Register(d) PROVE SealInv' BY <1>14, RegisterKeeps
  <1>15. ASSUME NEW d \in documents, SelectCheckpoint(d) PROVE SealInv' BY <1>15, SelectCheckpointKeeps
  <1> QED
    BY <1>1, <1>2, <1>3, <1>4, <1>5, <1>6, <1>7, <1>8, <1>9, <1>10, <1>11, <1>12, <1>13, <1>14, <1>15 DEF SealNext

LEMMA SealStutters == SealInv /\ UNCHANGED sealVars => SealInv'
  <1> SUFFICES ASSUME SealInv, UNCHANGED sealVars PROVE SealInv' OBVIOUS
  <1>2. SealTypeOK /\ RestoreFollows BY DEF SealInv
  <1> QED BY <1>2, LaterKeeps DEF SealTypeOK, RestoreFollows, sealVars

(* What a checkpoint promises follows. *)
LEMMA SealShows == SealInv => CertifiedIsStored /\ RestoredIsRegistered
  <1> SUFFICES ASSUME SealInv PROVE CertifiedIsStored /\ RestoredIsRegistered OBVIOUS
  <1>1. CertifiedIsStored
    BY DEF SealInv, DocumentsAreCertain, Certain, IsCertain, SameListing, CertifiedIsStored
  <1>2. ASSUME restore.at = "started", NEW n \in Names
        PROVE  Files(restore.of.of)[n].version = IF n \in DOMAIN restore.of.files THEN restore.of.files[n] ELSE 0
    <2>1. restore # Unoccupied BY <1>2 DEF Unoccupied
    <2>3. RestoredMatches(restore.of) /\ SameListing(restore.of)
      BY <1>2, <2>1 DEF SealInv, RestoreFollows, DocumentsAreCertain, Certain, SealTypeOK
    <2> QED BY <2>3 DEF RestoredMatches, SameFile, SameListing, Present
  <1> QED BY <1>1, <1>2 DEF RestoredIsRegistered

------------
(* io/artifacts.rs: what a bundle is made of. *)
PathKinds == {"none", "file", "directory", "link"}
Snapshots == [Paths -> [kind : PathKinds, version : Nat]]
WalkResults == [found : SUBSET Paths, entered : SUBSET (0..LastPath), rows : SUBSET (0..LastPath),
                unlisted : Nat, entries : Nat, listed : Nat]
Bounded == tree \in Snapshots /\ required \in Policies /\ most \in FileLimits

(* Sets of paths are finite and can be counted. *)
LEMMA PathsAreCounted ==
    /\ \A S \in SUBSET Paths : IsFiniteSet(S) /\ Cardinality(S) \in Nat
    /\ \A S \in SUBSET Paths, T \in SUBSET Paths :
         /\ S \subseteq T => Cardinality(S) <= Cardinality(T)
         /\ Cardinality(S \cup T) <= Cardinality(S) + Cardinality(T)
         /\ S \cap T = {} => Cardinality(S \cup T) = Cardinality(S) + Cardinality(T)
    /\ \A S \in SUBSET Paths, p \in Paths :
         Cardinality(S \cup {p}) = IF p \in S THEN Cardinality(S) ELSE Cardinality(S) + 1
    /\ Cardinality({}) = 0
  <1>1. IsFiniteSet(Paths)
    <2> QED BY ArchiveAssumption, FS_Interval DEF Paths
  <1>2. \A S \in SUBSET Paths : IsFiniteSet(S) BY <1>1, FS_Subset
  <1>3. \A S \in SUBSET Paths : Cardinality(S) \in Nat BY <1>2, FS_CardinalityType
  <1>4. ASSUME NEW S \in SUBSET Paths, NEW T \in SUBSET Paths
        PROVE  /\ S \subseteq T => Cardinality(S) <= Cardinality(T)
               /\ Cardinality(S \cup T) <= Cardinality(S) + Cardinality(T)
               /\ S \cap T = {} => Cardinality(S \cup T) = Cardinality(S) + Cardinality(T)
    <2>1. IsFiniteSet(S) /\ IsFiniteSet(T) BY <1>2
    <2>3. Cardinality(S \cup T) = Cardinality(S) + Cardinality(T) - Cardinality(S \cap T)
      BY <2>1, FS_Union
    <2>5. Cardinality(S) \in Nat /\ Cardinality(T) \in Nat /\ Cardinality(S \cap T) \in Nat BY <1>3
    <2>6. Cardinality(S \cup T) <= Cardinality(S) + Cardinality(T) BY <2>3, <2>5
    <2>7. ASSUME S \cap T = {} PROVE Cardinality(S \cup T) = Cardinality(S) + Cardinality(T)
      <3> QED BY <2>3, <2>5, <2>7, FS_EmptySet
    <2> QED BY <2>1, FS_Subset, <2>6, <2>7
  <1> QED BY <1>2, <1>3, <1>4, FS_AddElement, FS_EmptySet

(* first_entry_names: those past the first in order are as many as are
   reported to be more. *)
PastLimit(E, limit) == {p \in E : ~(Cardinality({q \in E : q < p}) < limit)}
LEMMA PastLimitIsCounted ==
    ASSUME NEW E \in SUBSET Paths, NEW limit \in Nat
    PROVE  /\ Cardinality(E) <= limit => PastLimit(E, limit) = {}
           /\ Cardinality(E) > limit => Cardinality(PastLimit(E, limit)) <= Cardinality(E) - limit
  <1> DEFINE U == PastLimit(E, limit)
  <1>0. Paths \in SUBSET Nat BY ArchiveAssumption DEF Paths
  <1>1. U \in SUBSET E /\ U \in SUBSET Paths /\ Paths \in SUBSET Nat BY <1>0 DEF PastLimit
  <1>2. Cardinality(E) \in Nat /\ Cardinality(U) \in Nat BY <1>1, PathsAreCounted
  <1>3. CASE U = {}
    <2> HIDE DEF U
    <2>2. Cardinality(E) > limit => Cardinality(U) <= Cardinality(E) - limit BY <1>2, <1>3, PathsAreCounted
    <2> QED BY <1>3, <2>2 DEF U
  <1>4. CASE U # {}
    <2>2. PICK p : p = Least(U) OBVIOUS
    <2>3. p \in U /\ \A q \in U : p <= q
      <3> HIDE DEF U
      <3> QED BY <1>4, <1>1, <2>2, LeastIsThere
    <2> DEFINE B == {q \in E : q < p}
    <2>4. B \in SUBSET Paths /\ B \cap U = {} /\ B \cup U \subseteq E /\ B \cup U \in SUBSET Paths
      <3>1. \A q \in B : q \in Nat /\ p \in Nat /\ q < p BY <1>1, <2>3
      <3>2. \A q \in B : q \notin U BY <2>3, <3>1
      <3> QED BY <1>1, <3>2
    <2>5. ~(Cardinality(B) < limit) BY <2>3 DEF PastLimit
    <2>6. Cardinality(B) \in Nat BY <2>4, PathsAreCounted
    <2>7. Cardinality(B \cup U) = Cardinality(B) + Cardinality(U)
      <3> HIDE DEF U, B
      <3> QED BY <1>1, <2>4, PathsAreCounted
    <2>8. Cardinality(B \cup U) <= Cardinality(E)
      <3> HIDE DEF U, B
      <3> QED BY <2>4, PathsAreCounted
    <2>9. Cardinality(U) >= 1
      <3>1. Cardinality(U) # 0
        <4> HIDE DEF U
        <4> QED BY <1>4, <1>1, PathsAreCounted, FS_EmptySet
      <3> HIDE DEF U
      <3> QED BY <1>2, <3>1
    <2> HIDE DEF U, B
    <2>10. ~(Cardinality(E) <= limit) /\ Cardinality(U) <= Cardinality(E) - limit
      BY <1>2, <2>5, <2>6, <2>7, <2>8, <2>9
    <2> QED BY <2>10 DEF U
  <1> QED BY <1>3, <1>4

------------
(* The steps of a walk. *)
SameButRows(s, r) ==
    /\ r \in WalkResults
    /\ r.found = s.found /\ r.entered = s.entered /\ r.entries = s.entries /\ r.listed = s.listed
    /\ s.rows \subseteq r.rows

LEMMA AddRowSays ==
    ASSUME NEW s \in WalkResults, NEW p \in 0..LastPath
    PROVE  /\ SameButRows(s, AddRow(s, p))
           /\ \/ p \in AddRow(s, p).rows /\ AddRow(s, p).unlisted = s.unlisted
              \/ AddRow(s, p).rows = s.rows /\ AddRow(s, p).unlisted = s.unlisted + 1
  <1>1. CASE Cardinality(s.rows) >= MostRows
    <2>2. s.unlisted + 1 \in Nat BY DEF WalkResults
    <2> QED BY <1>1, <2>2 DEF WalkResults, SameButRows, AddRow
  <1>2. CASE ~(Cardinality(s.rows) >= MostRows)
    <2>2. s.rows \cup {p} \in SUBSET (0..LastPath) BY DEF WalkResults
    <2> QED BY <1>2, <2>2 DEF WalkResults, SameButRows, AddRow
  <1> QED BY <1>1, <1>2

\* The entries of a directory that are past its listing limit.
Unlisted(d) == {p \in Paths : IsThere(p) /\ Parent[p] = d /\ ~IsListed(p)}

LEMMA CutSays ==
    ASSUME Bounded, NEW s \in WalkResults, NEW d \in 0..LastPath
    PROVE  /\ SameButRows(s, Cut(s, d, EntriesOf(d)))
           /\ s.unlisted + Cardinality(Unlisted(d)) <= Cut(s, d, EntriesOf(d)).unlisted
  <1> DEFINE E == EntriesOf(d)
             r == Cut(s, d, E)
  <1>1. E \in SUBSET Paths /\ most \in Nat BY ArchiveAssumption DEF EntriesOf, Bounded
  <1>2. Unlisted(d) = PastLimit(E, most)
    <2>2. \A p \in E : IsListed(p) <=> Cardinality({q \in E : q < p}) < most
      <3> TAKE p \in E
      <3>1. EntriesOf(Parent[p]) = E BY DEF EntriesOf
      <3> HIDE DEF E
      <3> QED BY <3>1 DEF IsListed
    <2>3. \A p \in Paths : p \in E <=> IsThere(p) /\ Parent[p] = d BY DEF EntriesOf
    <2> HIDE DEF E
    <2> QED BY <1>1, <2>2, <2>3 DEF Unlisted, PastLimit
  <1>3. Cardinality(E) \in Nat /\ Cardinality(Unlisted(d)) \in Nat /\ s.unlisted \in Nat
    <2> HIDE DEF E
    <2> QED BY <1>1, PathsAreCounted DEF WalkResults, Unlisted
  <1> HIDE DEF E
  <1>4. CASE Cardinality(E) <= most
    <2>2. Cardinality(Unlisted(d)) = 0 BY <1>1, <1>2, <1>4, PastLimitIsCounted, PathsAreCounted
    <2> QED BY <1>3, <1>4, <2>2 DEF SameButRows, E, Cut
  <1>5. CASE ~(Cardinality(E) <= most)
    <2> DEFINE withRow == AddRow(s, d)
               more == Cardinality(E) - most
    <2>1. more \in Nat /\ Cardinality(Unlisted(d)) <= more BY <1>1, <1>2, <1>3, <1>5, PastLimitIsCounted
    <2>2. SameButRows(s, withRow) /\ withRow.unlisted >= s.unlisted /\ withRow.unlisted \in Nat
      BY <1>3, AddRowSays DEF SameButRows, WalkResults
    <2>3. r = [withRow EXCEPT !.unlisted = withRow.unlisted + more] BY <1>5 DEF Cut
    <2> HIDE DEF withRow, more, r
    <2>4. withRow.unlisted + more \in Nat BY <2>1, <2>2
    <2>5. SameButRows(s, r) /\ r.unlisted = withRow.unlisted + more
      BY <2>2, <2>3, <2>4 DEF SameButRows, WalkResults
    <2> QED BY <2>5, <1>3, <2>1, <2>2 DEF r, E
  <1> QED BY <1>4, <1>5

\* After the paths up to k: what was found has its room, and what is not said is counted.
Unsaid(s, k) ==
    {p \in Paths : IsThere(p) /\ Parent[p] \in s.entered /\ ~IsListed(p)}
      \cup {p \in 1..k : /\ IsThere(p) /\ Parent[p] \in s.entered /\ IsListed(p)
                         /\ p \notin s.found \cup s.rows \cup s.entered \cup required}
HasRoom(s) ==
    /\ Cardinality(s.found) <= s.entries /\ Cardinality(s.found) <= Room
    /\ s.listed = Cardinality(required) + Cardinality(s.found \ required)
    /\ s.listed <= Listed \/ s.found = {}
Passed(s, k) ==
    /\ s \in WalkResults /\ s.found \subseteq 1..k /\ s.entered \subseteq 0..k
    /\ HasRoom(s) /\ Cardinality(Unsaid(s, k)) <= s.unlisted

LEMMA RoomIsNat ==
    ASSUME Bounded
    PROVE  Room \in Nat /\ required \in SUBSET Paths /\ Cardinality(required) \in Nat /\ Listed \in Nat
  <1>1. required \in SUBSET Paths /\ Cardinality(required) <= most /\ most \in Nat /\ Listed \in Nat
    BY ArchiveAssumption DEF Bounded
  <1> QED BY <1>1, PathsAreCounted DEF Room

LEMMA ListingPasses ==
    ASSUME Bounded
    PROVE  Passed(Listing, 0)
  <1> DEFINE cut == Cut(NoSelection, 0, EntriesOf(0))
             n == Cardinality(required)
  <1>0. n \in Nat /\ Room \in Nat /\ required \in SUBSET Paths /\ Listed \in Nat BY RoomIsNat
  <1>1. 0 \in 0..LastPath /\ LastPath \in Nat BY ArchiveAssumption
  <1>2. /\ NoSelection \in WalkResults /\ NoSelection.found = {} /\ NoSelection.entered = {0}
        /\ NoSelection.unlisted = 0 /\ NoSelection.entries = 0
    BY <1>1 DEF NoSelection, WalkResults
  <1>3. SameButRows(NoSelection, cut) /\ Cardinality(Unlisted(0)) <= cut.unlisted
    <2>1. SameButRows(NoSelection, cut) /\ NoSelection.unlisted + Cardinality(Unlisted(0)) <= cut.unlisted
      BY <1>1, <1>2, CutSays
    <2>3. Cardinality(Unlisted(0)) \in Nat BY PathsAreCounted DEF Unlisted
    <2> HIDE DEF cut
    <2> QED BY <1>2, <2>1, <2>3
  <1>4. Listing = [cut EXCEPT !.listed = n] BY DEF Listing
  <1> HIDE DEF cut, n
  <1>5. /\ Listing \in WalkResults /\ Listing.found = {} /\ Listing.entered = {0}
        /\ Listing.entries = 0 /\ Listing.listed = n /\ Listing.unlisted = cut.unlisted
    BY <1>0, <1>2, <1>3, <1>4 DEF SameButRows, WalkResults
  <1>6. Unsaid(Listing, 0) = Unlisted(0) BY <1>5 DEF Unsaid, Unlisted
  <1>7. Cardinality(Listing.found) = 0 /\ Cardinality(Listing.found \ required) = 0
    <2> QED BY <1>5, PathsAreCounted
  <1> QED BY <1>0, <1>3, <1>5, <1>6, <1>7 DEF Passed, HasRoom, n

(* What a path that is visited leaves unsaid. *)
LEMMA VisitSays ==
    ASSUME Bounded, NEW k \in Nat, NEW p \in Paths, p = k + 1,
           NEW s \in WalkResults, NEW r \in WalkResults,
           s.entered \subseteq 0..k, s.found \subseteq r.found, s.rows \subseteq r.rows
    PROVE  /\ Unsaid(s, k) \in SUBSET Paths /\ Unsaid(r, p) \in SUBSET Paths
           /\ r.entered = s.entered => Unsaid(r, p) \subseteq Unsaid(s, k) \cup {p}
           /\ r.entered = s.entered /\ (p \in r.found \cup r.rows \cup required \/ ~(IsThere(p) /\ Parent[p] \in s.entered /\ IsListed(p)))
                => Unsaid(r, p) \subseteq Unsaid(s, k)
           /\ r.entered = s.entered \cup {p} => Unsaid(r, p) \subseteq Unsaid(s, k) \cup Unlisted(p)
  <1>1. 1..p = 1..k \cup {p} /\ p \in Nat BY DEF Paths
  <1>2. \A q \in 1..k : q \in Paths BY ArchiveAssumption DEF Paths
  <1>3. \A q \in 1..p : q \in Paths BY <1>1, <1>2
  <1>4. \A q \in 1..p : Parent[q] # p
    <2> TAKE q \in 1..p
    <2> QED BY <1>1, <1>3, ArchiveAssumption
  <1>6. r.entered = s.entered => Unsaid(r, p) \subseteq Unsaid(s, k) \cup {p} BY <1>1 DEF Unsaid
  <1>7. r.entered = s.entered /\ (p \in r.found \cup r.rows \cup required \/ ~(IsThere(p) /\ Parent[p] \in s.entered /\ IsListed(p)))
          => Unsaid(r, p) \subseteq Unsaid(s, k)
    BY <1>1 DEF Unsaid
  <1>8. r.entered = s.entered \cup {p} => Unsaid(r, p) \subseteq Unsaid(s, k) \cup Unlisted(p)
    BY <1>1, <1>4 DEF Unsaid, Unlisted
  <1> QED BY <1>2, <1>3, <1>6, <1>7, <1>8 DEF Unsaid

\* The step of a walk to p: what it found and entered before it is left.
Walks(s, r, k, p) ==
    /\ k \in Nat /\ p \in Paths /\ p = k + 1 /\ Passed(s, k)
    /\ r \in WalkResults /\ s.rows \subseteq r.rows

LEMMA RowIsCounted ==
    ASSUME Bounded, NEW s, NEW r, NEW k, NEW p, Walks(s, r, k, p),
           r.found = s.found, r.entered = s.entered, r.listed = s.listed, r.entries >= s.entries,
           \/ r.unlisted = s.unlisted /\ (\/ p \in r.rows \cup required
                                         \/ ~(IsThere(p) /\ Parent[p] \in s.entered /\ IsListed(p)))
           \/ r.unlisted = s.unlisted + 1
    PROVE  Passed(r, p)
  <1>1. k \in Nat /\ p \in Paths /\ p = k + 1 /\ s \in WalkResults /\ r \in WalkResults /\ s.rows \subseteq r.rows
    BY DEF Walks, Passed
  <1>2. s.found \subseteq 1..k /\ s.entered \subseteq 0..k /\ HasRoom(s) /\ Cardinality(Unsaid(s, k)) <= s.unlisted
    BY DEF Walks, Passed
  <1>4. HasRoom(r)
    <2>1. Room \in Nat /\ s.found \in SUBSET Paths /\ s.entries \in Nat /\ r.entries \in Nat
      BY <1>1, RoomIsNat DEF WalkResults
    <2> QED BY <1>2, <2>1, PathsAreCounted DEF HasRoom
  <1>5. /\ Unsaid(s, k) \in SUBSET Paths /\ Unsaid(r, p) \in SUBSET Paths
        /\ Unsaid(r, p) \subseteq Unsaid(s, k) \cup {p}
        /\ (p \in r.rows \cup required \/ ~(IsThere(p) /\ Parent[p] \in s.entered /\ IsListed(p)))
             => Unsaid(r, p) \subseteq Unsaid(s, k)
    BY <1>1, <1>2, VisitSays
  <1>6. Cardinality(Unsaid(s, k)) \in Nat /\ Cardinality(Unsaid(r, p)) \in Nat /\ s.unlisted \in Nat
    BY <1>1, <1>5, PathsAreCounted DEF WalkResults
  <1>7. Cardinality(Unsaid(r, p)) <= r.unlisted
    <2>1. CASE r.unlisted = s.unlisted
      <3>1. Unsaid(r, p) \subseteq Unsaid(s, k) BY <1>1, <1>5, <1>6, <2>1
      <3>2. Cardinality(Unsaid(r, p)) <= Cardinality(Unsaid(s, k)) BY <1>5, <3>1, PathsAreCounted
      <3> QED BY <1>2, <1>6, <2>1, <3>2
    <2>2. CASE r.unlisted = s.unlisted + 1
      <3>1. Unsaid(s, k) \cup {p} \in SUBSET Paths BY <1>1, <1>5
      <3>2. Cardinality(Unsaid(r, p)) <= Cardinality(Unsaid(s, k) \cup {p}) BY <1>5, <3>1, PathsAreCounted
      <3>3. Cardinality(Unsaid(s, k) \cup {p}) <= Cardinality(Unsaid(s, k)) + 1 /\ Cardinality(Unsaid(s, k) \cup {p}) \in Nat
        <4> QED BY <1>6, <1>1, <1>5, PathsAreCounted
      <3> QED BY <1>2, <1>6, <2>2, <3>2, <3>3
    <2> QED BY <2>1, <2>2
  <1> QED BY <1>1, <1>2, <1>4, <1>7 DEF Passed

LEMMA DirectoryIsCounted ==
    ASSUME Bounded, NEW s, NEW r, NEW k, NEW p, Walks(s, r, k, p),
           r.found = s.found, r.entered = s.entered \cup {p}, r.listed = s.listed, r.entries >= s.entries,
           s.unlisted + Cardinality(Unlisted(p)) <= r.unlisted
    PROVE  Passed(r, p)
  <1>1. k \in Nat /\ p \in Paths /\ p = k + 1 /\ s \in WalkResults /\ r \in WalkResults /\ s.rows \subseteq r.rows
    BY DEF Walks, Passed
  <1>2. s.found \subseteq 1..k /\ s.entered \subseteq 0..k /\ HasRoom(s) /\ Cardinality(Unsaid(s, k)) <= s.unlisted
    BY DEF Walks, Passed
  <1>4. HasRoom(r)
    <2>1. Room \in Nat /\ s.found \in SUBSET Paths /\ s.entries \in Nat /\ r.entries \in Nat
      BY <1>1, RoomIsNat DEF WalkResults
    <2> QED BY <1>2, <2>1, PathsAreCounted DEF HasRoom
  <1>5. /\ Unsaid(s, k) \in SUBSET Paths /\ Unsaid(r, p) \in SUBSET Paths
        /\ Unsaid(r, p) \subseteq Unsaid(s, k) \cup Unlisted(p)
    BY <1>1, <1>2, VisitSays
  <1>6. Unlisted(p) \in SUBSET Paths BY DEF Unlisted
  <1>7. /\ Cardinality(Unsaid(s, k)) \in Nat /\ Cardinality(Unsaid(r, p)) \in Nat /\ Cardinality(Unlisted(p)) \in Nat
        /\ s.unlisted \in Nat /\ r.unlisted \in Nat
    BY <1>1, <1>5, <1>6, PathsAreCounted DEF WalkResults
  <1>8. Unsaid(s, k) \cup Unlisted(p) \in SUBSET Paths BY <1>5, <1>6
  <1>9. Cardinality(Unsaid(r, p)) <= Cardinality(Unsaid(s, k) \cup Unlisted(p)) BY <1>5, <1>8, PathsAreCounted
  <1>10. Cardinality(Unsaid(s, k) \cup Unlisted(p)) <= Cardinality(Unsaid(s, k)) + Cardinality(Unlisted(p))
    BY <1>5, <1>6, PathsAreCounted
  <1>11. Cardinality(Unsaid(s, k) \cup Unlisted(p)) \in Nat BY <1>8, PathsAreCounted
  <1>12. Cardinality(Unsaid(r, p)) <= r.unlisted BY <1>2, <1>7, <1>9, <1>10, <1>11
  <1> QED BY <1>1, <1>2, <1>4, <1>12 DEF Passed

LEMMA FileIsCounted ==
    ASSUME Bounded, NEW s, NEW r, NEW k, NEW p, Walks(s, r, k, p),
           r.found = s.found \cup {p}, r.entered = s.entered, r.unlisted = s.unlisted,
           r.entries = s.entries + 1, r.entries <= Room,
           r.listed = s.listed + (IF p \in required THEN 0 ELSE 1), s.listed + 1 <= Listed
    PROVE  Passed(r, p)
  <1>1. k \in Nat /\ p \in Paths /\ p = k + 1 /\ s \in WalkResults /\ r \in WalkResults /\ s.rows \subseteq r.rows
    BY DEF Walks, Passed
  <1>2. s.found \subseteq 1..k /\ s.entered \subseteq 0..k /\ HasRoom(s) /\ Cardinality(Unsaid(s, k)) <= s.unlisted
    BY DEF Walks, Passed
  <1>4. p \notin s.found BY <1>1, <1>2
  <1>5. /\ Room \in Nat /\ s.found \in SUBSET Paths /\ s.entries \in Nat /\ s.listed \in Nat
        /\ required \in SUBSET Paths /\ Cardinality(required) \in Nat /\ Listed \in Nat
    BY <1>1, RoomIsNat DEF WalkResults
  <1>6. s.found \ required \in SUBSET Paths BY <1>5
  <1>7. Cardinality(s.found) \in Nat /\ Cardinality(s.found \ required) \in Nat BY <1>5, <1>6, PathsAreCounted
  <1>9. Cardinality(r.found \ required) = Cardinality(s.found \ required) + (IF p \in required THEN 0 ELSE 1)
    <2>1. CASE p \in required
      <3>1. r.found \ required = s.found \ required BY <2>1
      <3> QED BY <1>7, <2>1, <3>1
    <2>2. CASE p \notin required
      <3> QED BY <1>1, <1>4, <1>6, <2>2, PathsAreCounted
    <2> QED BY <2>1, <2>2
  <1>10. HasRoom(r)
    <2>1. Cardinality(r.found) <= r.entries /\ Cardinality(r.found) <= Room
      BY <1>2, <1>5, <1>7, <1>1, <1>4, PathsAreCounted DEF HasRoom
    <2>3. r.listed <= Listed BY <1>5
    <2> QED BY <2>1, <1>2, <1>5, <1>7, <1>9, <2>3 DEF HasRoom
  <1>11. Unsaid(s, k) \in SUBSET Paths /\ Unsaid(r, p) \in SUBSET Paths /\ Unsaid(r, p) \subseteq Unsaid(s, k)
    BY <1>1, <1>2, VisitSays
  <1>13. Cardinality(Unsaid(s, k)) \in Nat /\ Cardinality(Unsaid(r, p)) \in Nat /\ s.unlisted \in Nat
    BY <1>1, <1>11, PathsAreCounted DEF WalkResults
  <1>14. Cardinality(Unsaid(r, p)) <= r.unlisted BY <1>2, <1>11, PathsAreCounted, <1>13
  <1> QED BY <1>1, <1>2, <1>10, <1>14 DEF Passed

LEMMA VisitPasses ==
    ASSUME Bounded, NEW s, NEW k \in Nat, NEW p \in Paths, p = k + 1, Passed(s, k)
    PROVE  Passed(Visit(s, p), p)
  <1> DEFINE t == [s EXCEPT !.entries = s.entries + 1]
             r == Visit(s, p)
             there == Parent[p] \in s.entered /\ IsThere(p) /\ IsListed(p)
             full == t.entries > Room \/ t.listed + 1 > Listed
  <1>1. s \in WalkResults /\ s.unlisted \in Nat /\ s.entries \in Nat /\ s.listed \in Nat
    BY DEF Passed, WalkResults
  <1>2. /\ t \in WalkResults /\ t.found = s.found /\ t.entered = s.entered /\ t.rows = s.rows
        /\ t.unlisted = s.unlisted /\ t.entries = s.entries + 1 /\ t.listed = s.listed
    BY <1>1 DEF WalkResults
  <1>3. p \in 0..LastPath BY ArchiveAssumption DEF Paths
  <1> HIDE DEF t
  <1>4. CASE ~there
    <2>3. Passed(s, p) BY <1>1, <1>4, RowIsCounted DEF Walks
    <2> QED BY <1>4, <2>3 DEF Visit
  <1>5. ASSUME r = AddRow(t, p)
        PROVE  Passed(r, p)
    <2>1. SameButRows(t, r) /\ ((p \in r.rows /\ r.unlisted = t.unlisted) \/ r.unlisted = t.unlisted + 1)
      BY <1>2, <1>3, <1>5, AddRowSays
    <2> HIDE DEF r
    <2>2. /\ r \in WalkResults /\ s.rows \subseteq r.rows /\ r.found = s.found /\ r.entered = s.entered
          /\ r.listed = s.listed /\ r.entries >= s.entries
      BY <1>1, <1>2, <2>1 DEF SameButRows
    <2> QED BY <1>2, <2>1, <2>2, RowIsCounted DEF Walks
  <1>6. CASE there /\ full
    <2>1. r = OverLimit(t, p) BY <1>6 DEF Visit, t
    <2>2. CASE p \in required
      <3>3. Passed(t, p) BY <1>1, <1>2, <2>2, RowIsCounted DEF Walks
      <3> QED BY <2>1, <2>2, <3>3 DEF OverLimit
    <2>3. CASE p \notin required
      <3> QED BY <1>5, <2>1, <2>3 DEF OverLimit
    <2> QED BY <2>2, <2>3
  <1>7. CASE there /\ ~full /\ tree[p].kind = "directory"
    <2> DEFINE e == [t EXCEPT !.entered = t.entered \cup {p}]
    <2>1. r = Cut(e, p, EntriesOf(p)) BY <1>7 DEF Visit, t
    <2>2. /\ e \in WalkResults /\ e.found = t.found /\ e.entered = t.entered \cup {p} /\ e.rows = t.rows
          /\ e.unlisted = t.unlisted /\ e.entries = t.entries /\ e.listed = t.listed
      BY <1>2, <1>3 DEF WalkResults
    <2> HIDE DEF e
    <2>3. SameButRows(e, r) /\ e.unlisted + Cardinality(Unlisted(p)) <= r.unlisted
      BY <1>3, <2>1, <2>2, CutSays
    <2> HIDE DEF r
    <2>4. /\ r \in WalkResults /\ s.rows \subseteq r.rows /\ r.found = s.found /\ r.entered = s.entered \cup {p}
          /\ r.listed = s.listed /\ r.entries >= s.entries /\ s.unlisted + Cardinality(Unlisted(p)) <= r.unlisted
      BY <1>1, <1>2, <2>2, <2>3 DEF SameButRows
    <2>6. Passed(r, p) BY <2>4, DirectoryIsCounted DEF Walks
    <2> QED BY <2>6 DEF r
  <1>8. CASE there /\ ~full /\ tree[p].kind = "file"
    <2> DEFINE cost == IF p \in required THEN 0 ELSE 1
    <2>1. r = [t EXCEPT !.found = t.found \cup {p}, !.listed = t.listed + cost] BY <1>8 DEF Visit, t
    <2>2. t.found \cup {p} \in SUBSET Paths /\ t.listed + cost \in Nat BY <1>1, <1>2 DEF WalkResults
    <2>3. /\ r \in WalkResults /\ r.found = t.found \cup {p} /\ r.entered = t.entered /\ r.rows = t.rows
          /\ r.unlisted = t.unlisted /\ r.entries = t.entries /\ r.listed = t.listed + cost
      <3> HIDE DEF cost, r
      <3> QED BY <1>2, <2>1, <2>2 DEF WalkResults
    <2>5. t.entries <= Room /\ t.listed + 1 <= Listed BY <1>1, <1>2, <1>8, RoomIsNat
    <2> HIDE DEF r
    <2>7. Passed(r, p)
      <3>1. r.listed = s.listed + (IF p \in required THEN 0 ELSE 1) BY <1>2, <2>3
      <3>2. r.entries = s.entries + 1 /\ r.entries <= Room /\ s.listed + 1 <= Listed BY <1>2, <2>3, <2>5
      <3> QED BY <1>2, <2>3, <1>1, <3>1, <3>2, FileIsCounted DEF Walks
    <2> QED BY <2>7 DEF r
  <1>9. CASE there /\ ~full /\ tree[p].kind \notin {"directory", "file"}
    <2> QED BY <1>5, <1>9 DEF Visit, t
  <1> QED BY <1>4, <1>6, <1>7, <1>8, <1>9

\* A walk, by how far it came.
IsWalk(f, m) == f = [p \in 0..m |-> IF p = 0 THEN Listing ELSE Visit(f[p - 1], p)]

LEMMA WalkExists ==
    ASSUME NEW m \in Nat
    PROVE  \E f : IsWalk(f, m)
  <1> DEFINE bad == {k \in Nat : ~\E f : IsWalk(f, k)}
  <1> SUFFICES ASSUME bad # {} PROVE FALSE OBVIOUS
  <1>1. PICK k : k = Least(bad) OBVIOUS
  <1>2. k \in Nat /\ (~\E f : IsWalk(f, k)) /\ \A j \in Nat : j < k => \E f : IsWalk(f, j)
    <2>1. bad \in SUBSET Nat OBVIOUS
    <2>2. k \in bad /\ \A j \in bad : k <= j
      <3> HIDE DEF bad
      <3> QED BY <1>1, <2>1, LeastIsThere
    <2> QED BY <2>2
  <1>3. CASE k = 0
    <2>1. IsWalk([p \in 0..0 |-> Listing], 0) BY DEF IsWalk
    <2> QED BY <1>2, <1>3, <2>1
  <1>4. CASE k > 0
    <2>2. PICK f : IsWalk(f, k - 1) BY <1>2, <1>4
    <2> DEFINE g == [p \in 0..k |-> IF p < k THEN f[p] ELSE Visit(f[k - 1], k)]
    <2>3. \A p \in 0..(k - 1) : f[p] = IF p = 0 THEN Listing ELSE Visit(f[p - 1], p) BY <2>2 DEF IsWalk
    <2>4. \A p \in 0..k : g[p] = IF p = 0 THEN Listing ELSE Visit(g[p - 1], p)
      <3> TAKE p \in 0..k
      <3>1. CASE p = 0
        <4> QED BY <3>1, <1>2, <1>4, <2>3
      <3>2. CASE p # 0 /\ p < k
        <4>1. p \in 0..(k - 1) /\ p - 1 \in 0..k /\ p - 1 < k BY <1>2, <3>2
        <4>2. g[p] = f[p] /\ g[p - 1] = f[p - 1] BY <3>2, <4>1
        <4>3. f[p] = Visit(f[p - 1], p) BY <2>3, <3>2, <4>1
        <4> HIDE DEF g
        <4> QED BY <3>2, <4>2, <4>3
      <3>3. CASE p = k
        <4>2. g[p] = Visit(f[k - 1], k) /\ g[k - 1] = f[k - 1] BY <1>2, <3>3, <1>4
        <4> HIDE DEF g
        <4> QED BY <1>4, <3>3, <4>2
      <3> QED BY <1>2, <3>1, <3>2, <3>3
    <2>5. g = [p \in 0..k |-> g[p]] OBVIOUS
    <2>6. IsWalk(g, k)
      <3> HIDE DEF g
      <3> QED BY <2>4, <2>5 DEF IsWalk
    <2> QED BY <1>2, <2>6
  <1> QED BY <1>2, <1>3, <1>4

LEMMA WalkPasses ==
    ASSUME Bounded
    PROVE  Passed(WalkTo[LastPath], LastPath)
  <1>0. LastPath \in Nat BY ArchiveAssumption
  <1>2. IsWalk(WalkTo, LastPath) BY <1>0, WalkExists DEF WalkTo, IsWalk
  <1>3. \A p \in 0..LastPath : WalkTo[p] = IF p = 0 THEN Listing ELSE Visit(WalkTo[p - 1], p)
    <2> DEFINE w == WalkTo
    <2>1. IsWalk(w, LastPath) BY <1>2
    <2> HIDE DEF w
    <2>2. \A p \in 0..LastPath : w[p] = IF p = 0 THEN Listing ELSE Visit(w[p - 1], p) BY <2>1 DEF IsWalk
    <2> QED BY <2>2 DEF w
  <1> DEFINE bad == {p \in 0..LastPath : ~Passed(WalkTo[p], p)}
  <1>4. ASSUME bad # {} PROVE FALSE
    <2>1. PICK p : p = Least(bad) OBVIOUS
    <2>2. bad \in SUBSET Nat BY <1>0
    <2>3. p \in bad /\ \A q \in bad : p <= q
      <3> HIDE DEF bad
      <3> QED BY <1>4, <2>1, <2>2, LeastIsThere
    <2>4. p \in 0..LastPath /\ ~Passed(WalkTo[p], p) BY <2>3
    <2>5. CASE p = 0 BY <1>3, <2>4, <2>5, ListingPasses
    <2>6. CASE p # 0
      <3>1. p - 1 \in 0..LastPath /\ p - 1 \in Nat /\ p \in Paths /\ p = (p - 1) + 1 /\ ~(p <= p - 1)
        BY <1>0, <2>4, <2>6 DEF Paths
      <3>3. Passed(Visit(WalkTo[p - 1], p), p) BY <3>1, <2>3, VisitPasses
      <3> QED BY <1>3, <2>4, <2>6, <3>3
    <2> QED BY <2>5, <2>6
  <1> QED BY <1>4, <1>0

\* What a walk reached, does not name and did not find.
Silent(s, t) == {p \in Paths : /\ t[p].kind # "none" /\ Parent[p] \in s.entered
                               /\ p \notin s.found \cup s.rows \cup s.entered}
IsWhole(s, t) ==
    /\ Cardinality(s.found) <= most /\ (Cardinality(s.found) <= Listed \/ s.found = required)
    /\ Cardinality(Silent(s, t)) <= s.unlisted

(* Whatever the tree, a walk that has what is required keeps to its room
   and says what it left out. *)
LEMMA WalkedIsWhole ==
    ASSUME Bounded
    PROVE  Walked \in WalkResults /\ (required \subseteq Walked.found => IsWhole(Walked, tree))
  <1> DEFINE s == WalkTo[LastPath]
             more == {p \in required : CanOpen(p)}
             w == [s EXCEPT !.found = s.found \cup more]
  <1>1. Walked = w BY DEF Walked, WithRequired
  <1>2. Passed(s, LastPath) BY WalkPasses
  <1> HIDE DEF s
  <1>3. /\ s \in WalkResults /\ HasRoom(s) /\ Cardinality(Unsaid(s, LastPath)) <= s.unlisted
        /\ s.found \in SUBSET Paths /\ s.listed \in Nat /\ s.entries \in Nat /\ s.unlisted \in Nat
    BY <1>2 DEF Passed, WalkResults
  <1>4. Room \in Nat /\ required \in SUBSET Paths /\ Cardinality(required) \in Nat /\ Listed \in Nat BY RoomIsNat
  <1>5. more \in SUBSET required /\ more \in SUBSET Paths BY <1>4
  <1> HIDE DEF more
  <1>6. /\ w \in WalkResults /\ w.found = s.found \cup more /\ w.rows = s.rows /\ w.entered = s.entered
        /\ w.unlisted = s.unlisted
    BY <1>3, <1>5 DEF WalkResults
  <1> HIDE DEF w
  <1>7. ASSUME required \subseteq w.found PROVE IsWhole(w, tree)
    <2>1. /\ Cardinality(s.found) \in Nat /\ Cardinality(more) \in Nat /\ Cardinality(w.found) \in Nat
          /\ s.found \ required \in SUBSET Paths /\ w.found \in SUBSET Paths
          /\ Cardinality(s.found \ required) \in Nat
      <3> QED BY <1>3, <1>5, <1>6, PathsAreCounted
    <2>2. Cardinality(w.found) <= most
      <3>1. Cardinality(w.found) <= Cardinality(s.found) + Cardinality(more) BY <1>3, <1>5, <1>6, PathsAreCounted
      <3>2. Cardinality(more) <= Cardinality(required) BY <1>4, <1>5, PathsAreCounted
      <3>3. most \in Nat BY ArchiveAssumption DEF Bounded
      <3>4. Cardinality(s.found) <= Room BY <1>3 DEF HasRoom
      <3> QED BY <1>4, <2>1, <3>1, <3>2, <3>3, <3>4 DEF Room
    <2>3. Cardinality(w.found) <= Listed \/ w.found = required
      <3>1. CASE s.found = {} BY <1>5, <1>6, <1>7, <3>1
      <3>2. CASE s.listed <= Listed
        <4>1. w.found = required \cup (s.found \ required) BY <1>5, <1>6, <1>7
        <4>2. Cardinality(w.found) <= Cardinality(required) + Cardinality(s.found \ required)
          BY <1>4, <2>1, <4>1, PathsAreCounted
        <4> QED BY <1>3, <1>4, <2>1, <3>2, <4>2 DEF HasRoom
      <3> QED BY <1>3, <3>1, <3>2 DEF HasRoom
    <2>4. Silent(w, tree) \subseteq Unsaid(s, LastPath)
      <3>2. \A p \in Silent(w, tree) : Parent[p] \in s.entered /\ p \notin s.found \cup s.rows \cup s.entered \cup required
        BY <1>6, <1>7 DEF Silent
      <3> QED BY <3>2 DEF Unsaid, Silent, Paths, IsThere
    <2>5. Unsaid(s, LastPath) \in SUBSET Paths BY DEF Unsaid, Paths
    <2>6. Silent(w, tree) \in SUBSET Paths BY DEF Silent
    <2>7. Cardinality(Silent(w, tree)) <= Cardinality(Unsaid(s, LastPath)) BY <2>4, <2>5, <2>6, PathsAreCounted
    <2>8. Cardinality(Silent(w, tree)) \in Nat /\ Cardinality(Unsaid(s, LastPath)) \in Nat
      BY <2>5, <2>6, PathsAreCounted
    <2>9. Cardinality(Silent(w, tree)) <= w.unlisted BY <1>3, <1>6, <2>7, <2>8
    <2> QED BY <2>2, <2>3, <2>9 DEF IsWhole
  <1> QED BY <1>1, <1>6, <1>7

------------
(* A bundle while it is packed. *)
PackingPlaces == {"select", "open", "append", "hash", "packed", "failed"}
ReadVersions == UNION {[files -> Nat] : files \in SUBSET Paths}
Packings == [at : PackingPlaces, left : SUBSET Paths, read : ReadVersions, changes : Nat]

ArchiveTypeOK ==
    /\ Bounded /\ packing \in Packings /\ selected \in WalkResults
    /\ packing.at \in {"hash", "packed"} => moment \in Snapshots

\* Every change of the tree has a number of its own, and what was read is not newer than the tree.
TreeMovesOn ==
    /\ \A p \in Paths : tree[p].version <= packing.changes
    /\ \A p \in DOMAIN packing.read : packing.read[p] <= tree[p].version
\* The files that are not left have been read, ...
ReadSoFar ==
    /\ packing.at \in {"open", "append", "hash", "packed"} => required \subseteq selected.found
    /\ packing.at \in {"open", "append"} => selected.found \ packing.left \subseteq DOMAIN packing.read
    /\ packing.at = "append" => packing.left # {} /\ NextFile \in DOMAIN packing.read
    /\ packing.at \in {"hash", "packed"} => selected.found \subseteq DOMAIN packing.read
\* ... before the moment, which the walk describes, ...
MomentFollows ==
    packing.at \in {"hash", "packed"} =>
        /\ IsWhole(selected, moment)
        /\ \A p \in Paths : /\ moment[p].version <= tree[p].version
                            /\ moment[p].version = tree[p].version => moment[p].kind = tree[p].kind
        /\ \A p \in DOMAIN packing.read : packing.read[p] <= moment[p].version
\* ... and those read again were the same then.
AsRead(p) == moment[p].kind = "file" /\ moment[p].version = packing.read[p]
HashedSoFar ==
    /\ packing.at = "hash" => \A p \in selected.found \ packing.left : AsRead(p)
    /\ packing.at = "packed" => \A p \in selected.found : AsRead(p)

ArchiveInv == ArchiveTypeOK /\ TreeMovesOn /\ ReadSoFar /\ MomentFollows /\ HashedSoFar

IsPacking(d, at, left, read, n) ==
    d \in Packings /\ d.at = at /\ d.left = left /\ d.read = read /\ d.changes = n
PacksOn(d, c, at) == d = [c EXCEPT !.at = at]
MovesWith(d, c, at, left) == d = [c EXCEPT !.at = at, !.left = left]
MovesReading(d, c, at, read) == d = [c EXCEPT !.at = at, !.read = read]
Leaves(d, c, left) == d = [c EXCEPT !.left = left]
Counts(d, c, n) == d = [c EXCEPT !.changes = n]
LEMMA PackingChanges ==
    ASSUME NEW c \in Packings, NEW d, NEW at \in PackingPlaces, NEW left \in SUBSET Paths,
           NEW read \in ReadVersions, NEW n \in Nat
    PROVE  /\ PacksOn(d, c, at) => IsPacking(d, at, c.left, c.read, c.changes)
           /\ MovesWith(d, c, at, left) => IsPacking(d, at, left, c.read, c.changes)
           /\ MovesReading(d, c, at, read) => IsPacking(d, at, c.left, read, c.changes)
           /\ Leaves(d, c, left) => IsPacking(d, c.at, left, c.read, c.changes)
           /\ Counts(d, c, n) => IsPacking(d, c.at, c.left, c.read, n)
  <1>1. ASSUME PacksOn(d, c, at) PROVE IsPacking(d, at, c.left, c.read, c.changes)
    BY <1>1 DEF PacksOn, IsPacking, Packings
  <1>2. ASSUME MovesWith(d, c, at, left) PROVE IsPacking(d, at, left, c.read, c.changes)
    BY <1>2 DEF MovesWith, IsPacking, Packings
  <1>3. ASSUME MovesReading(d, c, at, read) PROVE IsPacking(d, at, c.left, read, c.changes)
    BY <1>3 DEF MovesReading, IsPacking, Packings
  <1>4. ASSUME Leaves(d, c, left) PROVE IsPacking(d, c.at, left, c.read, c.changes)
    BY <1>4 DEF Leaves, IsPacking, Packings
  <1>5. ASSUME Counts(d, c, n) PROVE IsPacking(d, c.at, c.left, c.read, n)
    BY <1>5 DEF Counts, IsPacking, Packings
  <1> QED BY <1>1, <1>2, <1>3, <1>4, <1>5

(* There is always a value of each kind. *)
LEMMA PackingHas ==
    ASSUME NEW c \in Packings
    PROVE  c.at \in PackingPlaces /\ c.left \in SUBSET Paths /\ c.read \in ReadVersions /\ c.changes \in Nat
  BY DEF Packings

LEMMA NextFileIsLeft ==
    ASSUME packing \in Packings, packing.left # {}
    PROVE  NextFile \in packing.left /\ NextFile \in Paths
  <1>1. packing.left \in SUBSET Paths /\ packing.left \in SUBSET Nat BY DEF Packings, Paths
  <1>3. NextFile = Least(packing.left) BY DEF NextFile, Least
  <1> QED BY <1>1, LeastIsThere, <1>3

(* What was read of a path is a version. *)
LEMMA ReadType ==
    ASSUME packing \in Packings
    PROVE  /\ DOMAIN packing.read \subseteq Paths
           /\ \A p \in DOMAIN packing.read : packing.read[p] \in Nat
  <1>1. PICK files \in SUBSET Paths : packing.read \in [files -> Nat] BY DEF Packings, ReadVersions
  <1> QED BY <1>1

LEMMA ArchiveBegins == ArchiveInit => ArchiveInv
  <1> SUFFICES ASSUME ArchiveInit PROVE ArchiveInv OBVIOUS
  <1>1. PICK kind \in Trees : tree = [p \in Paths |-> [kind |-> kind[p], version |-> 0]] BY DEF ArchiveInit
  <1>3. tree \in Snapshots /\ \A p \in Paths : tree[p].version = 0
    BY <1>1, ArchiveAssumption DEF Snapshots, PathKinds
  <1>4. Bounded BY <1>3 DEF ArchiveInit, Bounded
  <1>5. << >> \in ReadVersions /\ DOMAIN << >> = {}
    <2> QED BY DEF ReadVersions
  <1>6. /\ packing \in Packings /\ packing.at = "select" /\ packing.read = << >> /\ packing.changes = 0
    BY <1>5 DEF ArchiveInit, Packings, PackingPlaces
  <1>7. selected \in WalkResults
    <2> QED BY ArchiveAssumption DEF ArchiveInit, NoSelection, WalkResults
  <1> QED BY <1>3, <1>4, <1>5, <1>6, <1>7
          DEF ArchiveInv, ArchiveTypeOK, TreeMovesOn, ReadSoFar, MomentFollows, HashedSoFar

(* A step that refuses the bundle. *)
LEMMA RefuseKeeps ==
    ASSUME ArchiveInv, Refuse, UNCHANGED <<tree, required, most>>, selected' \in WalkResults
    PROVE  ArchiveInv'
  <1>1. "failed" \in PackingPlaces /\ packing \in Packings BY DEF PackingPlaces, ArchiveInv, ArchiveTypeOK
  <1>2. /\ packing' \in Packings /\ packing'.at = "failed" /\ packing'.read = packing.read
        /\ packing'.changes = packing.changes
    <2>2. IsPacking(packing', "failed", packing.left, packing.read, packing.changes)
      BY <1>1, PackingHas, PackingChanges DEF PacksOn, Refuse
    <2> QED BY <1>1, <2>2 DEF IsPacking
  <1> QED BY <1>2 DEF ArchiveInv, ArchiveTypeOK, Bounded, TreeMovesOn, ReadSoFar, MomentFollows, HashedSoFar

LEMMA SelectKeeps ==
    ASSUME ArchiveInv, Select
    PROVE  ArchiveInv'
  <1>0. ArchiveTypeOK /\ TreeMovesOn /\ Bounded /\ packing \in Packings BY DEF ArchiveInv, ArchiveTypeOK
  <1>1. Walked \in WalkResults BY <1>0, WalkedIsWhole
  <1>2. selected' = Walked /\ UNCHANGED <<tree, required, most>> BY DEF Select
  <1>3. CASE ~(required \subseteq Walked.found)
    BY <1>1, <1>2, <1>3, RefuseKeeps DEF Select, Refuse
  <1>4. CASE required \subseteq Walked.found
    <2>1. packing' = [packing EXCEPT !.at = "open", !.left = Walked.found] BY <1>4 DEF Select
    <2>2. "open" \in PackingPlaces /\ Walked.found \in SUBSET Paths BY <1>1 DEF PackingPlaces, WalkResults
    <2>3. /\ packing' \in Packings /\ packing'.at = "open" /\ packing'.left = Walked.found
          /\ packing'.read = packing.read /\ packing'.changes = packing.changes
      <3>2. IsPacking(packing', "open", Walked.found, packing.read, packing.changes)
        BY <1>0, <2>1, <2>2, PackingHas, PackingChanges DEF MovesWith
      <3> QED BY <1>0, <2>1, <2>2, <3>2 DEF IsPacking
    <2>4. ArchiveTypeOK' BY <1>0, <1>1, <1>2, <2>3 DEF ArchiveTypeOK, Bounded
    <2>5. TreeMovesOn' BY <1>0, <1>2, <2>3 DEF TreeMovesOn
    <2>6. ReadSoFar' BY <1>2, <1>4, <2>3 DEF ReadSoFar
    <2> QED BY <2>3, <2>4, <2>5, <2>6 DEF ArchiveInv, MomentFollows, HashedSoFar
  <1> QED BY <1>3, <1>4

LEMMA OpenFileKeeps ==
    ASSUME ArchiveInv, OpenFile
    PROVE  ArchiveInv'
  <1>0. ArchiveTypeOK /\ TreeMovesOn /\ ReadSoFar /\ Bounded /\ packing \in Packings /\ tree \in Snapshots
    BY DEF ArchiveInv, ArchiveTypeOK, Bounded
  <1>1. packing.at = "open" /\ packing.left # {} /\ UNCHANGED <<tree, required, most, selected, moment>> BY DEF OpenFile
  <1> DEFINE p == NextFile
             read == [q \in DOMAIN packing.read \cup {p} |-> IF q = p THEN tree[p].version ELSE packing.read[q]]
  <1>2. p \in packing.left /\ p \in Paths BY <1>0, <1>1, NextFileIsLeft
  <1>3. CASE Refuse BY <1>0, <1>1, <1>3, RefuseKeeps DEF ArchiveTypeOK
  <1>4. CASE packing' = [packing EXCEPT !.at = "append", !.read = read]
    <2>1. DOMAIN packing.read \subseteq Paths /\ \A q \in DOMAIN packing.read : packing.read[q] \in Nat
      BY <1>0, ReadType
    <2>2. tree[p].version \in Nat BY <1>0, <1>2 DEF Snapshots
    <2>3. DOMAIN read = DOMAIN packing.read \cup {p} /\ read \in ReadVersions
      <3>2. read \in [DOMAIN packing.read \cup {p} -> Nat] BY <2>1, <2>2
      <3> HIDE DEF p
      <3> QED BY <1>2, <2>1, <3>2 DEF ReadVersions
    <2>4. \A q \in DOMAIN packing.read \cup {p} : read[q] <= tree[q].version
      BY <1>0, <2>2 DEF TreeMovesOn
    <2> HIDE DEF read
    <2>5. "append" \in PackingPlaces BY DEF PackingPlaces
    <2>6. /\ packing' \in Packings /\ packing'.at = "append" /\ packing'.left = packing.left
          /\ packing'.read = read /\ packing'.changes = packing.changes
      <3>2. IsPacking(packing', "append", packing.left, read, packing.changes)
        BY <1>0, <1>4, <2>3, <2>5, PackingHas, PackingChanges DEF MovesReading
      <3> QED BY <1>0, <1>4, <2>3, <2>5, <3>2 DEF IsPacking
    <2>7. ArchiveTypeOK' BY <1>0, <1>1, <2>6 DEF ArchiveTypeOK, Bounded
    <2>8. TreeMovesOn' BY <1>0, <1>1, <2>3, <2>4, <2>6 DEF TreeMovesOn
    <2>10. ReadSoFar' BY <1>0, <1>1, <2>3, <2>6 DEF ReadSoFar, NextFile
    <2> QED BY <2>6, <2>7, <2>8, <2>10 DEF ArchiveInv, MomentFollows, HashedSoFar
  <1> QED BY <1>3, <1>4 DEF OpenFile

LEMMA AppendFileKeeps ==
    ASSUME ArchiveInv, AppendFile
    PROVE  ArchiveInv'
  <1>0. ArchiveTypeOK /\ TreeMovesOn /\ ReadSoFar /\ Bounded /\ packing \in Packings
    BY DEF ArchiveInv, ArchiveTypeOK
  <1>1. packing.at = "append" /\ UNCHANGED <<tree, required, most, selected, moment>> BY DEF AppendFile
  <1> DEFINE left == packing.left \ {NextFile}
  <1>2. CASE Refuse BY <1>0, <1>1, <1>2, RefuseKeeps DEF ArchiveTypeOK
  <1>3. CASE packing' = [packing EXCEPT !.at = "open", !.left = left]
    <2>1. "open" \in PackingPlaces /\ left \in SUBSET Paths BY <1>0 DEF PackingPlaces, Packings
    <2>2. selected.found \ left \subseteq DOMAIN packing.read BY <1>0, <1>1 DEF ReadSoFar
    <2> HIDE DEF left
    <2>3. /\ packing' \in Packings /\ packing'.at = "open" /\ packing'.left = left
          /\ packing'.read = packing.read /\ packing'.changes = packing.changes
      <3>2. IsPacking(packing', "open", left, packing.read, packing.changes)
        BY <1>0, <1>3, <2>1, PackingHas, PackingChanges DEF MovesWith
      <3> QED BY <1>0, <1>3, <2>1, <3>2 DEF IsPacking
    <2>4. ArchiveTypeOK' BY <1>0, <1>1, <2>3 DEF ArchiveTypeOK, Bounded
    <2>5. TreeMovesOn' BY <1>0, <1>1, <2>3 DEF TreeMovesOn
    <2>6. ReadSoFar' BY <1>0, <1>1, <2>2, <2>3 DEF ReadSoFar
    <2> QED BY <2>3, <2>4, <2>5, <2>6 DEF ArchiveInv, MomentFollows, HashedSoFar
  <1> QED BY <1>2, <1>3 DEF AppendFile

LEMMA WalkAgainKeeps ==
    ASSUME ArchiveInv, WalkAgain
    PROVE  ArchiveInv'
  <1>0. ArchiveTypeOK /\ TreeMovesOn /\ ReadSoFar /\ Bounded /\ packing \in Packings /\ tree \in Snapshots
    BY DEF ArchiveInv, ArchiveTypeOK, Bounded
  <1>1. /\ packing.at = "open" /\ packing.left = {} /\ moment' = tree
        /\ UNCHANGED <<tree, required, most, selected>>
    BY DEF WalkAgain
  <1>2. CASE Refuse BY <1>0, <1>1, <1>2, RefuseKeeps DEF ArchiveTypeOK
  <1>3. CASE Walked = selected /\ packing' = [packing EXCEPT !.at = "hash", !.left = selected.found]
    <2>1. "hash" \in PackingPlaces /\ selected.found \in SUBSET Paths
      BY <1>0 DEF PackingPlaces, ArchiveTypeOK, WalkResults
    <2>2. /\ packing' \in Packings /\ packing'.at = "hash" /\ packing'.left = selected.found
          /\ packing'.read = packing.read /\ packing'.changes = packing.changes
      <3>2. IsPacking(packing', "hash", selected.found, packing.read, packing.changes)
        BY <1>0, <1>3, <2>1, PackingHas, PackingChanges DEF MovesWith
      <3> QED BY <1>0, <1>3, <2>1, <3>2 DEF IsPacking
    <2>3. required \subseteq selected.found /\ selected.found \subseteq DOMAIN packing.read
      BY <1>0, <1>1 DEF ReadSoFar
    <2>5. (IsWhole(selected, moment))' BY <1>1, <1>0, <1>3, <2>3, WalkedIsWhole DEF IsWhole, Silent
    <2>6. ArchiveTypeOK' BY <1>0, <1>1, <2>2 DEF ArchiveTypeOK, Bounded
    <2>7. TreeMovesOn' BY <1>0, <1>1, <2>2 DEF TreeMovesOn
    <2>8. ReadSoFar' BY <1>1, <2>2, <2>3 DEF ReadSoFar
    <2>10. MomentFollows'
      <3>1. \A p \in Paths : moment'[p].version <= tree'[p].version /\ moment'[p].kind = tree'[p].kind
        BY <1>1, <1>0 DEF Snapshots
      <3> QED BY <2>5, <3>1, <1>0, <1>1, <2>2 DEF MomentFollows, TreeMovesOn
    <2>11. HashedSoFar' BY <1>1, <2>2 DEF HashedSoFar
    <2> QED BY <2>6, <2>7, <2>8, <2>10, <2>11 DEF ArchiveInv
  <1> QED BY <1>2, <1>3 DEF WalkAgain

LEMMA HashAgainKeeps ==
    ASSUME ArchiveInv, HashAgain
    PROVE  ArchiveInv'
  <1>0. /\ ArchiveTypeOK /\ TreeMovesOn /\ ReadSoFar /\ MomentFollows /\ HashedSoFar /\ Bounded
        /\ packing \in Packings /\ tree \in Snapshots
    BY DEF ArchiveInv, ArchiveTypeOK, Bounded
  <1>1. packing.at = "hash" /\ UNCHANGED <<tree, required, most, selected, moment>> BY DEF HashAgain
  <1>2. moment \in Snapshots BY <1>0, <1>1 DEF ArchiveTypeOK
  <1>3. CASE packing.left # {} /\ Refuse BY <1>0, <1>1, <1>3, RefuseKeeps DEF ArchiveTypeOK
  <1>4. ASSUME packing' \in Packings, packing'.at \in {"hash", "packed"}, packing'.read = packing.read,
               packing'.changes = packing.changes, HashedSoFar'
        PROVE  ArchiveInv'
    <2>1. ArchiveTypeOK' BY <1>0, <1>1, <1>2, <1>4 DEF ArchiveTypeOK, Bounded
    <2>2. TreeMovesOn' BY <1>0, <1>1, <1>4 DEF TreeMovesOn
    <2>3. ReadSoFar' BY <1>0, <1>1, <1>4 DEF ReadSoFar
    <2>4. MomentFollows' BY <1>0, <1>1, <1>4 DEF MomentFollows, IsWhole, Silent
    <2> QED BY <1>4, <2>1, <2>2, <2>3, <2>4 DEF ArchiveInv
  <1>5. CASE packing.left = {}
    <2>1. packing' = [packing EXCEPT !.at = "packed"] BY <1>5 DEF HashAgain
    <2>2. "packed" \in PackingPlaces BY DEF PackingPlaces
    <2>3. /\ packing' \in Packings /\ packing'.at = "packed" /\ packing'.read = packing.read
          /\ packing'.changes = packing.changes
      <3>2. IsPacking(packing', "packed", packing.left, packing.read, packing.changes)
        BY <1>0, <2>1, <2>2, PackingHas, PackingChanges DEF PacksOn
      <3> QED BY <1>0, <2>1, <2>2, <3>2 DEF IsPacking
    <2> QED BY <1>4, <2>3, <1>0, <1>1, <1>5 DEF HashedSoFar, AsRead
  <1>6. CASE packing.left # {} /\ SameAgain(NextFile) /\ packing' = [packing EXCEPT !.left = packing.left \ {NextFile}]
    <2> PICK p \in Paths : p = NextFile /\ p \in packing.left BY <1>0, <1>6, NextFileIsLeft
    <2> DEFINE left == packing.left \ {p}
    <2>1. left \in SUBSET Paths BY <1>0 DEF Packings
    <2>2. packing' = [packing EXCEPT !.left = left] BY <1>6
    <2> HIDE DEF left
    <2>3. /\ packing' \in Packings /\ packing'.at = "hash" /\ packing'.left = left
          /\ packing'.read = packing.read /\ packing'.changes = packing.changes
      <3>2. IsPacking(packing', packing.at, left, packing.read, packing.changes)
        BY <1>0, <1>1, <2>1, <2>2, PackingHas, PackingChanges DEF Leaves
      <3> QED BY <1>0, <1>1, <2>1, <2>2, <3>2 DEF IsPacking
    <2>4. ASSUME p \in selected.found PROVE AsRead(p)
      <3>2. packing.read[p] <= moment[p].version /\ moment[p].version <= tree[p].version
        BY <1>0, <1>1, <2>4 DEF MomentFollows, ReadSoFar
      <3>3. tree[p].version = packing.read[p] /\ tree[p].kind = "file" BY <1>6 DEF SameAgain, CanOpen
      <3>4. moment[p].version \in Nat /\ tree[p].version \in Nat BY <1>0, <1>2 DEF Snapshots
      <3>5. moment[p].version = tree[p].version BY <3>2, <3>3, <3>4
      <3> QED BY <3>3, <3>5, <1>0, <1>1 DEF AsRead, MomentFollows
    <2>6. HashedSoFar' BY <1>1, <2>3, <1>0, <2>4 DEF HashedSoFar, AsRead, left
    <2> QED BY <1>4, <2>3, <2>6
  <1> QED BY <1>3, <1>5, <1>6 DEF HashAgain

LEMMA ChangeTreeKeeps ==
    ASSUME ArchiveInv, NEW p \in Paths, ChangeTree(p)
    PROVE  ArchiveInv'
  <1>0. /\ ArchiveTypeOK /\ TreeMovesOn /\ ReadSoFar /\ MomentFollows /\ HashedSoFar /\ Bounded
        /\ packing \in Packings /\ tree \in Snapshots
    BY DEF ArchiveInv, ArchiveTypeOK, Bounded
  <1>1. packing.at # "packed" /\ UNCHANGED <<required, most, selected, moment>> BY DEF ChangeTree
  <1> DEFINE n == packing.changes + 1
  <1>2. PICK kind \in {"none", "file"} : tree' = [tree EXCEPT ![p] = [kind |-> kind, version |-> n]] BY DEF ChangeTree
  <1>3. packing.changes \in Nat /\ n \in Nat /\ n > packing.changes BY <1>0 DEF Packings
  <1> HIDE DEF n
  <1>4. packing' = [packing EXCEPT !.changes = n] BY DEF ChangeTree, n
  <1>5. /\ packing' \in Packings /\ packing'.at = packing.at /\ packing'.left = packing.left
        /\ packing'.read = packing.read /\ packing'.changes = n
    <2>1. "failed" \in PackingPlaces /\ {} \in SUBSET Paths /\ packing.read \in ReadVersions
      BY <1>0 DEF PackingPlaces, Packings
    <2>3. IsPacking(packing', packing.at, packing.left, packing.read, n)
      BY <1>0, <1>3, <1>4, <2>1, PackingHas, PackingChanges DEF Counts
    <2> QED BY <1>0, <1>3, <1>4, <2>1, <2>3 DEF IsPacking
  <1>6. [kind |-> kind, version |-> n] \in [kind : PathKinds, version : Nat] BY <1>3 DEF PathKinds
  <1>7. tree' \in Snapshots BY <1>0, <1>2, <1>6 DEF Snapshots
  <1>8. \A q \in Paths : /\ tree[q].version \in Nat /\ tree[q].version <= packing.changes
                         /\ q # p => tree'[q] = tree[q]
                         /\ q = p => tree'[q].version = n
    BY <1>0, <1>2, <1>6 DEF Snapshots, TreeMovesOn
  <1>9. \A q \in Paths : /\ tree'[q].version <= n /\ tree[q].version <= tree'[q].version
                         /\ tree'[q].version = tree[q].version => tree'[q] = tree[q]
                         /\ tree'[q].version \in Nat
    BY <1>3, <1>8
  <1>11. ArchiveTypeOK' BY <1>0, <1>1, <1>5, <1>7 DEF ArchiveTypeOK, Bounded
  <1>12. TreeMovesOn'
    <2>1. \A q \in DOMAIN packing.read : packing.read[q] <= tree'[q].version
      BY <1>0, <1>8, <1>9, ReadType DEF TreeMovesOn
    <2> QED BY <1>5, <1>9, <2>1 DEF TreeMovesOn
  <1>14. ReadSoFar' BY <1>0, <1>1, <1>5 DEF ReadSoFar, NextFile
  <1>15. MomentFollows'
    <2>1. CASE packing.at # "hash" BY <1>1, <1>5, <2>1 DEF MomentFollows
    <2>2. CASE packing.at = "hash"
      <3>2. ASSUME NEW q \in Paths
            PROVE  /\ moment[q].version <= tree'[q].version
                   /\ moment[q].version = tree'[q].version => moment[q].kind = tree'[q].kind
        <4>1. moment[q].version \in Nat BY <1>0, <2>2 DEF Snapshots, ArchiveTypeOK
        <4>2. /\ moment[q].version <= tree[q].version
              /\ moment[q].version = tree[q].version => moment[q].kind = tree[q].kind
          BY <1>0, <2>2 DEF MomentFollows
        <4>3. tree[q].version \in Nat BY <1>8
        <4>5. moment[q].version = tree'[q].version => tree'[q].version = tree[q].version
          BY <1>9, <4>1, <4>2, <4>3
        <4> QED BY <1>9, <4>2, <4>1, <4>3, <4>5
      <3> QED BY <1>0, <1>1, <1>5, <2>2, <3>2 DEF MomentFollows, IsWhole, Silent
    <2> QED BY <2>1, <2>2
  <1>16. HashedSoFar' BY <1>0, <1>1, <1>5 DEF HashedSoFar, AsRead
  <1> QED BY <1>11, <1>12, <1>14, <1>15, <1>16 DEF ArchiveInv

LEMMA ArchiveStays ==
    ASSUME ArchiveInv, ArchiveNext
    PROVE  ArchiveInv'
  BY SelectKeeps, OpenFileKeeps, AppendFileKeeps, WalkAgainKeeps, HashAgainKeeps, ChangeTreeKeeps DEF ArchiveNext

LEMMA ArchiveStutters == ArchiveInv /\ UNCHANGED archiveVars => ArchiveInv'
  BY DEF archiveVars, ArchiveInv, ArchiveTypeOK, Bounded, TreeMovesOn, ReadSoFar, NextFile, MomentFollows, IsWhole, Silent,
         HashedSoFar, AsRead

(* What a bundle promises follows. *)
LEMMA ArchiveShows == ArchiveInv => OneMoment /\ LeftOutIsSaid /\ RequiredHasRoom
  BY DEF ArchiveInv, HashedSoFar, AsRead, ReadSoFar, MomentFollows, IsWhole, Silent, Packed,
         OneMoment, LeftOutIsSaid, RequiredHasRoom

------------
(* Results and checkpoints are what they are said to be: a bundle is the
   tree of one moment (pack_kind), names or counts what it left out
   (ResultWalk.visit) and has what is required of it; what a Worker
   certified is in the generation (verify), and training starts again only
   from the bytes that were registered (verify_sealed): for every tree,
   limit and number of changes. *)
THEOREM ArtifactsStayTrue == ArtifactsSpec => []ArtifactsAreTrue
  <1>1. ArtifactsInit => ArchiveInv /\ SealInv BY ArchiveBegins, SealBegins DEF ArtifactsInit
  <1>2. ArchiveInv /\ SealInv /\ [ArtifactsNext]_<<archiveVars, sealVars>> => (ArchiveInv /\ SealInv)'
    <2> SUFFICES ASSUME ArchiveInv, SealInv, [ArtifactsNext]_<<archiveVars, sealVars>> PROVE ArchiveInv' /\ SealInv'
      OBVIOUS
    <2>1. CASE ArchiveNext /\ UNCHANGED sealVars BY <2>1, ArchiveStays, SealStutters
    <2>2. CASE SealNext /\ UNCHANGED archiveVars BY <2>2, SealStays, ArchiveStutters
    <2>3. CASE UNCHANGED <<archiveVars, sealVars>>
      <3> QED BY <2>3, SealStutters, ArchiveStutters
    <2> QED BY <2>1, <2>2, <2>3 DEF ArtifactsNext
  <1>3. ArchiveInv /\ SealInv => ArtifactsAreTrue BY ArchiveShows, SealShows DEF ArtifactsAreTrue
  <1> QED BY <1>1, <1>2, <1>3, PTL DEF ArtifactsSpec
==============================================================================

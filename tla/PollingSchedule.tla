-------------------------- MODULE PollingSchedule --------------------------
(* The observer of one backend: one thread that discovers candidates,
   picks the next one that is due, takes one bounded sample of it and
   schedules it again.  Phases rotate; a failure waits longer each time; a
   busy service is asked again for the same phase; a phase the backend has
   no work for is skipped.

   The clock of the code is a number of seconds; here the schedule keeps
   the seconds until a key is due. *)
EXTENDS Integers, FiniteSets

CONSTANTS
    Keys,           \* what may be discovered, numbered in their order
    Interval,       \* the interval of the policy
    LongestWait,    \* the cap of a backoff, 300 seconds in the code
    MostFailures,   \* failures counted, 5 in the code
    Rediscovery     \* seconds between discoveries, 30 in the code

ASSUME PollingAssumption ==
    IsFiniteSet(Keys) /\ Keys \subseteq Nat \ {0} /\ {Interval, LongestWait, MostFailures, Rediscovery} \subseteq Nat

VARIABLES
    candidates,  \* what the last successful discovery found
    kept,        \* what the schedule keeps of each key
    after,       \* the key that was picked last
    sampling,    \* the key being sampled, 0 for none
    discoverIn,  \* seconds until the next discovery
    sinceFailed, \* seconds since the last failed sample of each key, capped
    overtaken    \* samples of other keys begun since a key is due

pollingVars == <<candidates, kept, after, sampling, discoverIn, sinceFailed, overtaken>>

Phases == {"Scheduler", "Worker", "History"}
NextPhase(p) == CASE p = "Scheduler" -> "Worker" [] p = "Worker" -> "History" [] OTHER -> "Scheduler"

NewEntry == [due |-> 0, failures |-> 0, phase |-> "Scheduler"]

PollingInit ==
    /\ candidates = {} /\ kept = [k \in Keys |-> NewEntry]
    /\ after = 0 /\ sampling = 0 /\ discoverIn = 0
    /\ sinceFailed = [k \in Keys |-> LongestWait] /\ overtaken = [k \in Keys |-> 0]

------------
Smaller(m, n) == IF m < n THEN m ELSE n
Smallest(S) == CHOOSE k \in S : \A other \in S : k <= other

\* The wait after n failures in a row: the interval, doubled for each.
Backoff(n) == Smaller(Interval * 2^n, LongestWait)

Due(entries, found) == {k \in found : entries[k].due = 0}

\* Mutant: the first one that is due, whatever was picked before.
PicksFirst(entries, found) == IF Due(entries, found) = {} THEN 0 ELSE Smallest(Due(entries, found))

\* The next one that is due after the last one picked, then from the start.
Picks(entries, found) ==
    LET later == {k \in Due(entries, found) : k > after}
    IN IF later # {} THEN Smallest(later)
       ELSE IF Due(entries, found) # {} THEN Smallest(Due(entries, found)) ELSE 0

\* What the schedule keeps of one that is no candidate any more is forgotten.
Retained(found) == [k \in Keys |-> IF k \in found THEN kept[k] ELSE NewEntry]

(* One pass: discover when it is time (a failed discovery keeps what was
   known), then pick one to sample. *)
ObserverStep ==
    /\ sampling = 0
    /\ \/ discoverIn > 0 /\ UNCHANGED <<candidates, discoverIn>>
       \/ /\ discoverIn = 0 /\ discoverIn' = Rediscovery
          /\ candidates' \in SUBSET Keys
    /\ kept' = Retained(candidates')
    /\ sampling' = Picks(kept', candidates')
    /\ after' = IF sampling' = 0 THEN after ELSE sampling'
    /\ overtaken' = [k \in Keys |-> IF k \notin Due(kept', candidates') \/ k = sampling' THEN 0
                                    ELSE overtaken[k] + 1]
    /\ UNCHANGED sinceFailed

Scheduled(next) ==
    /\ kept' = [kept EXCEPT ![sampling] = next]
    /\ sampling' = 0
    /\ UNCHANGED <<candidates, after, discoverIn, overtaken>>

\* outcome: a success forgets the failures and goes on to the next phase soon.
Succeed ==
    /\ sampling # 0
    /\ LET next == NextPhase(kept[sampling].phase)
       IN Scheduled([due |-> IF next = "Scheduler" THEN Backoff(0) ELSE 1, failures |-> 0, phase |-> next])
    /\ UNCHANGED sinceFailed

\* Mutant: the wait is that of the failures before this one.
FailsSoft ==
    /\ sampling # 0
    /\ LET n == Smaller(kept[sampling].failures + 1, MostFailures)
       IN Scheduled([due |-> Backoff(kept[sampling].failures), failures |-> n,
                     phase |-> NextPhase(kept[sampling].phase)])
    /\ sinceFailed' = [sinceFailed EXCEPT ![sampling] = 0]

\* A failed sample goes on to the next phase too, after the wait.
Fail ==
    /\ sampling # 0
    /\ LET n == Smaller(kept[sampling].failures + 1, MostFailures)
       IN Scheduled([due |-> Backoff(n), failures |-> n, phase |-> NextPhase(kept[sampling].phase)])
    /\ sinceFailed' = [sinceFailed EXCEPT ![sampling] = 0]

\* The service was busy: the same phase again, a second later.
FindBusy ==
    /\ sampling # 0
    /\ Scheduled([kept[sampling] EXCEPT !.due = 1])
    /\ UNCHANGED sinceFailed

\* skipped: the failures stay, and the wait they had is not waited again.
Skip ==
    /\ sampling # 0 /\ kept[sampling].phase # "Scheduler"
    /\ LET next == NextPhase(kept[sampling].phase)
       IN Scheduled([kept[sampling] EXCEPT !.phase = next,
              !.due = IF next = "Scheduler" /\ kept[sampling].failures = 0 THEN Interval ELSE 1])
    /\ UNCHANGED sinceFailed

\* A second passes, also while a sample is being taken.
Tick ==
    /\ kept' = [k \in Keys |-> [kept[k] EXCEPT !.due = IF @ = 0 THEN 0 ELSE @ - 1]]
    /\ discoverIn' = IF discoverIn = 0 THEN 0 ELSE discoverIn - 1
    /\ sinceFailed' = [k \in Keys |-> Smaller(sinceFailed[k] + 1, LongestWait)]
    /\ UNCHANGED <<candidates, after, sampling, overtaken>>

PollingNext == ObserverStep \/ Succeed \/ Fail \/ FindBusy \/ Skip \/ Tick

PollingSpec == PollingInit /\ [][PollingNext]_pollingVars

------------
(* One that keeps failing is left alone for as long as its failures say,
   also when phases between were skipped or found the service busy: it
   takes no connection of the cluster from the others meanwhile. *)
BackoffIsWaited ==
    (sampling # 0 /\ kept[sampling].failures > 0)
        => sinceFailed[sampling] >= Backoff(kept[sampling].failures)

(* No candidate is starved: before one that is due is sampled, each of the
   others is sampled at most once, whether its samples succeed, fail or
   find the service busy, and whatever a discovery adds or drops. *)
NoneIsStarved == \A k \in Keys : overtaken[k] < Cardinality(Keys)

(* A candidate that failed waits, and none that is due is passed over for
   ever. *)
PollingIsFair == BackoffIsWaited /\ NoneIsStarved
=============================================================================

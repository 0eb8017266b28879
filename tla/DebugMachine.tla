---------------------------- MODULE DebugMachine ----------------------------
(* Debug machines at the provider.  Every call works under the service
   lock, on one machine, from the lookup of its instance to the save of
   what was found; it may stop between two requests.  A create is claimed
   before it is sent and may be executed long after it was given up on. *)
EXTENDS Naturals, FiniteSets

CONSTANTS Machines, \* create requests
          MaxActive \* max_active of the configuration

ASSUME MachinesAssumption == IsFiniteSet(Machines) /\ MaxActive \in Nat

VARIABLES
    machine,  \* the record of each machine
    instance, \* the instance of that name at the provider
    creating, \* creates on their way
    expired   \* leases that have ended

debugVars == <<machine, instance, creating, expired>>

NewRecord == [exists |-> TRUE, handle |-> FALSE, create |-> FALSE, delete |-> FALSE,
              stopping |-> FALSE, deleting |-> FALSE, terminal |-> FALSE,
              deleted |-> FALSE, rejected |-> FALSE]
Absent == [NewRecord EXCEPT !.exists = FALSE]

DebugInit ==
    /\ machine = [d \in Machines |-> Absent]
    /\ instance = [d \in Machines |-> "none"]
    /\ creating = {} /\ expired = {}

Made == {d \in Machines : machine[d].exists}
Keeps(d, r) == machine' = [machine EXCEPT ![d] = r]

\* Mutant: a machine without a handle does not count.
CountedByHandle(d) == machine[d].handle /\ ~machine[d].terminal

\* A record counts until its machine is known to have ended.
Counted(d) == ~machine[d].terminal /\ ~machine[d].deleted

------------
(* debug_create: the record is saved; the create itself is refresh's. *)
Create(d) ==
    /\ d \notin Made
    /\ Cardinality({x \in Made : Counted(x)}) < MaxActive
    /\ Keeps(d, NewRecord)
    /\ UNCHANGED <<instance, creating, expired>>

Expire(d) ==
    /\ d \in Made \ expired
    /\ expired' = expired \cup {d}
    /\ UNCHANGED <<machine, instance, creating>>

\* debug_stop saves what was asked for before it refreshes.
Stop(d, delete) ==
    /\ d \in Made
    /\ Keeps(d, [machine[d] EXCEPT !.stopping = TRUE, !.deleting = @ \/ delete])
    /\ UNCHANGED <<instance, creating, expired>>

------------
(* debug_refresh, for a record that is not deleted; a lease that has ended
   is a request to stop. *)
Expiring(d) == [machine[d] EXCEPT !.stopping = @ \/ d \in expired]
Refreshable(d) == d \in Made /\ ~machine[d].deleted

RefreshRejected(d) ==
    /\ Refreshable(d) /\ machine[d].rejected /\ machine[d].deleting
    /\ Keeps(d, [machine[d] EXCEPT !.deleted = TRUE])
    /\ UNCHANGED <<instance, creating, expired>>

\* No instance is found, and none was ever asked for.
RefreshUnclaimed(d) ==
    LET r == Expiring(d)
    IN /\ Refreshable(d) /\ ~r.rejected /\ instance[d] = "none" /\ ~r.handle /\ ~r.create
       /\ IF r.stopping
            THEN /\ Keeps(d, [r EXCEPT !.terminal = TRUE]) /\ UNCHANGED <<instance, creating>>
            ELSE \/ /\ Keeps(d, [r EXCEPT !.create = TRUE])
                    /\ creating' = creating \cup {d}
                    /\ UNCHANGED instance
                 \/ /\ Keeps(d, [r EXCEPT !.create = TRUE])
                    /\ UNCHANGED <<creating, instance>>
                 \/ \* A positive rejection of the create itself.
                    /\ Keeps(d, [r EXCEPT !.create = TRUE, !.rejected = TRUE, !.terminal = TRUE])
                    /\ UNCHANGED <<creating, instance>>
       /\ UNCHANGED expired

\* Mutant: what is not found is deleted.
GoneWhenAsked(r) == r.deleting

\* Nothing is found of what was created: only a delete explains it.
Gone(r) == r.deleting /\ r.delete /\ r.handle

RefreshMissing(d) ==
    LET r == Expiring(d)
    IN /\ Refreshable(d) /\ ~r.rejected /\ instance[d] \in {"none", "gone"} /\ (r.handle \/ r.create)
       /\ Keeps(d, IF Gone(r) THEN [r EXCEPT !.deleted = TRUE] ELSE r)
       /\ UNCHANGED <<instance, creating, expired>>

\* The instance is found: its handle and its state are saved, and it is
\* stopped, or deleted once it has ended, by requests that may be lost.
RefreshFound(d) ==
    LET ended == instance[d] = "stopped"
        r == [Expiring(d) EXCEPT !.handle = TRUE, !.terminal = ended]
    IN /\ Refreshable(d) /\ ~r.rejected /\ instance[d] \in {"running", "stopped"}
       /\ CASE r.stopping /\ ~ended ->
                 Keeps(d, r) /\ instance' \in {instance, [instance EXCEPT ![d] = "stopped"]}
            [] r.deleting /\ ended ->
                 /\ instance' \in {instance, [instance EXCEPT ![d] = "gone"]}
                 /\ machine' \in {[machine EXCEPT ![d] = [r EXCEPT !.delete = TRUE]],
                                  [machine EXCEPT ![d] = [r EXCEPT !.delete = TRUE,
                                                                   !.deleted = instance'[d] = "gone"]]}
            [] OTHER -> Keeps(d, r) /\ UNCHANGED instance
       /\ UNCHANGED <<creating, expired>>

------------
\* The provider executes a create, and stops a machine of itself.
CreateExecuted(d) ==
    /\ d \in creating
    /\ creating' = creating \ {d}
    /\ instance' = [instance EXCEPT ![d] = IF @ = "none" THEN "running" ELSE @]
    /\ UNCHANGED <<machine, expired>>
InstanceStops(d) ==
    /\ instance[d] = "running"
    /\ instance' = [instance EXCEPT ![d] = "stopped"]
    /\ UNCHANGED <<machine, creating, expired>>

\* Mutant: only what was asked to stop is refreshed.
NeedsWhenAsked(d) == Refreshable(d) /\ machine[d].stopping /\ ~machine[d].terminal

(* needs_refresh: what debug_expire, called at every tick of the observer,
   refreshes of itself. *)
NeedsRefresh(d) ==
    /\ Refreshable(d) /\ (machine[d].deleting \/ ~machine[d].terminal)
    /\ d \in expired \/ machine[d].stopping \/ machine[d].terminal

\* A refresh of the observer whose stop the provider executes.
ObserverStops(d) == NeedsRefresh(d) /\ RefreshFound(d) /\ instance'[d] # "running"

Refresh(d) == RefreshRejected(d) \/ RefreshUnclaimed(d) \/ RefreshMissing(d) \/ RefreshFound(d)
DebugNext ==
    \E d \in Machines :
       \/ Create(d) \/ Expire(d) \/ (\E delete \in BOOLEAN : Stop(d, delete))
       \/ Refresh(d) \/ CreateExecuted(d) \/ InstanceStops(d)

DebugSpec == DebugInit /\ [][DebugNext]_debugVars

------------
(* The machines that run, or may still come to run, are never more than
   the configuration allows, whatever answer was lost. *)
MachinesWithinLimit ==
    Cardinality({d \in Machines : instance[d] = "running" \/ d \in creating}) <= MaxActive

(* A machine that is DELETED is gone for good. *)
DeletedIsGone ==
    \A d \in Made : machine[d].deleted => instance[d] \in {"none", "gone"} /\ d \notin creating

(* A machine whose lease has ended is stopped, without anyone asking. *)
ExpiredIsStopped ==
    \A d \in Machines : d \in expired /\ instance[d] = "running" ~> instance[d] # "running"

(* No more debug machines run than the limit, and one that is DELETED
   never runs again. *)
MachinesAreHeld == MachinesWithinLimit /\ DeletedIsGone
=============================================================================

---------------------------- MODULE WorkerStart -----------------------------
(* A cloud Worker in the directory of its Attempt (worker/cloud.rs run):
   it prepares the directory or finds it, delivers the code
   (cloud_code.rs), and executes training once (managed.rs).  The provider
   may start it again, on another node while the first still runs; a
   shared file system need not exclude the locks of two nodes. *)
EXTENDS Naturals, SequencesExt

CONSTANTS Nodes,     \* the nodes a Worker of this Attempt runs on
          MaxStops   \* bound: Workers killed and nodes lost

VARIABLES excludes,  \* locks of two nodes exclude each other
          launchLedger,    \* .managed-launch.lock: its lines, how many are on disk, a torn one at its end
          root,      \* the rest of the directory
          holder,    \* the nodes that hold its lock exclusively
          node,      \* where each Worker is
          training,  \* whether a process runs, and how often one was started
          sampled,  \* the phases a sample sampled
          stops
startVars == <<excludes, launchLedger, root, holder, node, training, sampled, stops>>

StartInit ==
    /\ excludes \in BOOLEAN
    /\ launchLedger = [lines |-> <<>>, synced |-> 0, torn |-> FALSE]
    /\ root = [made |-> FALSE, tree |-> "none", listing |-> FALSE,
               output |-> FALSE, kept |-> FALSE, doubt |-> FALSE, receipt |-> FALSE]
    /\ holder = {} /\ node = [n \in Nodes |-> "prepare"]
    /\ training = [alive |-> FALSE, started |-> 0] /\ sampled = {} /\ stops = 0

NodeGoes(n, at) == node' = [node EXCEPT ![n] = at]
NodeAt(n, at) == node[n] = at
NodeLeaves(n, at) == NodeGoes(n, at) /\ holder' = holder \ {n}

\* Held::state: PREPARED, STARTED, FINISHED in this order, nothing else.
LedgerPhase ==
    IF launchLedger.torn THEN "?"
    ELSE CASE launchLedger.lines = <<"P">> -> "PREPARED"
           [] launchLedger.lines = <<"P", "S">> -> "STARTED"
           [] launchLedger.lines = <<"P", "S", "F">> -> "FINISHED"
           [] OTHER -> "?"

\* observe: FINISHED needs its receipt.
Phase == IF LedgerPhase = "FINISHED" /\ ~root.receipt THEN "?" ELSE LedgerPhase

MayLock(n) == excludes => holder \subseteq {n}

------------
\* prepare: the directory of the Attempt is created by one.
CreateRoot(n) ==
    /\ NodeAt(n, "prepare") /\ ~root.made /\ root' = [root EXCEPT !.made = TRUE] /\ NodeGoes(n, "initialize")
    /\ UNCHANGED <<excludes, launchLedger, holder, training, sampled, stops>>

\* Manifest, lock file and runtime environment; the ledger has no line yet.
Initialize(n) ==
    /\ NodeAt(n, "initialize") /\ NodeGoes(n, "append P") /\ holder' = holder \cup {n}
    /\ UNCHANGED <<excludes, launchLedger, root, training, sampled, stops>>

\* inspect, of a directory that is there: what is incomplete is never repaired.
Inspect(n) ==
    /\ NodeAt(n, "prepare") /\ root.made
    /\ NodeGoes(n, IF ~MayLock(n) THEN "stopped"
             ELSE CASE Phase = "FINISHED" -> "done" [] Phase = "PREPARED" -> "deliver"
                    [] Phase = "STARTED" -> "run" [] OTHER -> "stopped")
    /\ UNCHANGED <<excludes, launchLedger, root, holder, training, sampled, stops>>

------------
\* append_regular: the line, then fsync.  An error leaves any part of it.
Line(n) == CASE node[n] = "append P" -> "P" [] node[n] = "append S" -> "S" [] OTHER -> "F"
Unsynced(n) == CASE node[n] = "append P" -> "sync P" [] node[n] = "append S" -> "sync S" [] OTHER -> "sync F"

AppendLine(n) ==
    /\ node[n] \in {"append P", "append S", "append F"}
    /\ \/ launchLedger' = [launchLedger EXCEPT !.lines = Append(@, Line(n))] /\ NodeGoes(n, Unsynced(n)) /\ UNCHANGED holder
       \/ \E torn \in BOOLEAN : launchLedger' = [launchLedger EXCEPT !.torn = @ \/ torn] /\ NodeLeaves(n, "stopped")
    /\ UNCHANGED <<excludes, root, training, sampled, stops>>

\* After PREPARED the Worker goes on to inspect, after FINISHED it reads it back.
SyncLine(n) ==
    /\ node[n] \in {"sync P", "sync S", "sync F"}
    /\ \/ /\ launchLedger' = [launchLedger EXCEPT !.synced = Len(launchLedger.lines)]
          /\ IF NodeAt(n, "sync S") THEN NodeGoes(n, "output") /\ UNCHANGED holder
             ELSE NodeLeaves(n, IF NodeAt(n, "sync P") THEN "prepare" ELSE "done")
       \/ launchLedger' = launchLedger /\ NodeLeaves(n, "stopped")
    /\ UNCHANGED <<excludes, root, training, sampled, stops>>

------------
\* Mutant: the lock is dropped as soon as the phase was read.
DropAtOnce(n) == holder' = holder

KeepHold(n) == holder' = holder \cup {n}

\* hold_unstarted, held throughout the delivery.
HoldUnstarted(n) ==
    /\ NodeAt(n, "deliver")
    /\ IF MayLock(n) /\ Phase = "PREPARED" THEN NodeGoes(n, "code") /\ KeepHold(n)
       ELSE NodeGoes(n, "stopped") /\ UNCHANGED holder
    /\ UNCHANGED <<excludes, launchLedger, root, training, sampled, stops>>

\* A published listing: the tree is proven again or refused.  Without one a tree is unfinished.
LookForCode(n) ==
    /\ NodeAt(n, "code")
    /\ IF root.listing THEN NodeLeaves(n, IF root.tree = "whole" THEN "run" ELSE "stopped") /\ UNCHANGED root
       ELSE root' = [root EXCEPT !.tree = "none"] /\ NodeGoes(n, "tree") /\ UNCHANGED holder
    /\ UNCHANGED <<excludes, launchLedger, training, sampled, stops>>

CreateTree(n) ==
    /\ NodeAt(n, "tree")
    /\ IF root.tree = "none" THEN root' = [root EXCEPT !.tree = "partial"] /\ NodeGoes(n, "fill") /\ UNCHANGED holder
       ELSE UNCHANGED root /\ NodeLeaves(n, "stopped")
    /\ UNCHANGED <<excludes, launchLedger, training, sampled, stops>>

\* fill: received and sealed, or removed to be fetched again or given up.
FillTree(n) ==
    /\ NodeAt(n, "fill")
    /\ \/ root.tree = "partial" /\ root' = [root EXCEPT !.tree = "whole"] /\ NodeGoes(n, "publish") /\ UNCHANGED holder
       \/ /\ root' = [root EXCEPT !.tree = "none"]
          /\ (NodeGoes(n, "tree") /\ UNCHANGED holder) \/ NodeLeaves(n, "stopped")
    /\ UNCHANGED <<excludes, launchLedger, training, sampled, stops>>

\* verify, then the listing says that the tree is complete.
PublishListing(n) ==
    /\ NodeAt(n, "publish")
    /\ IF root.tree = "whole" /\ ~root.listing THEN root' = [root EXCEPT !.listing = TRUE] /\ NodeLeaves(n, "run")
       ELSE UNCHANGED root /\ NodeLeaves(n, "stopped")
    /\ UNCHANGED <<excludes, launchLedger, training, sampled, stops>>

------------
\* run, up to the line that says that training may have started.
BeginRun(n) ==
    /\ NodeAt(n, "run")
    /\ IF MayLock(n) /\ Phase = "PREPARED" /\ ~root.output /\ ~root.receipt /\ root.listing /\ root.tree = "whole"
       THEN NodeGoes(n, "append S") /\ holder' = holder \cup {n}
       ELSE NodeGoes(n, IF MayLock(n) /\ Phase = "FINISHED" THEN "done" ELSE "stopped") /\ UNCHANGED holder
    /\ UNCHANGED <<excludes, launchLedger, root, training, sampled, stops>>

\* Mutant: an output directory that exists is used.
AnyOutput == TRUE

OutputIsFree == ~root.output

\* execute_environment creates OUTPUT_DIR, which is there for one.
CreateOutput(n) ==
    /\ NodeAt(n, "output")
    /\ IF OutputIsFree THEN root' = [root EXCEPT !.output = TRUE] /\ NodeGoes(n, "spawn") /\ UNCHANGED holder
       ELSE UNCHANGED root /\ NodeLeaves(n, "stopped")
    /\ UNCHANGED <<excludes, launchLedger, training, sampled, stops>>

\* A spawn that fails is sampled in the receipt like an exit.
Spawn(n) ==
    /\ NodeAt(n, "spawn") /\ NodeGoes(n, "wait")
    /\ \/ training' = [alive |-> TRUE, started |-> training.started + 1]
       \/ training' = training
    /\ UNCHANGED <<excludes, launchLedger, root, holder, sampled, stops>>

\* Mutant: the logs are left to the cache.
LeaveLogs == root' = root

\* The result of an fsync that failed is LOG_SYNC_FAILED.
SyncLogs == root' = [root EXCEPT !.kept = TRUE] \/ root' = [root EXCEPT !.doubt = TRUE]

\* The process group has ended; its logs and their directory are synced.
ProcessEnds(n) ==
    /\ NodeAt(n, "wait") /\ NodeGoes(n, "receipt") /\ training' = [training EXCEPT !.alive = FALSE]
    /\ SyncLogs
    /\ UNCHANGED <<excludes, launchLedger, holder, sampled, stops>>

PublishReceipt(n) ==
    /\ NodeAt(n, "receipt")
    /\ \/ ~root.receipt /\ root' = [root EXCEPT !.receipt = TRUE] /\ NodeGoes(n, "append F") /\ UNCHANGED holder
       \/ UNCHANGED root /\ NodeLeaves(n, "stopped")
    /\ UNCHANGED <<excludes, launchLedger, training, sampled, stops>>

------------
\* sample: without the lock; the ledger reads the same before and after.
Sample ==
    /\ Phase # "?" /\ Phase \notin sampled /\ sampled' = sampled \cup {Phase}
    /\ UNCHANGED <<excludes, launchLedger, root, holder, node, training, stops>>

Working(n) == node[n] \notin {"stopped", "done"}

\* The Worker is killed: what it started is left; the provider starts it again or not.
KillWorker(n) ==
    /\ Working(n) /\ stops < MaxStops /\ stops' = stops + 1
    /\ \E next \in {"prepare", "stopped"} : NodeLeaves(n, next)
    /\ UNCHANGED <<excludes, launchLedger, root, training, sampled>>

(* Its node is lost: with it what only its memory had of the ledger and,
   on a file system of its own, the name of the output directory. *)
LoseNode(n) ==
    /\ Working(n) /\ stops < MaxStops /\ stops' = stops + 1
    /\ \E next \in {"prepare", "stopped"} : NodeLeaves(n, next)
    /\ \E length \in launchLedger.synced..Len(launchLedger.lines), torn \in BOOLEAN :
         /\ length < Len(launchLedger.lines) => node[n] \in {"sync P", "sync S", "sync F"}
         /\ torn => length < Len(launchLedger.lines)
         /\ launchLedger' = [lines |-> SubSeq(launchLedger.lines, 1, length), synced |-> length,
                             torn |-> launchLedger.torn \/ torn]
    /\ training' = [training EXCEPT !.alive = @ /\ ~NodeAt(n, "wait")]
    /\ \E output \in {root.output, root.output /\ (root.kept \/ ~excludes \/ node[n] \notin {"spawn", "wait"})} :
         root' = [root EXCEPT !.output = output]
    /\ UNCHANGED <<excludes, sampled>>

\* What a killed Worker left running ends of itself.
OrphanEnds ==
    /\ training.alive /\ \A n \in Nodes : ~NodeAt(n, "wait")
    /\ training' = [training EXCEPT !.alive = FALSE]
    /\ UNCHANGED <<excludes, launchLedger, root, holder, node, sampled, stops>>

StartNext ==
    \/ Sample \/ OrphanEnds
    \/ \E n \in Nodes : \/ CreateRoot(n) \/ Initialize(n) \/ Inspect(n) \/ AppendLine(n) \/ SyncLine(n)
                        \/ HoldUnstarted(n) \/ LookForCode(n) \/ CreateTree(n) \/ FillTree(n) \/ PublishListing(n)
                        \/ BeginRun(n) \/ CreateOutput(n) \/ Spawn(n) \/ ProcessEnds(n) \/ PublishReceipt(n)
                        \/ KillWorker(n) \/ LoseNode(n)

StartSpec == StartInit /\ [][StartNext]_startVars

------------
(* Training starts at most once in an Attempt, whoever was killed between
   which steps, and even where locks do not exclude. *)
TrainingStartsOnce == training.started <= 1

(* A Worker that was sampled FINISHED has ended and its receipt says how,
   also when its logs may not be on disk: no sample of a running Attempt
   says so. *)
FinishedIsOver ==
    "FINISHED" \in sampled => root.receipt /\ (root.kept \/ root.doubt) /\ ~training.alive

(* What training runs in is the frozen source, whole and published, and no
   other Worker replaces it meanwhile, where locks exclude. *)
CodeIsWhole == training.alive /\ excludes => root.listing /\ root.tree = "whole"

(* A Worker starts training once, in the whole of its source, and says
   that it is over only when it is and its output is kept. *)
WorkerStartsOnce == TrainingStartsOnce /\ FinishedIsOver /\ CodeIsWhole
=============================================================================

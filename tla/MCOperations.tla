---------------------------- MODULE MCOperations ----------------------------
(* What the server and its client do around a Submission, each part by
   itself: a behaviour exercises one of them, chosen in its initial state.
   The parts of the server share the service lock, which none holds across
   a step of another, and the outbox of their jobs, where each has slots
   of its own; the registry of Projects and the store of sources are files
   of their own; those of the client share its records of the latest Run;
   those of a Worker share the directory of its Attempt. *)
EXTENDS ActionStore, Administration, PollingSchedule, CloudSync, DatasetStorage,
        CloudArtifacts, CloudPreparation, BuildRuntime, ProjectRegistry, SourceStore,
        ClientSubmission, ClientCommand,
        DurableFiles, ResultArchive, CheckpointSeal, WorkerStart, BoundedProcess

CONSTANTS c1, c2, a1, ready, blocked, j1, j2, k1, k2

VARIABLE part

MCCallers == {c1, c2}
MCActions == {a1}
MCDigests == {ready, blocked}
MCReady == {ready}
MCJobs == {j1, j2}
MCClients == {k1, k2}
MCSaves == {"first", "last"}

\* The slots: the Attempts, the copies, and the jobs of a synchronization.
MCTraining == 21
MCOriginal(r) == 22
MCRecovery(r) == 23
MCDiagnosis(r) == 24
MCSlots == 1..3 \cup {11, 12} \cup 21..24

\* What is asked of the registry: one Project is registered, another moved, or all removed.
Op(name, project) == [name |-> name, project |-> project, reason |-> TRUE]
MCChanges == {Op("register", 2), Op("pause", 1), Op("restore", 1), Op("unregister_all", 0)}

\* One tree in the archives of two clients, and one that differs in what may be executed.
Plain(path, executable) == [path |-> path, executable |-> executable, chunks |-> <<"x">>]
PackedBy(plain, packer) == [tree |-> {plain}, packer |-> packer]
MCArchives == {PackedBy(Plain(<<1, 1>>, FALSE), 1), PackedBy(Plain(<<1, 1>>, FALSE), 2), PackedBy(Plain(<<1, 1>>, TRUE), 1)}

\* What the operator offers: a family of fixed shapes and a Slurm partition.
Executor(id, family, fixed, open, kind, gpus, cpus) ==
    [id |-> id, family |-> family, fixed |-> fixed, open |-> open, kind |-> kind, gpus |-> gpus, cpus |-> cpus]
MCToday == {Executor("pai-s", "pai", TRUE, TRUE, "pai", 1, 12), Executor("pai-c", "pai", TRUE, TRUE, "pai", 0, 16),
            Executor("pai-l", "pai", TRUE, TRUE, "pai", 2, 8),
            Executor("slurm", "slurm", FALSE, TRUE, "slurm", 4, Unlimited)}
MCTomorrow == {Executor("pai-s", "pai", TRUE, FALSE, "pai", 1, 12), Executor("pai-l", "pai", TRUE, TRUE, "pai", 2, 16),
               Executor("slurm", "slurm", FALSE, TRUE, "slurm", 1, 8)}
MCTables == {MCToday, MCTomorrow}
MCRequests == [executor : {"pai", "pai-s", "slurm"}, gpus : 0..2, cpus : {0, 8, 16},
               allocation : {"default", "guaranteed"}]
MCPlain == [executor |-> "pai", gpus |-> 1, cpus |-> 0, allocation |-> "default"]

\* OUTPUT_DIR: a file or a link, a file or a directory of at most two files, and a last file.
MCParent == <<0, 0, 2, 2, 0>>
MCTrees ==
    {t \in {<<a, b, c, d, e>> : a \in {"file", "link"}, b \in {"file", "directory"}, c, d, e \in {"none", "file"}} :
        t[2] = "file" => t[3] = "none" /\ t[4] = "none"}

\* The outputs and the checkpoints are removed apart: an operator plans one of them.
Administering ==
    /\ AdministrationNext
    /\ ~(plans'["outputs"].saved /\ \E p \in Selections \ {"outputs"} : plans'[p].saved)

------------
clientVars == <<submitVars, batchVars, planVars, requestVars>>
workerVars == <<fileVars, archiveVars, sealVars, startVars, logVars, processVars>>
storesVars == <<projectVars, packVars, storeVars>>
others == <<clientVars, workerVars, storesVars>>
notActions == <<others, administrationVars, pollingVars, jobVars, syncVars, uploadVars, copyVars, artifactVars,
                retryVars, buildVars, setupVars>>
notAdministration == <<others, vars, pollingVars, jobVars, syncVars, uploadVars, copyVars, artifactVars,
                       retryVars, buildVars, setupVars>>
notPolling == <<others, vars, administrationVars, jobVars, syncVars, uploadVars, copyVars, artifactVars,
                retryVars, buildVars, setupVars>>
cloudOthers == <<others, vars, administrationVars, pollingVars>>
notSync == <<cloudOthers, uploadVars, copyVars, artifactVars, retryVars, buildVars, setupVars>>
notUpload == <<cloudOthers, jobVars, syncVars, copyVars, artifactVars, retryVars, buildVars, setupVars>>
notCopy == <<cloudOthers, syncVars, uploadVars, artifactVars, retryVars, buildVars, setupVars>>
notArtifacts == <<cloudOthers, jobVars, syncVars, uploadVars, copyVars, retryVars, buildVars, setupVars>>
notRetry == <<cloudOthers, syncVars, uploadVars, copyVars, artifactVars, buildVars, setupVars>>
notBuild == <<cloudOthers, jobVars, syncVars, uploadVars, copyVars, artifactVars, retryVars, setupVars>>
notSetup == <<cloudOthers, jobVars, syncVars, uploadVars, copyVars, artifactVars, retryVars, buildVars>>

notStores == <<vars, administrationVars, pollingVars, jobVars, syncVars, uploadVars, copyVars, artifactVars,
               retryVars, buildVars, setupVars>>
serverVars == <<storesVars, notStores>>
notRegistry == <<clientVars, workerVars, packVars, storeVars, notStores>>
notSources == <<clientVars, workerVars, projectVars, notStores>>

Exercised == {"actions", "administration", "polling", "sync", "upload", "copy", "artifacts", "retry",
              "build", "setup", "submit", "batch", "plan", "request",
              "files", "archive", "checkpoints", "start", "log", "process",
              "registry", "packing", "store"}

\* What a part may start with is fixed where another one is exercised.
AllInit ==
    /\ part \in Exercised
    /\ Init /\ PollingInit /\ JobsInit /\ UploadInit /\ CopyInit /\ ArtifactInit /\ RetryInit /\ BuildInit
    /\ SyncInit /\ (part # "sync" => limit = 1)
    /\ SetupInit /\ (part # "setup" => worker = 1)
    /\ AdministrationInit /\ (part # "administration" => onCloud)
    /\ SubmitInit /\ BatchInit
    /\ PlanInit /\ (part # "plan" => offered = MCToday /\ asked = MCPlain)
    /\ RequestInit /\ (part # "request" => health.mutations /\ "retry" \in health.lists)
    /\ FilesInit /\ (part # "files" => publishers = {1} /\ native)
    /\ SealInit
    /\ StartInit /\ (part # "start" => excludes)
    /\ LogInit /\ (part # "log" => capacity = 8)
    /\ ProcessInit /\ (part # "process" => member = "no" /\ ~escaped)
    /\ RegistryInit /\ (part # "registry" => permits = 1)
    /\ PackingInit /\ (part # "packing" => PresentFiles(directory) = SourcePaths)
    /\ StoreInit
    /\ ArchiveInit
    /\ (part # "archive" => (\A p \in Paths : tree[p].kind = (IF p \in {3, 4} THEN "none" ELSE "file")) /\ required = {} /\ most = 4)

WorkerNext ==
    \/ part = "files" /\ FilesNext /\ UNCHANGED <<archiveVars, sealVars, startVars, logVars, processVars>>
    \/ part = "archive" /\ ArchiveNext /\ UNCHANGED <<fileVars, sealVars, startVars, logVars, processVars>>
    \/ part = "checkpoints" /\ SealNext /\ UNCHANGED <<fileVars, archiveVars, startVars, logVars, processVars>>
    \/ part = "start" /\ StartNext /\ UNCHANGED <<fileVars, archiveVars, sealVars, logVars, processVars>>
    \/ part = "log" /\ LogNext /\ UNCHANGED <<fileVars, archiveVars, sealVars, startVars, processVars>>
    \/ part = "process" /\ ProcessNext /\ UNCHANGED <<fileVars, archiveVars, sealVars, startVars, logVars>>

AllNext ==
    /\ UNCHANGED part
    /\ \/ part = "actions" /\ Next /\ UNCHANGED notActions
       \/ part = "administration" /\ Administering /\ UNCHANGED notAdministration
       \/ part = "polling" /\ PollingNext /\ UNCHANGED notPolling
       \/ part = "sync" /\ (SyncNext \/ (JobsNext /\ UNCHANGED syncVars)) /\ UNCHANGED notSync
       \/ part = "upload" /\ UploadNext /\ UNCHANGED notUpload
       \/ part = "copy" /\ CopyNext /\ UNCHANGED notCopy
       \/ part = "artifacts" /\ ArtifactNext /\ UNCHANGED notArtifacts
       \/ part = "retry" /\ RetryNext /\ UNCHANGED notRetry
       \/ part = "build" /\ BuildNext /\ UNCHANGED notBuild
       \/ part = "setup" /\ SetupNext /\ UNCHANGED notSetup
       \/ part = "registry" /\ RegistryNext /\ UNCHANGED notRegistry
       \/ part = "packing" /\ PackingNext /\ UNCHANGED notSources
       \/ part = "store" /\ StoreNext /\ UNCHANGED notSources
       \/ part = "submit" /\ SubmitNext /\ UNCHANGED <<serverVars, workerVars, batchVars, planVars, requestVars>>
       \/ part = "batch" /\ BatchNext /\ UNCHANGED <<serverVars, workerVars, submitVars, planVars, requestVars>>
       \/ part = "plan" /\ PlanNext /\ UNCHANGED <<serverVars, workerVars, submitVars, batchVars, requestVars>>
       \/ part = "request" /\ RequestNext /\ UNCHANGED <<serverVars, workerVars, submitVars, batchVars, planVars>>
       \/ WorkerNext /\ UNCHANGED <<serverVars, clientVars>>

AllSpec == AllInit /\ [][AllNext]_<<serverVars, clientVars, workerVars, part>>
UploadSpec == AllSpec /\ part = "upload"
BatchSpec == AllSpec /\ part = "batch"

(* A copy that is ready, a part that was released, an Attempt that ended,
   the history of a Project and a stored source are never taken back. *)
StatesOnlyAdvance ==
    /\ ReadyKeepsItsCopy /\ ReleaseOnlyAdvances /\ RunFollowsAttempts
    /\ HistoryOnlyGrows /\ SourcesAreKept
=============================================================================

--------------------------- MODULE ActionLifecycle ---------------------------
(* What the Action store promises its callers, with no files, locks,
   revisions or processes in sight: an Action is prepared or blocked once,
   a prepared Action is claimed once, and from the claim on its provider
   call is made at most once.  Whatever is learnt of that one call is
   recorded without ever replacing a job identity that is already known,
   and VERIFIED is final. *)
CONSTANTS
    Actions,    \* Action identities
    Jobs,       \* provider job identities
    NoJob       \* no job is recorded

VARIABLES
    status,     \* the committed status, "ABSENT" before the first commit
    job,        \* the committed job identity
    dispatched  \* the Actions whose one provider call was made

vars == <<status, job, dispatched>>

Absent == "ABSENT"
Claimed == {"EXECUTING", "RECONCILE_REQUIRED"}

Init ==
    /\ status = [a \in Actions |-> Absent]
    /\ job = [a \in Actions |-> NoJob]
    /\ dispatched = {}

Admit(a) ==
    /\ status[a] = Absent
    /\ \E s \in {"PREPARED", "BLOCKED"} : status' = [status EXCEPT ![a] = s]
    /\ UNCHANGED <<job, dispatched>>

Claim(a) ==
    /\ status[a] = "PREPARED"
    /\ status' = [status EXCEPT ![a] = "EXECUTING"]
    /\ UNCHANGED <<job, dispatched>>

Dispatch(a) ==
    /\ a \notin dispatched
    /\ status[a] \in Claimed \cup {"VERIFIED"}
    /\ dispatched' = dispatched \cup {a}
    /\ UNCHANGED <<status, job>>

\* Evidence about the call: the job may become known, never change.
Learn(a) ==
    /\ status[a] \in Claimed
    /\ \E j \in Jobs \cup {NoJob}, s \in {"RECONCILE_REQUIRED", "VERIFIED"} :
         /\ job[a] # NoJob => j = job[a]
         /\ s = "VERIFIED" => j # NoJob
         /\ job' = [job EXCEPT ![a] = j]
         /\ status' = [status EXCEPT ![a] = s]
    /\ UNCHANGED dispatched

Next == \E a \in Actions : Admit(a) \/ Claim(a) \/ Dispatch(a) \/ Learn(a)

Spec == Init /\ [][Next]_vars
=============================================================================

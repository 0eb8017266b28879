------------------------------ MODULE RunState ------------------------------
(* The states a scheduler or a provider reports for an Attempt, and the
   observations that may follow one another in its record. *)

TerminalStates == {"SUCCEEDED", "FAILED", "PREEMPTED", "CANCELLED"}

RunStates ==
    {"NOT_SUBMITTED", "CREATED", "SUBMITTING", "QUEUED", "STARTING", "RUNNING",
     "EVALUATING", "UNKNOWN"} \cup TerminalStates

IsTerminal(s) == s \in TerminalStates

\* The states that may not be observed after a state that is not terminal.
Refused ==
    LET before == {"NOT_SUBMITTED", "CREATED"}
        unsent == before \cup {"SUBMITTING"}
    IN [s \in RunStates |->
          CASE s \in {"CREATED", "UNKNOWN"} -> {"NOT_SUBMITTED"}
            [] s = "SUBMITTING" -> before
            [] s \in {"QUEUED", "STARTING"} -> unsent
            [] s = "RUNNING" -> unsent \cup {"STARTING"}
            [] s = "EVALUATING" -> RunStates \ (TerminalStates \cup {"EVALUATING", "UNKNOWN"})
            [] OTHER -> RunStates \ {"CREATED"}]

Allows(s, t) == IF IsTerminal(s) THEN t = s ELSE t \notin Refused[s]
=============================================================================

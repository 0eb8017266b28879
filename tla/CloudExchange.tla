--------------------------- MODULE CloudExchange ---------------------------
(* The exchange of a cloud Attempt: the Worker (or the collector job that
   comes after it, under the same file lock) sends its metrics file page
   by page, one packet at a time, and the server writes the records to the
   journal before it saves how far it came.  A packet or an answer may be
   lost, be late or come twice; either side may stop between two steps.

   The Worker sends while the process runs, and for a minute after its end
   (DRAIN_BUDGET); then it defers what is left and leaves.  Nothing goes on
   by itself from there: a synchronization that a person asks for starts a
   collector, which drains the file for a minute again.

   The file is a sequence of units [line, last]; a line may be cut by the
   end of a page.  A packet stands for its digest. *)
EXTENDS RecordsJournal

CONSTANTS File,        \* what the training writes to metrics.jsonl
          PageUnits,   \* units in a page
          Invalid,     \* the lines that are no metric
    MaxEmpty,    \* packets, from the first on, that may carry nothing new
    MaxFaults    \* lost answers and interrupted receives in a behaviour

ASSUME ExchangeAssumption ==
    /\ {Len(File), PageUnits, MaxEmpty, MaxFaults} \subseteq Nat
    /\ \A k \in 1..Len(File) : File[k].last \in BOOLEAN

VARIABLES
    written,   \* how much of the file is there
    process,   \* "running", "finished" or "killed"
    attended,  \* whether the Worker or a collector drains the file
    wstate,    \* .cloud-exchange.json, beside the file
    requests,  \* packets on their way
    answers,   \* acknowledgements on their way
    sstate,    \* the saved exchange of the server
    receiving, \* the request the server is handling
    faults

exchangeVars == <<written, process, attended, wstate, requests, answers, sstate, receiving, faults>>

NoPacket == [sequence |-> 0]
NotReceiving == [at |-> "idle"]
NewImporter == [chunk |-> <<>>, number |-> 0]

ExchangeInit ==
    /\ written = 0 /\ process = "running" /\ attended = TRUE
    /\ wstate = [sequence |-> 0, cursor |-> 0, complete |-> FALSE, pending |-> NoPacket]
    /\ requests = {} /\ answers = {}
    /\ sstate = [sequence |-> 0, packet |-> NoPacket, cursor |-> 0,
                 importer |-> NewImporter, complete |-> FALSE]
    /\ receiving = NotReceiving /\ faults = 0

------------
(* The training process writes its file and ends, or is killed; a process
   that ends by itself has written whole lines. *)
Write ==
    /\ process = "running" /\ written < Len(File)
    /\ written' = written + 1
    /\ UNCHANGED <<process, attended, wstate, requests, answers, sstate, receiving, faults, journalVars>>

EndProcess ==
    /\ process = "running"
    /\ process' \in {"killed"} \cup
          IF written \in {0, Len(File)} \/ File[written].last THEN {"finished"} ELSE {}
    /\ UNCHANGED <<written, attended, wstate, requests, answers, sstate, receiving, faults, journalVars>>

(* history: the page after the cursor; once the process has finished, the
   page that reaches the end of the file is the last one. *)
PageEnd(cursor) == IF cursor + PageUnits < written THEN cursor + PageUnits ELSE written
PageFrom(cursor) ==
    [start |-> cursor, next |-> PageEnd(cursor),
     complete |-> process = "finished" /\ PageEnd(cursor) = written]

\* once: one packet is made and saved before anything is sent.
BuildPacket ==
    /\ attended /\ wstate.pending = NoPacket /\ ~wstate.complete
    /\ (PageEnd(wstate.cursor) = wstate.cursor /\ process # "finished") => wstate.sequence < MaxEmpty
    /\ wstate' = [wstate EXCEPT !.pending = [sequence |-> wstate.sequence + 1,
                                             page |-> PageFrom(wstate.cursor),
                                             phase |-> process]]
    /\ UNCHANGED <<written, process, attended, requests, answers, sstate, receiving, faults, journalVars>>

SendPacket ==
    /\ attended /\ wstate.pending # NoPacket /\ wstate.pending \notin requests
    /\ requests' = requests \cup {wstate.pending}
    /\ UNCHANGED <<written, process, attended, wstate, answers, sstate, receiving, faults, journalVars>>

\* The acknowledgement of exactly this packet moves the cursor.
Acknowledged ==
    /\ attended /\ wstate.pending # NoPacket /\ wstate.pending \in answers
    /\ wstate' = [sequence |-> wstate.pending.sequence, cursor |-> wstate.pending.page.next,
                  complete |-> wstate.pending.page.complete, pending |-> NoPacket]
    /\ UNCHANGED <<written, process, attended, requests, answers, sstate, receiving, faults, journalVars>>

(* drain: after the end of the process whoever sends leaves when the page
   that is the last was acknowledged, or when its minute is over. *)
SenderLeaves ==
    /\ attended /\ process # "running"
    /\ attended' = FALSE
    /\ UNCHANGED <<written, process, wstate, requests, answers, sstate, receiving, faults, journalVars>>

(* `ml-exp run sync`, and only it: a collector goes on from the saved
   state.  Two that drain at once take turns under the file lock, like one. *)
Synchronize ==
    /\ ~attended
    /\ attended' = TRUE
    /\ UNCHANGED <<written, process, wstate, requests, answers, sstate, receiving, faults, journalVars>>

------------
\* Mutant: only the last packet is known again.
FollowsLoosely(p) == ~sstate.complete

(* receive, under the exchange lock.  The last packet again is answered
   again; any other packet follows the saved state or is refused. *)
Follows(p) ==
    /\ p.sequence = sstate.sequence + 1
    /\ p.page.start = sstate.cursor
    /\ ~sstate.complete

\* Mutant: a complete exchange takes nothing more, not even its last packet.
AnswerWhileOpen ==
    /\ receiving = NotReceiving /\ Live /\ ~sstate.complete
    /\ sstate.packet # NoPacket /\ sstate.packet \in requests
    /\ sstate.packet \notin answers
    /\ answers' = answers \cup {sstate.packet}
    /\ UNCHANGED <<written, process, attended, wstate, requests, sstate, receiving, faults, journalVars>>

AnswerAgain ==
    /\ receiving = NotReceiving /\ Live
    /\ sstate.packet # NoPacket /\ sstate.packet \in requests
    /\ sstate.packet \notin answers
    /\ answers' = answers \cup {sstate.packet}
    /\ UNCHANGED <<written, process, attended, wstate, requests, sstate, receiving, faults, journalVars>>

BeginReceive ==
    /\ receiving = NotReceiving /\ Bound
    /\ \E p \in requests :
          /\ p # sstate.packet /\ Follows(p)
          /\ receiving' = [at |-> "feed", packet |-> p, fed |-> p.page.start,
                           importer |-> sstate.importer]
    /\ UNCHANGED <<written, process, attended, wstate, requests, answers, sstate, faults, journalVars>>

(* JsonlImporter::feed and finish: a line is a record once its end is
   there; what is no metric is a diagnostic under its number. *)
LineEvent(number, line) ==
    IF line \in Invalid
      THEN [id |-> <<"invalid", number, line>>, body |-> [kind |-> "diagnostic", name |-> Nobody, value |-> 0]]
      ELSE [id |-> <<"archive", 0, line>>, body |-> [kind |-> "metrics", name |-> line, value |-> 0]]

\* append_import is one transaction per chunk of the page.
Feed ==
    /\ receiving.at = "feed" /\ receiving.fed < receiving.packet.page.next
    /\ LET unit == File[receiving.fed + 1]
           number == receiving.importer.number + 1
       IN IF unit.last
            THEN /\ Ingest(<<LineEvent(number, unit.line)>>)
                 /\ receiving' = [receiving EXCEPT !.fed = @ + 1,
                                     !.importer = [chunk |-> <<>>, number |-> number]]
            ELSE /\ receiving' = [receiving EXCEPT !.fed = @ + 1, !.importer.chunk = <<unit.line>>]
                 /\ UNCHANGED journalVars
    /\ UNCHANGED <<written, process, attended, wstate, requests, answers, sstate, faults>>

\* The last page may end in a line without its end: finish makes it a record.
FinishImport ==
    /\ receiving.at = "feed" /\ receiving.fed = receiving.packet.page.next
    /\ IF receiving.packet.page.complete /\ receiving.importer.chunk # <<>>
         THEN Ingest(<<LineEvent(receiving.importer.number + 1, receiving.importer.chunk[1])>>)
         ELSE UNCHANGED journalVars
    /\ receiving' = [receiving EXCEPT !.at = "lifecycle"]
    /\ UNCHANGED <<written, process, attended, wstate, requests, answers, sstate, faults>>

\* Mutant: the journal is said to be drained when the process has finished.
EarlyLifecycle(p) == IF p.phase = "finished" THEN "ended" ELSE "lifecycle"

(* The lifecycle of the packet is named by the packet.  METRICS_DRAINED is
   said only with the last page of a finished process. *)
LifecycleKind(p) == IF p.page.complete THEN "ended" ELSE "lifecycle"

AppendLifecycle ==
    /\ receiving.at = "lifecycle"
    /\ Ingest(<<[id |-> <<"cloud", receiving.packet.sequence, Nobody>>,
                 body |-> [kind |-> LifecycleKind(receiving.packet), name |-> Nobody,
                           value |-> receiving.packet.sequence]]>>)
    /\ receiving' = [receiving EXCEPT !.at = "save"]
    /\ UNCHANGED <<written, process, attended, wstate, requests, answers, sstate, faults>>

\* How far the server came is saved last; then it answers.
SaveExchange ==
    /\ receiving.at = "save" /\ Live
    /\ sstate' = [sequence |-> receiving.packet.sequence, packet |-> receiving.packet,
                  cursor |-> receiving.packet.page.next, importer |-> receiving.importer,
                  complete |-> receiving.packet.page.complete]
    /\ answers' = answers \cup {receiving.packet}
    /\ receiving' = NotReceiving
    /\ UNCHANGED <<written, process, attended, wstate, requests, faults, journalVars>>

Faulty == faults < MaxFaults /\ faults' = faults + 1

\* The server stops, or a step fails: what was committed stays.
StopReceive ==
    /\ receiving # NotReceiving /\ Faulty
    /\ receiving' = NotReceiving
    /\ UNCHANGED <<written, process, attended, wstate, requests, answers, sstate, journalVars>>

\* An answer is lost on the way.
LoseAnswer ==
    /\ Faulty
    /\ \E p \in answers : answers' = answers \ {p}
    /\ UNCHANGED <<written, process, attended, wstate, requests, sstate, receiving, journalVars>>

Receiving == BeginReceive \/ Feed \/ FinishImport \/ AppendLifecycle \/ SaveExchange
Collecting == BuildPacket \/ SendPacket \/ Acknowledged
ExchangeNext ==
    \/ Write \/ EndProcess \/ Collecting \/ SenderLeaves \/ Synchronize
    \/ AnswerAgain \/ Receiving \/ StopReceive \/ LoseAnswer

\* What else happens to the Run and its scope meanwhile.
ScopeMovesOn ==
    /\ (\E b \in Bindings : Bind(b)) \/ OpenScope \/ ProviderEnds \/ (\E name \in {"run", "parent"} : Mark(name))
    /\ UNCHANGED exchangeVars
ExchangeSpec ==
    JournalInit /\ ExchangeInit /\ [][ExchangeNext \/ ScopeMovesOn]_<<journalVars, exchangeVars>>

------------
\* The lines of the file, in order, and each metric once; the last one may be without its end.
WithLine(seen, line) == IF line \in ToSet(seen) \ Invalid THEN seen ELSE Append(seen, line)
WholeLines ==
    LET lines[n \in 0..Len(File)] ==
            IF n = 0 THEN <<>>
            ELSE IF File[n].last THEN WithLine(lines[n - 1], File[n].line) ELSE lines[n - 1]
    IN  lines
Lines(n) ==
    IF n > 0 /\ n = Len(File) /\ ~File[n].last THEN WithLine(WholeLines[n], File[n].line) ELSE WholeLines[n]

\* The lines a journal has, in its order.
ToldBy(rows) ==
    LET lines[n \in 0..Len(rows)] ==
            IF n = 0 THEN <<>>
            ELSE IF rows[n].body.kind \in {"metrics", "diagnostic"} THEN Append(lines[n - 1], rows[n].id[3])
            ELSE lines[n - 1]
    IN  lines[Len(rows)]
Told == ToldBy(journal)

(* The journal follows the file: its records are the lines of the file, in
   the order of the file and each metric once, whatever was sent or fed
   twice, and wherever a page cut a line. *)
JournalFollowsFile == IsPrefix(Told, Lines(written))

(* A journal that says it is drained has every line of the file. *)
DrainedIsWhole == Ended => process = "finished" /\ Told = Lines(written)

(* The two sides are never more than one packet apart, and the Worker
   never counts a page as received that the server has not saved. *)
OnePacketApart ==
    /\ wstate.sequence <= sstate.sequence /\ sstate.sequence <= wstate.sequence + 1
    /\ wstate.cursor <= sstate.cursor
    /\ sstate.sequence = wstate.sequence + 1 => wstate.pending = sstate.packet

(* The journal has the lines of the file in their order, all of them when
   it says so, and the two sides are never more than one packet apart. *)
ExchangeIsWhole == JournalFollowsFile /\ DrainedIsWhole /\ OnePacketApart
=============================================================================

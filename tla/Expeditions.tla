------------------------------ MODULE Expeditions -------------------------------
(***************************************************************************)
(* Several sessions of paintress mcp call next_issue, append_journal and   *)
(* update_gradient on one project.  Each session serves one call at a      *)
(* time; nothing orders the calls of two sessions.  append_journal writes  *)
(* journal/NNN.md, appends to pr-index.jsonl and emits                     *)
(* expedition.completed, in this order; update_gradient reads the level    *)
(* from the event log and emits a new absolute level.  What an append to   *)
(* the event log can come to is what module EventLog shows.                *)
(***************************************************************************)
EXTENDS Integers

CONSTANTS Session,    \* the mcp processes
          Issue,      \* issue ids of the configured issue source
          MaxCalls,   \* bound on the calls of all sessions
          Broken,     \* a journal file whose writing was cut off
          Nil

\* Expedition numbers and event ids grow by calls only.
Num   == 1 .. MaxCalls
\* pr: the report has a pr_url, neither "" nor "none".
Report == [exp : Num, issue : Issue, pr : BOOLEAN]
\* What a session was told to do, and a gradient.changed event.  seen and
\* raced are for the properties.
Task   == [exp : Num, issue : Issue, seen : SUBSET Report]
Change == [id : Nat, delta : {-1, 1}, level : Int, raced : BOOLEAN]

ASSUME ExpeditionsAssumption ==
  /\ MaxCalls \in Nat
  /\ {Nil, Broken} \cap Report = {}
  /\ Nil \notin Change
  /\ Nil # Broken

VARIABLES
  journal,    \* journal/NNN.md per number: a Report, Broken or Nil
  index,      \* the reports ReadPRIndex finds in pr-index.jsonl
  torn,       \* pr-index.jsonl ends in a partial line
  glued,      \* reports appended to a partial line: ReadPRIndex skips them
  completed,  \* expedition.completed events in the log
  hidden,     \* those appended behind a partial line of the log
  levels,     \* gradient.changed events in the log
  clock,      \* the timestamp of the next gradient.changed event
  exPc,         \* where each session is in its call
  task,       \* per session: what its last next_issue said, or Nil
  report,     \* per session: the argument of its append_journal
  change,     \* per session: the gradient.changed event being made
  calls,      \* how many calls were made
  acked       \* history: reports answered "event-store+filesystem"

recordVars    == <<journal, index, torn, glued>>
eventVars   == <<completed, hidden, levels, clock>>
sessionVars == <<exPc, task, report, change, calls>>
exVars        == <<recordVars, eventVars, sessionVars, acked>>

ExSteps    == {"idle", "journal", "index", "emit", "loaded", "stamped"}

ExInit ==
  /\ journal = [n \in Num |-> Nil]
  /\ index = {}
  /\ torn = FALSE
  /\ glued = {}
  /\ completed = {}
  /\ hidden = {}
  /\ levels = {}
  /\ clock = 1
  /\ exPc = [s \in Session |-> "idle"]
  /\ task = [s \in Session |-> Nil]
  /\ report = [s \in Session |-> Nil]
  /\ change = [s \in Session |-> Nil]
  /\ calls = 0
  /\ acked = {}

Call == calls < MaxCalls /\ calls' = calls + 1

Proceed(s, label) ==
  /\ exPc' = [exPc EXCEPT ![s] = label]
  /\ UNCHANGED report

\* The call is answered.
Answer(s) ==
  /\ exPc' = [exPc EXCEPT ![s] = "idle"]
  /\ report' = [report EXCEPT ![s] = Nil]

-----------------------------------------------------------------------------
\* Mutant of IsNextNumber: the greatest indexed expedition itself.
IsLastNumber(n) ==
  /\ \A r \in index : r.exp <= n
  /\ IF index = {} THEN n = 1 ELSE \E r \in index : r.exp = n

\* The greatest indexed expedition and one.
IsNextNumber(n) ==
  /\ \A r \in index : r.exp < n
  /\ n = 1 \/ \E r \in index : r.exp + 1 = n

\* next_issue, and the session's choice of an issue that is not completed.
\* seen, for the properties, is the index it was made from.
NextIssue(s) ==
  /\ exPc[s] = "idle"
  /\ Call
  /\ \E n \in Num, i \in Issue :
       /\ IsNextNumber(n)
       /\ \A r \in index : r.issue # i
       /\ task' = [task EXCEPT ![s] = [exp |-> n, issue |-> i, seen |-> index]]
  /\ UNCHANGED <<recordVars, eventVars, exPc, report, change, acked>>

\* Mutant of AppendJournal: expedition is not checked to be positive.
AppendJournalUnchecked(s) ==
  /\ exPc[s] = "idle"
  /\ task[s] # Nil
  /\ Call
  /\ \E pr \in BOOLEAN, n \in {0, task[s].exp} :
       report' = [report EXCEPT ![s] = [exp |-> n, issue |-> task[s].issue, pr |-> pr]]
  /\ exPc' = [exPc EXCEPT ![s] = "journal"]
  /\ UNCHANGED <<recordVars, eventVars, task, change, acked>>

\* append_journal of the session's task, with a pull request or without; it
\* may be another try after an answer that was not a full success.
AppendJournal(s) ==
  /\ exPc[s] = "idle"
  /\ task[s] # Nil
  /\ Call
  /\ \E pr \in BOOLEAN :
       report' = [report EXCEPT ![s] =
                    [exp |-> task[s].exp, issue |-> task[s].issue, pr |-> pr]]
  /\ exPc' = [exPc EXCEPT ![s] = "journal"]
  /\ UNCHANGED <<recordVars, eventVars, task, change, acked>>

Unwritten == UNCHANGED journal
CutOff(r) == journal' = [journal EXCEPT ![r.exp] = Broken]
Written(r) == journal' = [journal EXCEPT ![r.exp] = r]

\* WriteJournal truncates the file of that number and writes it anew.
WriteJournal(s) ==
  /\ exPc[s] = "journal"
  /\ \/ Written(report[s]) /\ Proceed(s, "index")
     \/ (Unwritten \/ CutOff(report[s])) /\ Answer(s)
  /\ UNCHANGED <<index, torn, glued, eventVars, task, change, calls, acked>>

\* A line is appended to pr-index.jsonl: the whole of it,
IndexLine(r) ==
  /\ torn' = FALSE
  /\ IF torn THEN glued' = glued \cup {r} /\ UNCHANGED index
             ELSE index' = index \cup {r} /\ UNCHANGED glued

\* or, the disk being full or the process killed, none or a part of it.
IndexCut == torn' \in {torn, TRUE} /\ UNCHANGED <<index, glued>>

\* Mutant of WritePRIndex: an index that cannot be written is no error.
WritePRIndexSilent(s) ==
  /\ exPc[s] = "index"
  /\ IF report[s].pr THEN IndexLine(report[s]) \/ IndexCut
                     ELSE UNCHANGED <<index, torn, glued>>
  /\ Proceed(s, "emit")
  /\ UNCHANGED <<journal, eventVars, task, change, calls, acked>>

\* WritePRIndex; a report without a pull request leaves no entry.
WritePRIndex(s) ==
  /\ exPc[s] = "index"
  /\ \/ /\ IF report[s].pr THEN IndexLine(report[s]) ELSE UNCHANGED <<index, torn, glued>>
        /\ Proceed(s, "emit")
     \/ report[s].pr /\ IndexCut /\ Answer(s)
  /\ UNCHANGED <<journal, eventVars, task, change, calls, acked>>

\* What the append of expedition.completed did to the log.
Recorded(r)   == completed' = completed \cup {r} /\ UNCHANGED hidden
Hidden(r)     == hidden' = hidden \cup {r} /\ UNCHANGED completed
Unrecorded    == UNCHANGED <<completed, hidden>>

\* EmitCompleteExpedition.  It fails for a status CompleteExpedition does not
\* know and when Append fails, the event then being in the log or not.
EmitCompleteExpedition(s) ==
  /\ exPc[s] = "emit"
  /\ \/ /\ Recorded(report[s]) \/ Hidden(report[s])
        /\ task' = [task EXCEPT ![s] = Nil]
        /\ acked' = acked \cup {report[s]}
     \/ /\ Recorded(report[s]) \/ Hidden(report[s]) \/ Unrecorded
        /\ UNCHANGED <<task, acked>>
  /\ Answer(s)
  /\ UNCHANGED <<recordVars, levels, clock, change, calls>>

-----------------------------------------------------------------------------
\* Mutant of Level: ProjectState applies the events in another order.
OldestLevel(l) ==
  IF levels = {} THEN l = 0
  ELSE \E e \in levels : e.level = l /\ \A f \in levels : e.id <= f.id

\* l is the gradient level ProjectState makes of the log: events are applied
\* in the order of their timestamps, and each carries an absolute level.
Level(l) ==
  IF levels = {} THEN l = 0
  ELSE \E e \in levels : e.level = l /\ \A f \in levels : f.id <= e.id

Levels == {e.level : e \in levels} \cup {0}

\* update_gradient reads the log and adds its delta.
LoadGradient(s) ==
  /\ exPc[s] = "idle"
  /\ Call
  /\ \E delta \in {-1, 1}, l \in Levels :
       /\ Level(l)
       /\ change' = [change EXCEPT ![s] =
                       [id |-> 0, delta |-> delta, level |-> l + delta, raced |-> FALSE]]
  /\ exPc' = [exPc EXCEPT ![s] = "loaded"]
  /\ UNCHANGED <<recordVars, eventVars, task, report, acked>>

\* EmitGradientChange makes the event,
MakeGradientChange(s) ==
  /\ exPc[s] = "loaded"
  /\ change' = [change EXCEPT ![s] =
                  [id |-> clock, delta |-> change[s].delta,
                   level |-> change[s].level, raced |-> change[s].raced]]
  /\ clock' = clock + 1
  /\ Proceed(s, "stamped")
  /\ UNCHANGED <<recordVars, completed, hidden, levels, task, calls, acked>>

\* and appends it.  A session that has read the log and not yet appended is
\* raced by this.
LevelLine(s) ==
  /\ levels' = levels \cup {change[s]}
  /\ change' = [t \in Session |->
       IF t = s \/ change[t] = Nil THEN Nil
       ELSE [id |-> change[t].id, delta |-> change[t].delta,
             level |-> change[t].level, raced |-> TRUE]]

NoLevelLine(s) == change' = [change EXCEPT ![s] = Nil] /\ UNCHANGED levels

\* The line may be hidden behind a partial one, or written although fsync
\* fails.
AppendGradientChange(s) ==
  /\ exPc[s] = "stamped"
  /\ LevelLine(s) \/ NoLevelLine(s)
  /\ Answer(s)
  /\ UNCHANGED <<recordVars, completed, hidden, clock, task, calls, acked>>

-----------------------------------------------------------------------------
\* What a process that dies inside a call leaves behind.
LeftBehind(s) ==
  \/ /\ exPc[s] = "journal"
     /\ CutOff(report[s]) \/ Written(report[s])
     /\ UNCHANGED <<index, torn, glued, eventVars>>
     /\ NoLevelLine(s)
  \/ /\ exPc[s] = "index" /\ report[s].pr
     /\ IndexLine(report[s]) \/ IndexCut
     /\ UNCHANGED <<journal, eventVars>>
     /\ NoLevelLine(s)
  \/ /\ exPc[s] = "emit"
     /\ Recorded(report[s]) \/ Hidden(report[s])
     /\ UNCHANGED <<recordVars, levels, clock>>
     /\ NoLevelLine(s)
  \/ /\ exPc[s] = "stamped"
     /\ LevelLine(s)
     /\ UNCHANGED <<recordVars, completed, hidden, clock>>
  \/ /\ NoLevelLine(s)
     /\ UNCHANGED <<recordVars, eventVars>>

DieCalling(s) ==
  /\ LeftBehind(s)
  /\ task' = [task EXCEPT ![s] = Nil]
  /\ Answer(s)
  /\ UNCHANGED <<calls, acked>>

GoOn(s) ==
  \/ WriteJournal(s) \/ WritePRIndex(s) \/ EmitCompleteExpedition(s)
  \/ MakeGradientChange(s) \/ AppendGradientChange(s)

ExNext ==
  \E s \in Session :
    \/ NextIssue(s) \/ AppendJournal(s) \/ LoadGradient(s)
    \/ GoOn(s) \/ DieCalling(s)

ExSpec == ExInit /\ [][ExNext]_exVars

-----------------------------------------------------------------------------
ExTypeOK ==
  /\ journal \in [Num -> Report \cup {Broken, Nil}]
  /\ index \subseteq Report
  /\ torn \in BOOLEAN
  /\ glued \subseteq Report
  /\ completed \subseteq Report
  /\ hidden \subseteq Report
  /\ levels \subseteq Change
  /\ clock \in Nat \ {0}
  /\ exPc \in [Session -> ExSteps]
  /\ task \in [Session -> Task \cup {Nil}]
  /\ report \in [Session -> Report \cup {Nil}]
  /\ change \in [Session -> Change \cup {Nil}]
  /\ calls \in 0 .. MaxCalls
  /\ acked \subseteq Report

\* Files before events: whatever crashes or fails, an expedition.completed
\* event has its journal file and, with a pull request, its index line; so has
\* an index line its journal file, and a full acknowledgement its event.
FilesBeforeEvents ==
  /\ acked \subseteq completed \cup hidden
  /\ \A r \in completed \cup hidden : r.pr => r \in index \cup glued
  /\ \A r \in completed \cup hidden \cup index \cup glued : journal[r.exp] # Nil

\* The journal of an indexed expedition is overwritten only by a session that
\* had asked for its number before the index line was readable: asking first
\* and reporting afterwards, one at a time, destroys no such report, whoever
\* crashes in between.
ReportsKept ==
  [][\A r \in index :
       journal[r.exp] = r /\ journal'[r.exp] # r =>
         \E s \in Session : /\ exPc[s] = "journal"
                            /\ task[s].exp = r.exp
                            /\ r \notin task[s].seen]_exVars

\* No delta is lost between two successive gradient.changed events unless the
\* two update_gradient calls overlapped: the later level is the earlier one
\* changed by its delta.
DeltasAddUp ==
  \A e, f \in levels :
    e.id < f.id /\ (\A g \in levels : g.id <= e.id \/ g.id >= f.id) =>
      f.level = e.level + f.delta \/ e.raced \/ f.raced

\* What makes these inductive.  A call has done what it has got past,
CallInv ==
  \A s \in Session :
    /\ exPc[s] = "journal" => /\ task[s] # Nil
                            /\ report[s] # Nil
                            /\ report[s].exp = task[s].exp
    /\ exPc[s] \in {"index", "emit"} => report[s] # Nil /\ journal[report[s].exp] # Nil
    /\ exPc[s] = "emit" /\ report[s].pr => report[s] \in index \cup glued
    /\ exPc[s] \in {"loaded", "stamped"} <=> change[s] # Nil
    /\ exPc[s] = "loaded" => change[s].id = 0

\* a task's number is beyond every expedition it was chosen from,
TaskInv ==
  \A s \in Session : task[s] # Nil =>
    task[s].seen \subseteq index /\ \A r \in task[s].seen : r.exp < task[s].exp

\* no two gradient.changed events have the same timestamp,
LevelIds ==
  /\ \A e, f \in levels : e.id = f.id => e = f
  /\ \A e \in levels : 0 < e.id /\ e.id < clock
  /\ \A s \in Session : exPc[s] = "stamped" =>
       /\ 0 < change[s].id /\ change[s].id < clock
       /\ \A e \in levels : e.id # change[s].id
       /\ \A t \in Session : exPc[t] = "stamped" /\ change[t].id = change[s].id => t = s

\* and an unraced change is made from the last level and comes after it.
UnracedInv ==
  \A s \in Session : change[s] # Nil =>
    \/ change[s].raced
    \/ /\ Level(change[s].level - change[s].delta)
       /\ exPc[s] = "stamped" => \A e \in levels : e.id < change[s].id

LevelInv == LevelIds /\ UnracedInv /\ DeltasAddUp

ExpeditionsInv ==
  ExTypeOK /\ FilesBeforeEvents /\ CallInv /\ TaskInv /\ LevelInv

\* docs/expedition-directory.md: journal/ is "Permanent knowledge".  A report
\* acknowledged as persisted stays in its file.
PermanentKnowledge ==
  [][\A r \in acked : journal[r.exp] = r => journal'[r.exp] = r]_exVars

=============================================================================

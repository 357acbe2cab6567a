------------------------------- MODULE EventLog --------------------------------
(***************************************************************************)
(* The append-only event store of internal/eventsource, written by many    *)
(* processes with no lock between them: SessionRecorders, which number     *)
(* their events from the SQLite counter seq.db, and the emitters of the    *)
(* MCP sessions, whose events carry the aggregate's own counter or no      *)
(* number.  An event's id stands for its identity and its timestamp: ids   *)
(* grow in the order events are created, the order LoadAll returns.        *)
(***************************************************************************)
EXTENDS Naturals, FiniteSets

CONSTANTS Recorder,   \* sessions with a SessionRecorder and a SeqCounter
          Emitter,    \* sessions of paintress mcp
          MaxEvent,   \* bound on the events ever created
          MaxTear,    \* bound on the partial lines left behind
          Callers,    \* bound on the goroutines recording in one session
          None

Proc  == Recorder \cup Emitter
Id    == 1 .. MaxEvent
\* by is None for system.cutover, which belongs to no session.
Event == [id : Id, by : Proc \cup {None}, seq : Nat, cause : 0 .. MaxEvent]

ASSUME EventLogAssumption ==
  /\ Recorder \cap Emitter = {}
  /\ MaxEvent \in Nat
  /\ MaxTear \in Nat
  /\ Callers \in Nat
  /\ None \notin Event
  /\ None \notin Proc

VARIABLES
  log,      \* the events LoadAll returns
  torn,     \* the file ends in a partial line, without its newline
  counter,  \* next_seq of seq.db
  clock,    \* the id of the next event
  made,     \* per recorder: events created and not yet recorded
  draft,    \* per process: the event inside Record or emit, or None
  prev,     \* per process: prevID, 0 for ""
  local,    \* per emitter: seqNr of its ExpeditionAggregate
  failed,   \* history: events whose Append returned an error
  glued,    \* history: events written onto a partial line, unreadable
  tears     \* history: how often a partial line was left behind

fileVars    == <<log, torn, glued, tears>>
processVars == <<made, draft, prev, local>>
vars        == <<fileVars, counter, clock, processVars, failed>>

\* Mutant of Init: next_seq INTEGER NOT NULL DEFAULT 0.
InitAtZero ==
  /\ log = {}
  /\ torn = FALSE
  /\ counter = 0
  /\ clock = 1
  /\ made = [p \in Proc |-> {}]
  /\ draft = [p \in Proc |-> None]
  /\ prev = [p \in Proc |-> 0]
  /\ local = [p \in Proc |-> 0]
  /\ failed = {}
  /\ glued = {}
  /\ tears = 0

Init ==
  /\ log = {}
  /\ torn = FALSE
  /\ counter = 1
  /\ clock = 1
  /\ made = [p \in Proc |-> {}]
  /\ draft = [p \in Proc |-> None]
  /\ prev = [p \in Proc |-> 0]
  /\ local = [p \in Proc |-> 0]
  /\ failed = {}
  /\ glued = {}
  /\ tears = 0

-----------------------------------------------------------------------------
\* What one f.Write of a line can leave in the file.
\* Mutant of WholeLine: the newline is not written with the line.
WholeLineNoNewline(e) ==
  /\ IF torn THEN glued' = glued \cup {e.id} /\ UNCHANGED log
             ELSE log' = log \cup {e} /\ UNCHANGED glued
  /\ UNCHANGED <<torn, tears>>

\* The whole line; behind a partial line it merely completes a corrupt one.
WholeLine(e) ==
  /\ torn' = FALSE
  /\ IF torn THEN glued' = glued \cup {e.id} /\ UNCHANGED log
             ELSE log' = log \cup {e} /\ UNCHANGED glued
  /\ UNCHANGED tears

\* A part of it, the disk being full or the process killed.
PartialLine ==
  /\ tears < MaxTear
  /\ torn' = TRUE
  /\ tears' = IF torn THEN tears ELSE tears + 1
  /\ UNCHANGED <<log, glued>>

\* Mutant of LastOf: the first event of the session instead of the last.
FirstOf(p, i, events) ==
  IF \E e \in events : e.by = p
  THEN /\ \E e \in events : e.by = p /\ e.id = i
       /\ \A e \in events : e.by = p => e.id >= i
  ELSE i = 0

\* i is the id of the last event of p's session as LoadAll orders events, or
\* 0 without one.
LastOf(p, i, events) ==
  IF \E e \in events : e.by = p
  THEN /\ \E e \in events : e.by = p /\ e.id = i
       /\ \A e \in events : e.by = p => e.id <= i
  ELSE i = 0

-----------------------------------------------------------------------------
\* A goroutine of a recorder's session creates an event, to be recorded.
Create(p) ==
  /\ clock <= MaxEvent
  /\ Cardinality(made[p]) < Callers
  /\ made' = [made EXCEPT ![p] = @ \cup {clock}]
  /\ clock' = clock + 1
  /\ UNCHANGED <<fileVars, counter, draft, prev, local, failed>>

\* Mutant of AllocSeqNr: the number comes from scanning the log.
AllocFromLog(p, i) ==
  /\ draft[p] = None
  /\ i \in made[p]
  /\ made' = [made EXCEPT ![p] = @ \ {i}]
  /\ LET latest == CHOOSE s \in 0 .. MaxEvent :
                     /\ s = 0 \/ \E e \in log : e.seq = s
                     /\ \A e \in log : e.seq <= s
     IN  draft' = [draft EXCEPT ![p] =
                     [id |-> i, by |-> p, seq |-> latest + 1, cause |-> prev[p]]]
  /\ counter' = counter + 1
  /\ UNCHANGED <<fileVars, clock, prev, local, failed>>

\* Record takes the mutex, sets CausationID and draws the global number; an
\* error of the counter ends the call with nothing written.
AllocSeqNr(p, i) ==
  /\ draft[p] = None
  /\ i \in made[p]
  /\ made' = [made EXCEPT ![p] = @ \ {i}]
  /\ \/ /\ draft' = [draft EXCEPT ![p] =
                      [id |-> i, by |-> p, seq |-> counter, cause |-> prev[p]]]
        /\ counter' = counter + 1
     \/ UNCHANGED <<draft, counter>>
  /\ UNCHANGED <<fileVars, clock, prev, local, failed>>

\* A tool of the MCP server: the aggregate creates the event, with its next
\* number (nextEvent) or, for expedition.completed, none (NewEvent).
Emit(p) ==
  /\ clock <= MaxEvent
  /\ draft[p] = None
  /\ \E numbered \in BOOLEAN :
       LET n == local[p] + 1 IN
       /\ draft' = [draft EXCEPT ![p] =
                     [id |-> clock, by |-> p, seq |-> IF numbered THEN n ELSE 0,
                      cause |-> prev[p]]]
       /\ local' = [local EXCEPT ![p] = IF numbered THEN n ELSE @]
  /\ clock' = clock + 1
  /\ UNCHANGED <<fileVars, counter, made, prev, failed>>

\* Append returns nil and the event becomes the next one's cause.
Append(p) ==
  /\ draft[p] # None
  /\ WholeLine(draft[p])
  /\ prev' = [prev EXCEPT ![p] = draft[p].id]
  /\ draft' = [draft EXCEPT ![p] = None]
  /\ UNCHANGED <<counter, clock, made, local, failed>>

\* Mutant of AppendFails: the chain moves on although the append failed.
AppendFailsAdvances(p) ==
  /\ draft[p] # None
  /\ WholeLine(draft[p]) \/ PartialLine \/ UNCHANGED fileVars
  /\ failed' = failed \cup {draft[p].id}
  /\ prev' = [prev EXCEPT ![p] = draft[p].id]
  /\ draft' = [draft EXCEPT ![p] = None]
  /\ UNCHANGED <<counter, clock, made, local>>

\* Append returns an error: of open or write, or of fsync or close when the
\* line is already there.  prevID stays.
AppendFails(p) ==
  /\ draft[p] # None
  /\ WholeLine(draft[p]) \/ PartialLine \/ UNCHANGED fileVars
  /\ failed' = failed \cup {draft[p].id}
  /\ draft' = [draft EXCEPT ![p] = None]
  /\ UNCHANGED <<counter, clock, made, prev, local>>

\* The process dies, possibly inside Append, and its session goes on in a new
\* one: NewSessionRecorder resumes the chain from the log, an MCP session has
\* a fresh aggregate and emitter.
Restart(p) ==
  /\ \/ UNCHANGED fileVars
     \/ draft[p] # None /\ (WholeLine(draft[p]) \/ PartialLine)
  /\ made' = [made EXCEPT ![p] = {}]
  /\ draft' = [draft EXCEPT ![p] = None]
  /\ \E i \in 0 .. MaxEvent :
       /\ IF p \in Recorder THEN LastOf(p, i, log') ELSE i = 0
       /\ prev' = [prev EXCEPT ![p] = i]
  /\ local' = [local EXCEPT ![p] = 0]
  /\ UNCHANGED <<counter, clock, failed>>

Next ==
  \/ \E p \in Recorder : Create(p) \/ \E i \in Id : AllocSeqNr(p, i)
  \/ \E p \in Emitter : Emit(p)
  \/ \E p \in Proc : Append(p) \/ AppendFails(p) \/ Restart(p)

Spec == Init /\ [][Next]_vars

-----------------------------------------------------------------------------
TypeOK ==
  /\ log \subseteq Event
  /\ torn \in BOOLEAN
  /\ counter \in Nat \ {0}
  /\ clock \in 1 .. MaxEvent + 1
  /\ made \in [Proc -> SUBSET Id]
  /\ draft \in [Proc -> Event \cup {None}]
  /\ prev \in [Proc -> 0 .. MaxEvent]
  /\ local \in [Proc -> Nat]
  /\ failed \subseteq Id
  /\ glued \subseteq Id
  /\ tears \in 0 .. MaxTear

\* Events written or about to be.
Known == log \cup {draft[p] : p \in {q \in Proc : draft[q] # None}}
Numbered(events) == {e \in events : e.by \notin Emitter}

\* The counter's numbers are globally unique among the events that carry one,
\* whichever processes run, die, fail or retry, and below the counter.
SeqUnique ==
  /\ \A e, f \in Numbered(Known) : e.seq = f.seq => e = f
  /\ \A e \in Numbered(Known) : 0 < e.seq /\ e.seq < counter

\* A CausationID names an event of the same session that was written before,
\* with a smaller number.  It may have become unreadable, but it never is one
\* whose line was not written.
CauseKnown ==
  \A e \in Numbered(log) : e.cause # 0 =>
    \/ e.cause \in glued
    \/ \E c \in log : c.id = e.cause /\ c.by = e.by /\ c.seq < e.seq

\* A session's chain of causes forks only behind an event whose append was
\* reported failed though it was written, or at an event created before its
\* own cause (its goroutine was overtaken), which a resumed recorder does not
\* take for the last one.
NoSilentFork ==
  \A e, f \in Numbered(log) :
    e.by # None /\ e.by = f.by /\ e.cause = f.cause /\ e.seq < f.seq =>
      e.id \in failed \/ e.id < e.cause

\* What makes the three inductive.  An id is given out once:
IdUnique ==
  /\ \A e, f \in Known : e.id = f.id => e = f
  /\ \A e \in Known : e.id < clock /\ e.id \notin glued
  /\ \A p \in Proc : \A i \in made[p] :
       /\ i < clock /\ i \notin glued
       /\ \A e \in Known : e.id # i
       /\ \A q \in Proc : i \in made[q] => q = p
  /\ \A i \in glued : i < clock

\* an event being recorded is its session's last and not in the log yet;
DraftInv ==
  \A p \in Proc : draft[p] # None =>
    /\ draft[p].by = p
    /\ draft[p] \notin log
    /\ draft[p].cause = prev[p]
    /\ p \in Recorder => \A e \in log : e.by = p => e.seq < draft[p].seq

\* prevID is an event of the session, and the end of its chain.
PrevInv ==
  \A p \in Recorder :
    /\ prev[p] # 0 =>
         prev[p] \in glued \/ \E c \in log : c.id = prev[p] /\ c.by = p
    /\ \A e \in log : e.by = p /\ e.cause = prev[p] => e.id \in failed \/ e.id < prev[p]

LogInv ==
  /\ TypeOK /\ SeqUnique /\ CauseKnown /\ NoSilentFork
  /\ IdUnique /\ DraftInv /\ PrevInv

\* A partial line costs at most one later event.
OneLossPerTear == Cardinality(glued) + (IF torn THEN 1 ELSE 0) <= tears

=============================================================================

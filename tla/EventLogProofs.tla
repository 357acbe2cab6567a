---------------------------- MODULE EventLogProofs -----------------------------
(***************************************************************************)
(* Proofs about the event log and its snapshots, for every number of       *)
(* recorders, emitters, rebuilds, events and partial lines.  Three actions *)
(* end a write (Append, AppendFails, Restart); what they do to the file is *)
(* dealt with once, in the lemmas about Written.                           *)
(***************************************************************************)
EXTENDS Snapshots, FiniteSetTheorems, TLAPS

\* What becomes of the line of event d: read back, glued to a partial line, or
\* not written.
Written(d) ==
  \/ log' = log \cup {d} /\ glued' = glued
  \/ log' = log /\ glued' = glued \cup {d.id}
  \/ log' = log /\ glued' = glued

\* The part the three actions share: p's event leaves draft.
Settles(p, d) ==
  /\ draft[p] # None
  /\ d = draft[p]
  /\ Written(d)
  /\ draft' = [draft EXCEPT ![p] = None]
  /\ \A q \in Proc : made'[q] \subseteq made[q]
  /\ counter' = counter /\ clock' = clock
  /\ failed \subseteq failed'

\* An Event is no None, and its fields have the types they should.
LEMMA EventFacts ==
  ASSUME NEW e \in Event
  PROVE  e # None /\ e.id \in Id /\ e.id # 0 /\ e.seq \in Nat /\ e.cause \in 0 .. MaxEvent
BY EventLogAssumption DEF Event, Id

\* Settling an event adds none.
LEMMA KnownShrinks ==
  ASSUME TypeOK, NEW p \in Proc, NEW d, Settles(p, d)
  PROVE  Known' \subseteq Known /\ d \in Known /\ d \in Event
<1>1. d \in Known /\ d \in Event
  BY DEF Settles, Known, TypeOK
<1>2. log' \subseteq log \cup {d}
  BY DEF Settles, Written
<1>3. ASSUME NEW q \in Proc, draft'[q] # None
      PROVE  q # p /\ draft'[q] = draft[q]
  BY <1>3 DEF Settles, TypeOK
<1>4. ASSUME NEW e \in Known' PROVE e \in Known
  <2>1. CASE e \in log'
    BY <1>1, <1>2, <2>1 DEF Known
  <2>2. CASE e \notin log'
    <3>1. PICK q \in Proc : draft'[q] # None /\ e = draft'[q]
      BY <1>4, <2>2 DEF Known
    <3> QED BY <1>3, <3>1 DEF Known
  <2> QED BY <2>1, <2>2
<1> QED BY <1>1, <1>4

\* Settling keeps numbers and ids unique.
LEMMA SettlesUnique ==
  ASSUME TypeOK, SeqUnique, IdUnique, DraftInv, NEW p \in Proc, NEW d, Settles(p, d)
  PROVE  SeqUnique' /\ IdUnique'
<1>1. Known' \subseteq Known /\ d \in Known /\ d \in Event
  BY KnownShrinks
<1>2. counter' = counter /\ clock' = clock /\ Written(d)
      /\ \A q \in Proc : made'[q] \subseteq made[q]
  BY DEF Settles
<1>3. SeqUnique'
  BY <1>1, <1>2 DEF SeqUnique, Numbered
<1>4. d.id < clock /\ d.id \notin glued /\ \A q \in Proc : d.id \notin made[q]
  BY <1>1 DEF IdUnique
<1>5. glued' \subseteq glued \cup {d.id}
  BY <1>2 DEF Written
<1>6. ASSUME NEW e \in Known' PROVE e.id < clock' /\ e.id \notin glued'
  <2>1. e.id < clock /\ e.id \notin glued
    BY <1>1, <1>6 DEF IdUnique
  <2>2. CASE glued' = glued \cup {d.id} /\ log' = log
    <3>1. e # d
      <4>1. d \notin log
        BY DEF Settles, DraftInv
      <4>2. CASE e \in log'
        BY <2>2, <4>1, <4>2
      <4>3. CASE e \notin log'
        <5>1. PICK q \in Proc : draft'[q] # None /\ e = draft'[q]
          BY <1>6, <4>3 DEF Known
        <5>2. q # p /\ draft'[q] = draft[q]
          BY <5>1 DEF Settles, TypeOK
        <5>3. draft[q].by = q /\ d.by = p
          BY <5>1, <5>2 DEF Settles, DraftInv
        <5> QED BY <5>1, <5>2, <5>3
      <4> QED BY <4>2, <4>3
    <3>2. e.id # d.id
      BY <1>1, <1>6, <3>1 DEF IdUnique
    <3> QED BY <1>2, <2>1, <2>2, <3>2
  <2>3. CASE glued' = glued
    BY <1>2, <2>1, <2>3
  <2> QED BY <1>2, <2>2, <2>3 DEF Written
<1>7. \A e, f \in Known' : e.id = f.id => e = f
  BY <1>1 DEF IdUnique
<1>8. ASSUME NEW q \in Proc, NEW i \in made'[q]
      PROVE  /\ i < clock' /\ i \notin glued'
             /\ \A e \in Known' : e.id # i
             /\ \A r \in Proc : i \in made'[r] => r = q
  <2>1. i \in made[q]
    BY <1>2
  <2> QED BY <1>1, <1>2, <1>4, <1>5, <2>1 DEF IdUnique
<1>9. \A i \in glued' : i < clock'
  BY <1>2, <1>4, <1>5 DEF IdUnique
<1> QED BY <1>3, <1>6, <1>7, <1>8, <1>9 DEF IdUnique

\* An event that enters the log has a known cause and forks no chain silently.
LEMMA SettlesChain ==
  ASSUME LogInv, NEW p \in Proc, NEW d, Settles(p, d)
  PROVE  CauseKnown' /\ NoSilentFork'
<1>1. d \in Known /\ d \in Event /\ Written(d) /\ failed \subseteq failed'
      /\ d = draft[p] /\ draft[p] # None
  BY KnownShrinks DEF LogInv, Settles
<1>2. d.by = p /\ d.cause = prev[p] /\ (p \in Recorder => \A e \in log : e.by = p => e.seq < d.seq)
  BY <1>1 DEF LogInv, DraftInv
<1>3. log \subseteq log' /\ glued \subseteq glued' /\ log' \subseteq log \cup {d}
  BY <1>1 DEF Written
<1>4. CauseKnown'
  <2> SUFFICES ASSUME NEW e \in log', e.by \notin Emitter, e.cause # 0
               PROVE  e.cause \in glued'
                        \/ \E c \in log' : c.id = e.cause /\ c.by = e.by /\ c.seq < e.seq
    BY DEF CauseKnown, Numbered
  <2>1. CASE e \in log
    BY <1>3, <2>1 DEF LogInv, CauseKnown, Numbered
  <2>2. CASE e = d
    <3>1. p \in Recorder
      BY <1>2, <2>2 DEF Proc
    <3>2. prev[p] \in glued \/ \E c \in log : c.id = prev[p] /\ c.by = p
      BY <1>2, <2>2, <3>1 DEF LogInv, PrevInv
    <3> QED BY <1>2, <1>3, <2>2, <3>1, <3>2
  <2> QED BY <1>3, <2>1, <2>2
<1>5. NoSilentFork'
  <2> SUFFICES ASSUME NEW e \in log', NEW f \in log', e.by \notin Emitter, f.by \notin Emitter,
                      e.by # None, e.by = f.by, e.cause = f.cause, e.seq < f.seq
               PROVE  e.id \in failed' \/ e.id < e.cause
    BY DEF NoSilentFork, Numbered
  <2>1. CASE e \in log /\ f \in log
    BY <1>1, <2>1 DEF LogInv, NoSilentFork, Numbered
  <2>2. CASE e \in log /\ f = d
    <3>1. p \in Recorder /\ e.by = p /\ e.cause = prev[p]
      BY <1>2, <2>2 DEF Proc
    <3> QED BY <1>1, <2>2, <3>1 DEF LogInv, PrevInv
  <2>3. CASE e = d /\ f \in log
    <3>1. p \in Recorder /\ f.by = p
      BY <1>2, <2>3 DEF Proc
    <3>2. f.seq < d.seq /\ d.seq < f.seq
      BY <1>2, <2>3, <3>1
    <3>3. f.seq \in Nat /\ d.seq \in Nat
      BY <1>1, <2>3, EventFacts DEF LogInv, TypeOK
    <3> QED BY <3>2, <3>3
  <2>4. CASE e = d /\ f = d
    BY <1>1, <2>4, EventFacts
  <2> QED BY <1>3, <2>1, <2>2, <2>3, <2>4
<1> QED BY <1>4, <1>5

\* The other processes do not notice.
LEMMA SettlesOthers ==
  ASSUME LogInv, NEW p \in Proc, NEW d, Settles(p, d),
         \A q \in Proc : q # p => prev'[q] = prev[q]
  PROVE  /\ DraftInv'
         /\ \A q \in Recorder : q # p =>
              /\ prev'[q] # 0 => prev'[q] \in glued' \/ \E c \in log' : c.id = prev'[q] /\ c.by = q
              /\ \A e \in log' : e.by = q /\ e.cause = prev'[q] =>
                   e.id \in failed' \/ e.id < prev'[q]
<1>1. d \in Event /\ Written(d) /\ failed \subseteq failed' /\ d = draft[p] /\ d # None
  BY KnownShrinks DEF LogInv, Settles
<1>2. d.by = p
  BY <1>1 DEF LogInv, DraftInv
<1>3. log \subseteq log' /\ glued \subseteq glued' /\ log' \subseteq log \cup {d}
  BY <1>1 DEF Written
<1>4. DraftInv'
  <2> SUFFICES ASSUME NEW q \in Proc, draft'[q] # None
               PROVE  /\ draft'[q].by = q
                      /\ draft'[q] \notin log'
                      /\ draft'[q].cause = prev'[q]
                      /\ q \in Recorder => \A e \in log' : e.by = q => e.seq < draft'[q].seq
    BY DEF DraftInv
  <2>1. q # p /\ draft'[q] = draft[q] /\ prev'[q] = prev[q]
    BY DEF Settles, LogInv, TypeOK
  <2>2. draft[q].by = q /\ draft[q] \notin log /\ draft[q].cause = prev[q]
        /\ (q \in Recorder => \A e \in log : e.by = q => e.seq < draft[q].seq)
    BY <2>1 DEF LogInv, DraftInv
  <2> QED BY <1>2, <1>3, <2>1, <2>2
<1>5. ASSUME NEW q \in Recorder, q # p
      PROVE  /\ prev'[q] # 0 => prev'[q] \in glued' \/ \E c \in log' : c.id = prev'[q] /\ c.by = q
             /\ \A e \in log' : e.by = q /\ e.cause = prev'[q] =>
                  e.id \in failed' \/ e.id < prev'[q]
  <2>1. prev'[q] = prev[q]
    BY <1>5 DEF Proc
  <2>2. \A e \in log' : e.by = q => e \in log
    BY <1>2, <1>3, <1>5
  <2> QED BY <1>1, <1>3, <1>5, <2>1, <2>2 DEF LogInv, PrevInv
<1> QED BY <1>4, <1>5

\* The invariant after a write, from what it does to the types and to the
\* chain of the process that wrote.
LEMMA SettlesLogInv ==
  ASSUME LogInv, NEW p \in Proc, NEW d, Settles(p, d), TypeOK',
         \A q \in Proc : q # p => prev'[q] = prev[q],
         p \in Recorder =>
           /\ prev'[p] # 0 => prev'[p] \in glued' \/ \E c \in log' : c.id = prev'[p] /\ c.by = p
           /\ \A e \in log' : e.by = p /\ e.cause = prev'[p] =>
                e.id \in failed' \/ e.id < prev'[p]
  PROVE  LogInv'
<1>1. SeqUnique' /\ IdUnique'
  BY SettlesUnique DEF LogInv
<1>2. CauseKnown' /\ NoSilentFork'
  BY SettlesChain
<1>3. DraftInv'
  BY SettlesOthers
<1>4. ASSUME NEW q \in Recorder
      PROVE  /\ prev'[q] # 0 => prev'[q] \in glued' \/ \E c \in log' : c.id = prev'[q] /\ c.by = q
             /\ \A e \in log' : e.by = q /\ e.cause = prev'[q] =>
                  e.id \in failed' \/ e.id < prev'[q]
  <2>1. CASE q = p
    BY <2>1
  <2>2. CASE q # p
    BY <2>2, SettlesOthers
  <2> QED BY <2>1, <2>2
<1>5. PrevInv'
  BY <1>4 DEF PrevInv
<1> QED BY <1>1, <1>2, <1>3, <1>5 DEF LogInv

\* No event of the log was caused by the one still being recorded, and none
\* by itself.
LEMMA FreshId ==
  ASSUME LogInv, NEW p \in Recorder, draft[p] # None
  PROVE  /\ \A e \in log : e.by = p => e.cause # draft[p].id
         /\ draft[p].cause # draft[p].id
<1>1. draft[p] \in Event /\ draft[p] \in Known /\ draft[p].id # 0
  BY EventFacts DEF LogInv, TypeOK, Known, Proc
<1>2. draft[p] \notin log /\ draft[p].cause = prev[p]
  BY DEF LogInv, DraftInv, Proc
<1>3. draft[p].id \notin glued
  BY <1>1 DEF LogInv, IdUnique
<1>4. \A c \in log : c.id # draft[p].id
  BY <1>1, <1>2 DEF LogInv, IdUnique, Known
<1>5. ASSUME NEW e \in log, e.by = p PROVE e.cause # draft[p].id
  <2>1. e.by \notin Emitter
    BY <1>5, EventLogAssumption
  <2> QED BY <1>1, <1>3, <1>4, <2>1 DEF LogInv, CauseKnown, Numbered
<1>6. draft[p].cause # draft[p].id
  BY <1>1, <1>2, <1>3, <1>4 DEF LogInv, PrevInv
<1> QED BY <1>5, <1>6

\* A whole line is read back or glued; a partial one is not written.
LEMMA LineFacts ==
  ASSUME TypeOK, NEW d \in Event
  PROVE  /\ WholeLine(d) => \/ log' = log \cup {d} /\ glued' = glued
                            \/ log' = log /\ glued' = glued \cup {d.id}
         /\ WholeLine(d) \/ PartialLine \/ UNCHANGED fileVars =>
              /\ Written(d)
              /\ log' \subseteq Event /\ glued' \subseteq Id
              /\ torn' \in BOOLEAN /\ tears' \in 0 .. MaxTear
<1>1. d.id \in Id
  BY EventFacts
<1>2. MaxTear \in Nat /\ tears \in 0 .. MaxTear
  BY EventLogAssumption DEF TypeOK
<1>3. ASSUME WholeLine(d)
      PROVE  /\ \/ log' = log \cup {d} /\ glued' = glued
                \/ log' = log /\ glued' = glued \cup {d.id}
             /\ torn' \in BOOLEAN /\ tears' \in 0 .. MaxTear
  BY <1>2, <1>3 DEF WholeLine
<1>4. ASSUME PartialLine \/ UNCHANGED fileVars
      PROVE  log' = log /\ glued' = glued /\ torn' \in BOOLEAN /\ tears' \in 0 .. MaxTear
  <2>1. CASE PartialLine
    BY <1>2, <2>1 DEF PartialLine
  <2>2. CASE UNCHANGED fileVars
    BY <1>2, <2>2 DEF fileVars, TypeOK
  <2> QED BY <1>4, <2>1, <2>2
<1> QED BY <1>1, <1>3, <1>4 DEF Written, TypeOK

\* A successful Append moves the draft into the log, or onto a partial line.
LEMMA AppendLogInv == ASSUME LogInv, NEW p \in Proc, Append(p) PROVE LogInv'
<1> DEFINE d == draft[p]
<1>1. d \in Event /\ d # None /\ d.id \in Id
  BY EventFacts DEF LogInv, TypeOK, Append
<1>2. WholeLine(d) /\ prev' = [prev EXCEPT ![p] = d.id] /\ draft' = [draft EXCEPT ![p] = None]
      /\ UNCHANGED <<counter, clock, made, local, failed>>
  BY DEF Append
<1>3. Settles(p, d)
  BY <1>1, <1>2, LineFacts DEF Settles, LogInv
<1>4. TypeOK'
  <2>1. log' \subseteq Event /\ glued' \subseteq Id /\ torn' \in BOOLEAN /\ tears' \in 0 .. MaxTear
    BY <1>1, <1>2, LineFacts DEF LogInv
  <2>2. prev' \in [Proc -> 0 .. MaxEvent]
    BY <1>1, <1>2 DEF LogInv, TypeOK, Id
  <2> QED BY <1>2, <2>1, <2>2 DEF LogInv, TypeOK
<1>5. prev'[p] = d.id /\ \A q \in Proc : q # p => prev'[q] = prev[q]
  BY <1>2 DEF LogInv, TypeOK
<1>6. ASSUME p \in Recorder
      PROVE  /\ prev'[p] \in glued' \/ \E c \in log' : c.id = prev'[p] /\ c.by = p
             /\ \A e \in log' : e.by = p => e.cause # prev'[p]
  <2>1. d.by = p
    BY <1>1 DEF LogInv, DraftInv
  <2>2. \/ log' = log \cup {d} /\ glued' = glued
        \/ log' = log /\ glued' = glued \cup {d.id}
    BY <1>1, <1>2, LineFacts DEF LogInv
  <2>3. (\A e \in log : e.by = p => e.cause # d.id) /\ d.cause # d.id
    BY <1>1, <1>6, FreshId
  <2> QED BY <1>5, <2>1, <2>2, <2>3
<1> QED BY <1>3, <1>4, <1>5, <1>6, SettlesLogInv

\* A failed Append leaves prevID alone, whatever it left in the file.
LEMMA AppendFailsLogInv == ASSUME LogInv, NEW p \in Proc, AppendFails(p) PROVE LogInv'
<1> DEFINE d == draft[p]
<1>1. d \in Event /\ d # None /\ d.id \in Id
  BY EventFacts DEF LogInv, TypeOK, AppendFails
<1>2. (WholeLine(d) \/ PartialLine \/ UNCHANGED fileVars)
      /\ failed' = failed \cup {d.id} /\ draft' = [draft EXCEPT ![p] = None]
      /\ UNCHANGED <<counter, clock, made, prev, local>>
  BY DEF AppendFails
<1>3. Written(d) /\ log' \subseteq Event /\ glued' \subseteq Id
      /\ torn' \in BOOLEAN /\ tears' \in 0 .. MaxTear
  BY <1>1, <1>2, LineFacts DEF LogInv
<1>4. Settles(p, d)
  BY <1>1, <1>2, <1>3 DEF Settles
<1>5. TypeOK'
  BY <1>1, <1>2, <1>3 DEF LogInv, TypeOK
<1>6. ASSUME p \in Recorder
      PROVE  /\ prev'[p] # 0 => prev'[p] \in glued' \/ \E c \in log' : c.id = prev'[p] /\ c.by = p
             /\ \A e \in log' : e.by = p /\ e.cause = prev'[p] =>
                  e.id \in failed' \/ e.id < prev'[p]
  <2>1. log \subseteq log' /\ glued \subseteq glued' /\ log' \subseteq log \cup {d}
    BY <1>3 DEF Written
  <2> QED BY <1>2, <1>6, <2>1 DEF LogInv, PrevInv
<1> QED BY <1>2, <1>4, <1>5, <1>6, SettlesLogInv

\* A resumed recorder starts at the end of its session's chain.
LEMMA ResumeAtEnd ==
  ASSUME NEW p \in Recorder, TypeOK', CauseKnown', IdUnique', LastOf(p, prev'[p], log')
  PROVE  /\ prev'[p] # 0 => \E c \in log' : c.id = prev'[p] /\ c.by = p
         /\ \A e \in log' : e.by = p /\ e.cause = prev'[p] => e.id < prev'[p]
<1>1. prev'[p] # 0 => \E c \in log' : c.id = prev'[p] /\ c.by = p
  BY DEF LastOf
<1>2. ASSUME NEW e \in log', e.by = p, e.cause = prev'[p] PROVE e.id < prev'[p]
  <2>1. e.id <= prev'[p] /\ \E c \in log' : c.by = p /\ c.id = prev'[p]
    BY <1>2 DEF LastOf
  <2>2. e \in Event /\ \A c \in log' : c \in Event /\ c \in Known'
    BY <1>2 DEF TypeOK, Known
  <2>3. e.id \in Nat /\ prev'[p] \in Nat /\ prev'[p] # 0
    BY <2>1, <2>2, EventFacts, EventLogAssumption DEF Id, TypeOK, Proc
  <2>4. e.id # prev'[p]
    <3> SUFFICES ASSUME e.id = prev'[p] PROVE FALSE
      OBVIOUS
    <3>1. e.id \notin glued'
      BY <1>2, <2>2 DEF IdUnique
    <3>2. e.by \notin Emitter
      BY <1>2, EventLogAssumption
    <3>3. PICK c \in log' : c.id = e.cause /\ c.seq < e.seq
      BY <1>2, <2>3, <3>1, <3>2 DEF CauseKnown, Numbered
    <3>4. c = e
      BY <1>2, <2>2, <3>3 DEF IdUnique
    <3> QED BY <2>2, <3>3, <3>4, EventFacts
  <2> QED BY <2>1, <2>3, <2>4
<1> QED BY <1>1, <1>2

\* Nothing changes in the log when no event was being recorded.
LEMMA IdleLogInv ==
  ASSUME LogInv, NEW p \in Proc, draft[p] = None, TypeOK',
         UNCHANGED <<log, glued, failed, counter, clock, draft>>,
         \A q \in Proc : made'[q] \subseteq made[q],
         \A q \in Proc : q # p => prev'[q] = prev[q],
         p \in Recorder => LastOf(p, prev'[p], log')
  PROVE  LogInv'
<1>1. Known' = Known
  BY DEF Known
<1>2. SeqUnique' /\ IdUnique'
  BY <1>1 DEF LogInv, SeqUnique, IdUnique, Numbered
<1>3. CauseKnown' /\ NoSilentFork'
  BY DEF LogInv, CauseKnown, NoSilentFork, Numbered
<1>4. DraftInv'
  BY DEF LogInv, DraftInv
<1>5. PrevInv'
  <2> SUFFICES ASSUME NEW q \in Recorder
               PROVE  /\ prev'[q] # 0 => prev'[q] \in glued' \/ \E c \in log' : c.id = prev'[q] /\ c.by = q
                      /\ \A e \in log' : e.by = q /\ e.cause = prev'[q] =>
                           e.id \in failed' \/ e.id < prev'[q]
    BY DEF PrevInv
  <2>1. CASE q = p
    BY <1>2, <1>3, <2>1, ResumeAtEnd
  <2>2. CASE q # p
    BY <2>2 DEF LogInv, PrevInv, Proc
  <2> QED BY <2>1, <2>2
<1> QED BY <1>2, <1>3, <1>4, <1>5 DEF LogInv

\* A restart, inside Append or not, resumes the chain where the log ends.
LEMMA RestartLogInv == ASSUME LogInv, NEW p \in Proc, Restart(p) PROVE LogInv'
<1> DEFINE d == draft[p]
<1>1. /\ UNCHANGED fileVars \/ (d # None /\ (WholeLine(d) \/ PartialLine))
      /\ made' = [made EXCEPT ![p] = {}] /\ draft' = [draft EXCEPT ![p] = None]
      /\ local' = [local EXCEPT ![p] = 0] /\ UNCHANGED <<counter, clock, failed>>
  BY DEF Restart
<1>2. PICK i \in 0 .. MaxEvent : /\ IF p \in Recorder THEN LastOf(p, i, log') ELSE i = 0
                                 /\ prev' = [prev EXCEPT ![p] = i]
  BY DEF Restart
<1>3. prev'[p] = i /\ (\A q \in Proc : q # p => prev'[q] = prev[q])
      /\ (p \in Recorder => LastOf(p, prev'[p], log'))
      /\ \A q \in Proc : made'[q] \subseteq made[q]
  BY <1>1, <1>2 DEF LogInv, TypeOK
<1>4. made' \in [Proc -> SUBSET Id] /\ draft' \in [Proc -> Event \cup {None}]
      /\ prev' \in [Proc -> 0 .. MaxEvent] /\ local' \in [Proc -> Nat]
  BY <1>1, <1>2 DEF LogInv, TypeOK
<1>5. CASE d = None
  <2>1. UNCHANGED fileVars /\ draft' = draft
    BY <1>1, <1>5 DEF LogInv, TypeOK
  <2>2. TypeOK'
    BY <1>1, <1>4, <2>1 DEF LogInv, TypeOK, fileVars
  <2> QED BY <1>1, <1>3, <1>5, <2>1, <2>2, IdleLogInv DEF fileVars
<1>6. CASE d # None
  <2>1. d \in Event
    BY <1>6 DEF LogInv, TypeOK
  <2>2. Written(d) /\ log' \subseteq Event /\ glued' \subseteq Id
        /\ torn' \in BOOLEAN /\ tears' \in 0 .. MaxTear
    BY <1>1, <2>1, LineFacts DEF LogInv
  <2>3. TypeOK'
    BY <1>1, <1>4, <2>2 DEF LogInv, TypeOK
  <2>4. Settles(p, d)
    BY <1>1, <1>3, <1>6, <2>2 DEF Settles
  <2>5. IdUnique' /\ CauseKnown'
    BY <2>4, SettlesUnique, SettlesChain DEF LogInv
  <2>6. p \in Recorder =>
          /\ prev'[p] # 0 => \E c \in log' : c.id = prev'[p] /\ c.by = p
          /\ \A e \in log' : e.by = p /\ e.cause = prev'[p] => e.id < prev'[p]
    BY <1>3, <2>3, <2>5, ResumeAtEnd
  <2> QED BY <1>3, <2>3, <2>4, <2>6, SettlesLogInv
<1> QED BY <1>5, <1>6

\* Creating an event only reserves a fresh id.
LEMMA CreateLogInv == ASSUME LogInv, NEW p \in Recorder, Create(p) PROVE LogInv'
<1>1. /\ clock <= MaxEvent /\ made' = [made EXCEPT ![p] = @ \cup {clock}] /\ clock' = clock + 1
      /\ UNCHANGED <<fileVars, counter, draft, prev, local, failed>>
  BY DEF Create
<1>2. p \in Proc /\ clock \in Nat /\ clock \in Id /\ MaxEvent \in Nat
  BY <1>1, EventLogAssumption DEF LogInv, TypeOK, Proc, Id
<1>3. Known' = Known /\ log' = log /\ glued' = glued
  BY <1>1 DEF Known, fileVars
<1>4. TypeOK'
  BY <1>1, <1>2 DEF LogInv, TypeOK, fileVars
<1>5. SeqUnique' /\ CauseKnown' /\ NoSilentFork' /\ DraftInv' /\ PrevInv'
  BY <1>1, <1>3 DEF LogInv, SeqUnique, CauseKnown, NoSilentFork, DraftInv, PrevInv, Numbered
<1>6. IdUnique'
  <2>1. \A e \in Known' : e.id \in Nat /\ e.id < clock /\ e.id \notin glued
    <3>1. \A e \in Known : e \in Event
      BY DEF Known, LogInv, TypeOK
    <3> QED BY <1>3, <3>1, EventFacts DEF LogInv, IdUnique, Id
  <2>2. \A i \in glued : i \in Nat /\ i < clock
    BY DEF LogInv, IdUnique, TypeOK, Id
  <2>3. ASSUME NEW q \in Proc, NEW i \in made'[q]
        PROVE  /\ i < clock' /\ i \notin glued'
               /\ \A e \in Known' : e.id # i
               /\ \A r \in Proc : i \in made'[r] => r = q
    <3>1. \A r \in Proc : \A j \in made[r] : j \in Nat /\ j < clock
      BY DEF LogInv, IdUnique, TypeOK, Id
    <3>2. CASE i = clock
      <4>1. \A r \in Proc : i \in made'[r] => r = p
        BY <1>1, <1>2, <3>1, <3>2 DEF LogInv, TypeOK
      <4> QED BY <1>1, <1>2, <1>3, <2>1, <2>2, <2>3, <3>2, <4>1
    <3>3. CASE i # clock
      <4>1. i \in made[q] /\ \A r \in Proc : i \in made'[r] => i \in made[r]
        BY <1>1, <1>2, <2>3, <3>3 DEF LogInv, TypeOK
      <4> QED BY <1>1, <1>2, <1>3, <3>1, <4>1 DEF LogInv, IdUnique
    <3> QED BY <3>2, <3>3
  <2> QED BY <1>1, <1>2, <1>3, <2>1, <2>2, <2>3 DEF LogInv, IdUnique
<1> QED BY <1>4, <1>5, <1>6 DEF LogInv

\* A process takes up an event with a fresh id and, if it is a recorder, with
\* the counter's number.
LEMMA TakesUp ==
  ASSUME LogInv, TypeOK', NEW p \in Proc, NEW d \in Event,
         draft[p] = None, draft' = [draft EXCEPT ![p] = d],
         d.by = p, d.cause = prev[p],
         UNCHANGED <<log, glued, failed, prev>>,
         d.id < clock', d.id \notin glued, \A e \in Known : e.id # d.id,
         \A q \in Proc : made'[q] \subseteq made[q] /\ d.id \notin made'[q],
         clock <= clock', counter <= counter',
         p \in Recorder => d.seq = counter /\ counter < counter'
  PROVE  LogInv'
<1>1. Known' \subseteq Known \cup {d}
  <2> SUFFICES ASSUME NEW e \in Known' PROVE e \in Known \cup {d}
    OBVIOUS
  <2>1. CASE e \in log'
    BY <2>1 DEF Known
  <2>2. CASE e \notin log'
    <3>1. PICK q \in Proc : draft'[q] # None /\ e = draft'[q]
      BY <2>2 DEF Known
    <3> QED BY <3>1 DEF Known, LogInv, TypeOK
  <2> QED BY <2>1, <2>2
<1>2. /\ counter \in Nat \ {0} /\ counter' \in Nat /\ clock \in Nat /\ clock' \in Nat
      /\ \A e \in Known : e \in Event /\ e.id \in Nat /\ e.seq \in Nat
      /\ d.id \in Nat /\ d.seq \in Nat
  <2>1. \A e \in Known : e \in Event
    BY DEF Known, LogInv, TypeOK
  <2> QED BY <2>1, EventFacts, EventLogAssumption DEF LogInv, TypeOK, Id
<1>3. SeqUnique'
  <2>1. \A e \in Numbered(Known) : e.seq < counter /\ 0 < e.seq
    BY DEF LogInv, SeqUnique
  <2>2. d.by \notin Emitter => d.seq = counter /\ counter < counter'
    BY DEF Proc
  <2>3. ASSUME NEW e \in Known', e.by \notin Emitter PROVE 0 < e.seq /\ e.seq < counter'
    BY <1>1, <1>2, <2>1, <2>2, <2>3 DEF Numbered
  <2>4. ASSUME NEW e \in Known', NEW f \in Known', e.by \notin Emitter, f.by \notin Emitter,
               e.seq = f.seq
        PROVE  e = f
    <3>1. CASE e \in Known /\ f \in Known
      BY <2>4, <3>1 DEF LogInv, SeqUnique, Numbered
    <3>2. CASE e = d /\ f \in Known
      BY <1>2, <2>1, <2>2, <2>4, <3>2 DEF Numbered
    <3>3. CASE e \in Known /\ f = d
      BY <1>2, <2>1, <2>2, <2>4, <3>3 DEF Numbered
    <3> QED BY <1>1, <2>4, <3>1, <3>2, <3>3
  <2> QED BY <2>3, <2>4 DEF SeqUnique, Numbered
<1>4. IdUnique'
  <2>1. \A e, f \in Known' : e.id = f.id => e = f
    BY <1>1 DEF LogInv, IdUnique
  <2>2. \A e \in Known' : e.id < clock' /\ e.id \notin glued'
    BY <1>1, <1>2 DEF LogInv, IdUnique
  <2>3. ASSUME NEW q \in Proc, NEW i \in made'[q]
        PROVE  /\ i < clock' /\ i \notin glued'
               /\ \A e \in Known' : e.id # i
               /\ \A r \in Proc : i \in made'[r] => r = q
    <3>1. i \in made[q] /\ i \in Nat /\ i # d.id
      BY <2>3 DEF LogInv, TypeOK, Id
    <3> QED BY <1>1, <1>2, <3>1 DEF LogInv, IdUnique
  <2>4. ASSUME NEW i \in glued' PROVE i < clock'
    <3>1. i \in Nat /\ i < clock
      BY DEF LogInv, IdUnique, TypeOK, Id
    <3> QED BY <1>2, <3>1
  <2> QED BY <2>1, <2>2, <2>3, <2>4 DEF IdUnique
<1>5. DraftInv'
  <2> SUFFICES ASSUME NEW q \in Proc, draft'[q] # None
               PROVE  /\ draft'[q].by = q
                      /\ draft'[q] \notin log'
                      /\ draft'[q].cause = prev'[q]
                      /\ q \in Recorder => \A e \in log' : e.by = q => e.seq < draft'[q].seq
    BY DEF DraftInv
  <2>1. CASE q = p
    <3>1. draft'[q] = d
      BY <2>1 DEF LogInv, TypeOK
    <3>2. \A e \in log : e \in Known
      BY DEF Known
    <3>3. q \in Recorder => \A e \in log : e.by = q => e.seq < counter
      BY <3>2, EventLogAssumption DEF LogInv, SeqUnique, Numbered
    <3> QED BY <2>1, <3>1, <3>2, <3>3
  <2>2. CASE q # p
    <3>1. draft'[q] = draft[q]
      BY <2>2 DEF LogInv, TypeOK
    <3> QED BY <3>1 DEF LogInv, DraftInv
  <2> QED BY <2>1, <2>2
<1>6. CauseKnown' /\ NoSilentFork' /\ PrevInv'
  BY DEF LogInv, CauseKnown, NoSilentFork, PrevInv, Numbered
<1> QED BY <1>3, <1>4, <1>5, <1>6 DEF LogInv

\* Record draws a number above every number known.
LEMMA AllocLogInv == ASSUME LogInv, NEW p \in Recorder, NEW i \in Id, AllocSeqNr(p, i) PROVE LogInv'
<1> DEFINE d == [id |-> i, by |-> p, seq |-> counter, cause |-> prev[p]]
<1>1. /\ draft[p] = None /\ i \in made[p]
      /\ made' = [made EXCEPT ![p] = @ \ {i}]
      /\ UNCHANGED <<fileVars, clock, prev, local, failed>>
      /\ \/ draft' = [draft EXCEPT ![p] = d] /\ counter' = counter + 1
         \/ UNCHANGED <<draft, counter>>
  BY DEF AllocSeqNr
<1>2. p \in Proc /\ d \in Event /\ d # None
  <2>1. p \in Proc /\ counter \in Nat /\ prev[p] \in 0 .. MaxEvent
    BY DEF LogInv, TypeOK, Proc
  <2>2. d \in Event
    BY <2>1 DEF Event
  <2> QED BY <2>1, <2>2, EventFacts
<1>3. /\ \A q \in Proc : made'[q] \subseteq made[q] /\ i \notin made'[q]
      /\ i < clock /\ i \notin glued /\ \A e \in Known : e.id # i
  <2>1. \A q \in Proc : i \in made[q] => q = p
    BY <1>1, <1>2 DEF LogInv, IdUnique
  <2> QED BY <1>1, <1>2, <2>1 DEF LogInv, IdUnique, TypeOK
<1>4. TypeOK'
  <2>1. CASE draft' = [draft EXCEPT ![p] = d] /\ counter' = counter + 1
    BY <1>1, <1>2, <2>1 DEF LogInv, TypeOK, fileVars
  <2>2. CASE UNCHANGED <<draft, counter>>
    BY <1>1, <1>2, <2>2 DEF LogInv, TypeOK, fileVars
  <2> QED BY <1>1, <2>1, <2>2
<1>5. CASE draft' = [draft EXCEPT ![p] = d] /\ counter' = counter + 1
  <2>1. counter \in Nat /\ clock \in Nat
    BY DEF LogInv, TypeOK
  <2>2. d.id = i /\ d.by = p /\ d.cause = prev[p] /\ d.seq = counter
    OBVIOUS
  <2>3. clock' = clock /\ UNCHANGED <<log, glued, failed, prev>>
    BY <1>1 DEF fileVars
  <2>4. counter < counter' /\ counter <= counter' /\ clock <= clock'
    BY <1>5, <2>1, <2>3
  <2> HIDE DEF d
  <2> QED BY <1>1, <1>2, <1>3, <1>4, <1>5, <2>2, <2>3, <2>4, TakesUp
<1>6. CASE UNCHANGED <<draft, counter>>
  <2>1. Known' = Known /\ UNCHANGED <<log, glued, failed, prev, clock>>
    BY <1>1, <1>6 DEF Known, fileVars
  <2>2. SeqUnique' /\ CauseKnown' /\ NoSilentFork' /\ DraftInv' /\ PrevInv'
    BY <1>6, <2>1 DEF LogInv, SeqUnique, CauseKnown, NoSilentFork, DraftInv, PrevInv, Numbered
  <2>3. IdUnique'
    BY <1>3, <2>1 DEF LogInv, IdUnique
  <2> QED BY <1>4, <2>2, <2>3 DEF LogInv
<1> QED BY <1>1, <1>5, <1>6

\* An MCP session's event has a fresh id and takes no number of the counter.
LEMMA EmitLogInv == ASSUME LogInv, NEW p \in Emitter, Emit(p) PROVE LogInv'
<1>1. PICK numbered \in BOOLEAN :
        LET n == local[p] + 1 IN
        /\ draft' = [draft EXCEPT ![p] =
                      [id |-> clock, by |-> p, seq |-> IF numbered THEN n ELSE 0,
                       cause |-> prev[p]]]
        /\ local' = [local EXCEPT ![p] = IF numbered THEN n ELSE @]
  BY DEF Emit
<1> DEFINE d == [id |-> clock, by |-> p, seq |-> IF numbered THEN local[p] + 1 ELSE 0,
                 cause |-> prev[p]]
<1>2. /\ clock <= MaxEvent /\ draft[p] = None /\ clock' = clock + 1
      /\ UNCHANGED <<fileVars, counter, made, prev, failed>>
  BY DEF Emit
<1>3. p \in Proc /\ p \notin Recorder /\ clock \in Nat /\ clock \in Id
      /\ counter \in Nat /\ local[p] \in Nat
  BY <1>2, EventLogAssumption DEF LogInv, TypeOK, Proc, Id
<1>4. d \in Event /\ d # None
  <2>1. d \in Event
    BY <1>3 DEF Event, LogInv, TypeOK
  <2> QED BY <2>1, EventFacts
<1>5. TypeOK'
  <2>1. draft' \in [Proc -> Event \cup {None}]
    BY <1>1, <1>3, <1>4 DEF LogInv, TypeOK
  <2>2. local' \in [Proc -> Nat]
    BY <1>1, <1>3 DEF LogInv, TypeOK
  <2>3. clock' \in 1 .. MaxEvent + 1
    BY <1>2, <1>3, EventLogAssumption
  <2> QED BY <1>2, <2>1, <2>2, <2>3 DEF LogInv, TypeOK, fileVars
<1>6. d.id < clock' /\ d.id \notin glued /\ (\A e \in Known : e.id # d.id)
      /\ \A q \in Proc : made'[q] \subseteq made[q] /\ d.id \notin made'[q]
  <2>1. \A e \in Known : e.id \in Nat /\ e.id < clock
    <3>1. \A e \in Known : e \in Event
      BY DEF Known, LogInv, TypeOK
    <3> QED BY <3>1, EventFacts DEF LogInv, IdUnique, Id
  <2>2. \A j \in glued : j \in Nat /\ j < clock
    BY DEF LogInv, IdUnique, TypeOK, Id
  <2>3. \A q \in Proc : \A j \in made[q] : j \in Nat /\ j < clock
    BY DEF LogInv, IdUnique, TypeOK, Id
  <2> QED BY <1>2, <1>3, <2>1, <2>2, <2>3
<1>7. d.by = p /\ d.cause = prev[p] /\ draft' = [draft EXCEPT ![p] = d]
  BY <1>1
<1>8. UNCHANGED <<log, glued, failed, prev>> /\ clock <= clock' /\ counter <= counter'
  BY <1>2, <1>3 DEF fileVars
<1> HIDE DEF d
<1> QED BY <1>2, <1>3, <1>4, <1>5, <1>6, <1>7, <1>8, TakesUp

\* The empty log satisfies the invariant.
LEMMA InitLogInv == Init => LogInv
<1> SUFFICES ASSUME Init PROVE LogInv
  OBVIOUS
<1>1. TypeOK
  <2>1. /\ made \in [Proc -> SUBSET Id] /\ draft \in [Proc -> Event \cup {None}]
        /\ prev \in [Proc -> 0 .. MaxEvent] /\ local \in [Proc -> Nat]
    BY EventLogAssumption DEF Init
  <2>2. log \subseteq Event /\ failed \subseteq Id /\ glued \subseteq Id /\ torn \in BOOLEAN
    BY DEF Init
  <2>3. counter \in Nat \ {0} /\ clock \in 1 .. MaxEvent + 1 /\ tears \in 0 .. MaxTear
    BY EventLogAssumption DEF Init
  <2> QED BY <2>1, <2>2, <2>3 DEF TypeOK
<1>2. Known = {} /\ log = {} /\ glued = {}
  BY DEF Init, Known
<1>3. SeqUnique /\ CauseKnown /\ NoSilentFork
  BY <1>2 DEF SeqUnique, CauseKnown, NoSilentFork, Numbered
<1>4. IdUnique
  BY <1>2 DEF Init, IdUnique
<1>5. DraftInv /\ PrevInv
  BY DEF Init, DraftInv, PrevInv, Proc
<1> QED BY <1>1, <1>3, <1>4, <1>5 DEF LogInv

\* Every step keeps the invariant: one case per action.
LEMMA NextLogInv == LogInv /\ [Next]_vars => LogInv'
<1> SUFFICES ASSUME LogInv, [Next]_vars PROVE LogInv'
  OBVIOUS
<1>1. ASSUME NEW p \in Recorder, Create(p) PROVE LogInv'
  BY <1>1, CreateLogInv
<1>2. ASSUME NEW p \in Recorder, NEW i \in Id, AllocSeqNr(p, i) PROVE LogInv'
  BY <1>2, AllocLogInv
<1>3. ASSUME NEW p \in Emitter, Emit(p) PROVE LogInv'
  BY <1>3, EmitLogInv
<1>4. ASSUME NEW p \in Proc, Append(p) PROVE LogInv'
  BY <1>4, AppendLogInv
<1>5. ASSUME NEW p \in Proc, AppendFails(p) PROVE LogInv'
  BY <1>5, AppendFailsLogInv
<1>6. ASSUME NEW p \in Proc, Restart(p) PROVE LogInv'
  BY <1>6, RestartLogInv
<1>7. CASE UNCHANGED vars
  <2>1. Known' = Known
    BY <1>7 DEF vars, fileVars, processVars, Known
  <2>2. TypeOK' /\ SeqUnique' /\ CauseKnown' /\ NoSilentFork'
    BY <1>7, <2>1 DEF LogInv, vars, fileVars, processVars, TypeOK, SeqUnique, CauseKnown,
                      NoSilentFork, Numbered
  <2>3. IdUnique' /\ DraftInv' /\ PrevInv'
    BY <1>7, <2>1 DEF LogInv, vars, fileVars, processVars, IdUnique, DraftInv, PrevInv
  <2> QED BY <2>2, <2>3 DEF LogInv
<1> QED BY <1>1, <1>2, <1>3, <1>4, <1>5, <1>6, <1>7 DEF Next

\* Whatever processes record, emit, fail, die and resume: the counter's numbers
\* are unique, causes are known and earlier, and chains do not fork silently.
THEOREM EventLogSafety == Spec => [](SeqUnique /\ CauseKnown /\ NoSilentFork)
<1>1. LogInv => SeqUnique /\ CauseKnown /\ NoSilentFork
  BY DEF LogInv
<1> QED BY <1>1, InitLogInv, NextLogInv, PTL DEF Spec

\* The types of the log and of the processes writing it.
THEOREM EventLogTypeOK == Spec => []TypeOK
<1>1. LogInv => TypeOK
  BY DEF LogInv
<1> QED BY <1>1, InitLogInv, NextLogInv, PTL DEF Spec

\* The cause an event names was written, or is glued to a partial line.
THEOREM CausesAreKnown == Spec => []CauseKnown
BY EventLogSafety, PTL

\* A chain of causes forks only where a failure was reported.
THEOREM ChainsDoNotFork == Spec => []NoSilentFork
BY EventLogSafety, PTL

-----------------------------------------------------------------------------
\* What a tear costs.  The counting needs a finite set.
LossInv == IsFiniteSet(glued) /\ tears \in Nat /\ torn \in BOOLEAN /\ OneLossPerTear

LEMMA WholeLineLoss == ASSUME LossInv, NEW e, WholeLine(e) PROVE LossInv'
<1>1. CASE torn
  <2>1. glued' = glued \cup {e.id} /\ torn' = FALSE /\ tears' = tears
    BY <1>1 DEF WholeLine
  <2>2. /\ IsFiniteSet(glued \cup {e.id})
        /\ \/ Cardinality(glued \cup {e.id}) = Cardinality(glued)
           \/ Cardinality(glued \cup {e.id}) = Cardinality(glued) + 1
    BY FS_AddElement DEF LossInv
  <2>3. Cardinality(glued) \in Nat /\ Cardinality(glued) + 1 <= tears /\ tears \in Nat
    BY <1>1, FS_CardinalityType DEF LossInv, OneLossPerTear
  <2>4. Cardinality(glued \cup {e.id}) <= tears /\ Cardinality(glued \cup {e.id}) \in Nat
    BY <2>2, <2>3
  <2>5. IsFiniteSet(glued') /\ Cardinality(glued') <= tears' /\ Cardinality(glued') \in Nat
    BY <2>1, <2>2, <2>4
  <2>6. Cardinality(glued') + (IF torn' THEN 1 ELSE 0) <= tears'
    BY <2>1, <2>5
  <2> QED
    BY <2>1, <2>3, <2>5, <2>6 DEF LossInv, OneLossPerTear
<1>2. CASE ~torn
  BY <1>2 DEF WholeLine, LossInv, OneLossPerTear
<1> QED
  BY <1>1, <1>2

LEMMA PartialLineLoss == ASSUME LossInv, PartialLine PROVE LossInv'
<1>1. Cardinality(glued) \in Nat
  BY FS_CardinalityType DEF LossInv
<1> QED
  BY <1>1 DEF PartialLine, LossInv, OneLossPerTear

LEMMA NextLoss == LossInv /\ [Next]_vars => LossInv'
<1> SUFFICES ASSUME LossInv, [Next]_vars PROVE LossInv'
  OBVIOUS
<1>1. ASSUME NEW e, WholeLine(e) \/ PartialLine PROVE LossInv'
  BY <1>1, WholeLineLoss, PartialLineLoss
<1>2. CASE UNCHANGED fileVars
  BY <1>2 DEF fileVars, LossInv, OneLossPerTear
<1>3. ASSUME NEW p \in Proc, Append(p) \/ AppendFails(p) \/ Restart(p)
      PROVE  UNCHANGED fileVars \/ WholeLine(draft[p]) \/ PartialLine
  BY <1>3 DEF Append, AppendFails, Restart
<1>4. ASSUME NEW p \in Proc, NEW i \in Id, Create(p) \/ AllocSeqNr(p, i) \/ Emit(p)
      PROVE  UNCHANGED fileVars
  BY <1>4 DEF Create, AllocSeqNr, Emit
<1>5. ASSUME NEW p \in Proc, Create(p) \/ Emit(p) PROVE UNCHANGED fileVars
  BY <1>5 DEF Create, Emit
<1>6. CASE UNCHANGED vars
  BY <1>2, <1>6 DEF vars, fileVars
<1> QED
  BY <1>1, <1>2, <1>3, <1>4, <1>5, <1>6 DEF Next, Proc

\* Every partial line costs at most one event, whoever wrote what.
THEOREM TearsCostOne == Spec => []OneLossPerTear
<1>1. Init => LossInv
  <2> SUFFICES ASSUME Init PROVE LossInv
    OBVIOUS
  <2>1. glued = {} /\ tears = 0 /\ torn = FALSE
    BY DEF Init
  <2>2. IsFiniteSet(glued) /\ Cardinality(glued) = 0
    BY <2>1, FS_EmptySet
  <2>3. Cardinality(glued) + (IF torn THEN 1 ELSE 0) <= tears
    BY <2>1, <2>2
  <2> QED
    BY <2>1, <2>2, <2>3 DEF LossInv, OneLossPerTear
<1>2. LossInv => OneLossPerTear
  BY DEF LossInv
<1> QED
  BY <1>1, <1>2, NextLoss, PTL DEF Spec

(***************************************************************************)
(* Snapshots.  What a rebuild has read, and what a snapshot says, stays    *)
(* true while the log grows: a new event has a number that the counter had *)
(* not given out, or it was on its way already (Moves).                    *)
(***************************************************************************)

\* No two events that are in the log, on their way or just created share an id.
Apart ==
  /\ \A e \in log : e.id < clock
  /\ \A p \in Proc : draft[p] # None =>
       /\ draft[p].id < clock
       /\ \A e \in log : e.id # draft[p].id
       /\ \A q \in Proc : q # p /\ draft[q] # None => draft[q].id # draft[p].id
  /\ \A p \in Proc : \A i \in made[p] :
       /\ i < clock
       /\ \A e \in log : e.id # i
       /\ \A q \in Proc : draft[q] # None => draft[q].id # i
       /\ \A q \in Proc : i \in made[q] => q = p

\* A cutover that has its number has its event.
CutoverDrafted == \A p \in Recorder : boot[p] = "numbered" => draft[p] # None

StoreInv == SnapshotsTypeOK /\ SeqUnique /\ Apart /\ CutoverDrafted

\* What a snapshot of these ids with this watermark says of the log.
NoneAbove(covers, seq) ==
  \A e \in Numbered(log) : e.id \in covers => e.seq <= seq
AllBelow(covers, seq) ==
  /\ seq < counter
  /\ \A e \in Numbered(Known) : e.seq <= seq => e \in log /\ e.id \in covers
Kept(covers, seq, blind, raced) ==
  /\ covers \subseteq Ids(log)
  /\ ~blind => NoneAbove(covers, seq)
  /\ ~blind /\ ~raced => AllBelow(covers, seq)

\* What a rebuild knows that has read the log and not yet the counter.
Read(covers, since) ==
  /\ covers \subseteq Ids(log)
  /\ since <= counter
  /\ since = counter => \A e \in Numbered(Known) : e \in log /\ e.id \in covers

JobOK(r) ==
  job[r] # None =>
    /\ job[r].mark = None => Read(job[r].covers, job[r].since)
    /\ job[r].mark # None => Kept(job[r].covers, job[r].mark, job[r].blind, job[r].raced)

JobInv == \A r \in Rebuilder : JobOK(r)

SaveInv ==
  snapshot # None => Kept(snapshot.covers, snapshot.seq, snapshot.blind, snapshot.raced)

SnapInv == StoreInv /\ JobInv /\ SaveInv

-----------------------------------------------------------------------------
\* How steps of the event log change it: what enters the log was on its way,
\* under an id of its own, and what starts on its way has a new number.
Moves ==
  /\ log \subseteq log'
  /\ counter \in Nat /\ counter' \in Nat /\ counter <= counter'
  /\ \A e \in log' : e \in log \/ (e \in Known /\ \A f \in log : f.id # e.id)
  /\ \A e \in Numbered(Known') : e \in Known \/ (e.seq = counter /\ counter < counter')

\* What a snapshot says stays true.
LEMMA KeptMoves ==
  ASSUME Moves, NEW covers, NEW seq \in Nat, NEW blind, NEW raced, Kept(covers, seq, blind, raced)
  PROVE  /\ covers \subseteq Ids(log')
         /\ ~blind => \A e \in Numbered(log') : e.id \in covers => e.seq <= seq
         /\ ~blind /\ ~raced =>
              /\ seq < counter'
              /\ \A e \in Numbered(Known') : e.seq <= seq => e \in log' /\ e.id \in covers
<1>1. covers \subseteq Ids(log')
  BY DEF Kept, Ids, Moves
<1>2. ASSUME ~blind, NEW e \in Numbered(log'), e.id \in covers
      PROVE  e.seq <= seq
  <2>1. PICK f \in log : f.id = e.id
    BY <1>2 DEF Kept, Ids
  <2>2. e \in log
    BY <1>2, <2>1 DEF Moves, Numbered
  <2> QED
    BY <1>2, <2>2 DEF Kept, NoneAbove, Numbered
<1>3. ASSUME ~blind, ~raced
      PROVE  /\ seq < counter'
             /\ \A e \in Numbered(Known') : e.seq <= seq => e \in log' /\ e.id \in covers
  <2>1. seq < counter /\ \A e \in Numbered(Known) : e.seq <= seq => e \in log /\ e.id \in covers
    BY <1>3 DEF Kept, AllBelow
  <2>2. seq < counter'
    BY <2>1 DEF Moves
  <2>3. ASSUME NEW e \in Numbered(Known'), e.seq <= seq
        PROVE  e \in log' /\ e.id \in covers
    <3>1. e.seq # counter
      BY <2>1, <2>3 DEF Moves
    <3>2. e \in Numbered(Known)
      BY <2>3, <3>1 DEF Moves, Numbered
    <3> QED
      BY <2>1, <2>3, <3>2 DEF Moves
  <2> QED
    BY <2>2, <2>3
<1> QED
  BY <1>1, <1>2, <1>3

\* So does what a rebuild knows, as long as no number is given out.
LEMMA ReadMoves ==
  ASSUME Moves, NEW covers, NEW since \in Nat, Read(covers, since)
  PROVE  /\ covers \subseteq Ids(log')
         /\ since <= counter'
         /\ since = counter' => \A e \in Numbered(Known') : e \in log' /\ e.id \in covers
<1>1. covers \subseteq Ids(log') /\ since <= counter'
  BY DEF Read, Ids, Moves
<1>2. ASSUME since = counter', NEW e \in Numbered(Known') PROVE e \in log' /\ e.id \in covers
  <2>1. since = counter /\ ~(counter < counter')
    BY <1>2 DEF Read, Moves
  <2>2. e \in Numbered(Known)
    BY <1>2, <2>1 DEF Moves, Numbered
  <2> QED
    BY <2>1, <2>2 DEF Read, Moves
<1> QED
  BY <1>1, <1>2

\* A snapshot that is not replaced stays as good as it was,
LEMMA SaveStays ==
  ASSUME SnapInv, Moves, snapshot' = snapshot
  PROVE  SaveInv'
<1>1. ASSUME snapshot # None PROVE SaveInv'
  <2>1. PICK covers, seq, blind, raced :
          /\ covers = snapshot.covers /\ seq = snapshot.seq
          /\ blind = snapshot.blind /\ raced = snapshot.raced
    OBVIOUS
  <2>2. seq \in Nat /\ Kept(covers, seq, blind, raced)
    BY <1>1, <2>1 DEF SnapInv, SaveInv, StoreInv, SnapshotsTypeOK
  <2> QED
    BY <2>1, <2>2, KeptMoves DEF SaveInv, Kept, NoneAbove, AllBelow
<1> QED
  BY <1>1 DEF SaveInv

\* and so does a rebuild that takes no step.
LEMMA JobStays ==
  ASSUME SnapInv, Moves, NEW r \in Rebuilder, job'[r] = job[r]
  PROVE  JobOK(r)'
<1> SUFFICES ASSUME job[r] # None
             PROVE  /\ job'[r].mark = None => Read(job[r].covers, job[r].since)'
                    /\ job'[r].mark # None =>
                         Kept(job[r].covers, job[r].mark, job[r].blind, job[r].raced)'
  BY DEF JobOK
<1>1. PICK covers, mark, since, blind, raced :
        /\ covers = job[r].covers /\ mark = job[r].mark /\ since = job[r].since
        /\ blind = job[r].blind /\ raced = job[r].raced
  OBVIOUS
<1>2. since \in Nat /\ (mark # None => mark \in Nat)
  BY <1>1 DEF SnapInv, StoreInv, SnapshotsTypeOK
<1>3. CASE mark = None
  <2>1. Read(covers, since)
    BY <1>1, <1>3 DEF SnapInv, JobInv, JobOK
  <2> QED
    BY <1>1, <1>2, <1>3, <2>1, ReadMoves DEF Read
<1>4. CASE mark # None
  <2>1. Kept(covers, mark, blind, raced)
    BY <1>1, <1>4 DEF SnapInv, JobInv, JobOK
  <2> QED
    BY <1>1, <1>2, <1>4, <2>1, KeptMoves DEF Kept, NoneAbove, AllBelow
<1> QED
  BY <1>3, <1>4

-----------------------------------------------------------------------------
\* p's event leaves its draft, for the log or for nothing.
Settling(p) ==
  /\ draft' = [draft EXCEPT ![p] = None]
  /\ log' = log \/ (draft[p] # None /\ log' = log \cup {draft[p]})
  /\ \A q \in Proc : made'[q] \subseteq made[q]
  /\ UNCHANGED <<counter, clock>>

\* p has a new event, with an id of its own and, unless it is an emitter's,
\* with the counter's number.
Taking(p, d) ==
  /\ draft' = [draft EXCEPT ![p] = d]
  /\ log' = log
  /\ counter' \in Nat /\ counter <= counter'
  /\ clock' \in Nat /\ clock <= clock'
  /\ \A q \in Proc : made'[q] \subseteq made[q] /\ d.id \notin made'[q]
  /\ d.id < clock'
  /\ \A e \in log : e.id # d.id
  /\ \A q \in Proc : q # p /\ draft[q] # None => draft[q].id # d.id
  /\ d.by \notin Emitter => d.seq = counter /\ counter < counter'

\* The numbers of the store, for arithmetic.
LEMMA StoreNumbers ==
  ASSUME StoreInv
  PROVE  /\ counter \in Nat /\ counter > 0 /\ clock \in Nat
         /\ \A e \in log : e \in Event /\ e.id \in Nat /\ e.seq \in Nat
         /\ \A p \in Proc : draft[p] # None => draft[p] \in Event /\ draft[p].id \in Nat
         /\ \A p \in Proc : \A i \in made[p] : i \in Nat
         /\ \A p \in Proc : made[p] \subseteq Id
         /\ MaxEvent \in Nat
  BY EventFacts, EventLogAssumption DEF StoreInv, SnapshotsTypeOK, TypeOK, Id

LEMMA SettlingKeeps ==
  ASSUME StoreInv, NEW p \in Proc, Settling(p)
  PROVE  Moves /\ SeqUnique' /\ Apart'
<1>1. \A q \in Proc : draft'[q] = IF q = p THEN None ELSE draft[q]
  BY DEF Settling, StoreInv, SnapshotsTypeOK, TypeOK
<1>2. \A e \in log' : e \in log \/ (draft[p] # None /\ e = draft[p])
  BY DEF Settling
<1>3. draft[p] # None => draft[p] \in Known /\ \A f \in log : f.id # draft[p].id
  BY DEF Known, StoreInv, Apart
<1>4. log \subseteq Known /\ log \subseteq log'
  BY DEF Known, Settling
<1>5. Known' \subseteq Known
  <2> SUFFICES ASSUME NEW e \in Known' PROVE e \in Known
    OBVIOUS
  <2>1. e \in log' \/ \E q \in Proc : draft'[q] # None /\ e = draft'[q]
    BY DEF Known
  <2>2. \A q \in Proc : draft[q] # None => draft[q] \in Known
    BY DEF Known
  <2> QED
    BY <1>1, <1>2, <1>3, <1>4, <2>1, <2>2
<1>6. Moves
  BY <1>2, <1>3, <1>4, <1>5, StoreNumbers DEF Moves, Settling, Numbered
<1>7. SeqUnique'
  BY <1>5 DEF StoreInv, SeqUnique, Numbered, Settling
<1>8. Apart'
  <2>1. clock' = clock /\ \A q \in Proc : made'[q] \subseteq made[q]
    BY DEF Settling
  <2>2. \A e \in log' : e.id < clock'
    BY <1>2, <2>1 DEF StoreInv, Apart
  <2>3. ASSUME NEW q \in Proc, draft'[q] # None
        PROVE  /\ draft'[q].id < clock'
               /\ \A e \in log' : e.id # draft'[q].id
               /\ \A r \in Proc : r # q /\ draft'[r] # None => draft'[r].id # draft'[q].id
    <3>1. q # p /\ draft'[q] = draft[q]
      BY <1>1, <2>3
    <3>2. \A e \in log' : e.id # draft[q].id
      BY <1>2, <2>3, <3>1 DEF StoreInv, Apart
    <3> QED
      BY <1>1, <2>1, <2>3, <3>1, <3>2 DEF StoreInv, Apart
  <2>4. ASSUME NEW q \in Proc, NEW i \in made'[q]
        PROVE  /\ i < clock'
               /\ \A e \in log' : e.id # i
               /\ \A r \in Proc : draft'[r] # None => draft'[r].id # i
               /\ \A r \in Proc : i \in made'[r] => r = q
    <3>1. i \in made[q]
      BY <2>1, <2>4
    <3>2. /\ i < clock /\ \A e \in log : e.id # i
          /\ \A r \in Proc : draft[r] # None => draft[r].id # i
          /\ \A r \in Proc : i \in made[r] => r = q
      BY <3>1 DEF StoreInv, Apart
    <3> QED
      BY <1>1, <1>2, <2>1, <3>2
  <2> QED
    BY <2>2, <2>3, <2>4 DEF Apart
<1> QED
  BY <1>6, <1>7, <1>8

LEMMA TakingKeeps ==
  ASSUME StoreInv, NEW p \in Proc, NEW d \in Event, Taking(p, d)
  PROVE  Moves /\ SeqUnique' /\ Apart'
<1>1. \A q \in Proc : draft'[q] = IF q = p THEN d ELSE draft[q]
  BY DEF Taking, StoreInv, SnapshotsTypeOK, TypeOK
<1>2. Known' \subseteq Known \cup {d}
  <2> SUFFICES ASSUME NEW e \in Known' PROVE e \in Known \cup {d}
    OBVIOUS
  <2>1. e \in log \/ \E q \in Proc : draft'[q] # None /\ e = draft'[q]
    BY DEF Known, Taking
  <2>2. log \subseteq Known /\ \A q \in Proc : draft[q] # None => draft[q] \in Known
    BY DEF Known
  <2> QED
    BY <1>1, <2>1, <2>2
<1>3. /\ counter \in Nat /\ counter' \in Nat /\ counter <= counter' /\ counter > 0
      /\ d.by \notin Emitter => d.seq = counter /\ counter < counter'
      /\ log' = log
  BY StoreNumbers DEF Taking
<1>4. Moves
  BY <1>2, <1>3 DEF Moves, Numbered
<1>5. SeqUnique'
  <2>1. \A e \in Numbered(Known) : e.seq \in Nat /\ 0 < e.seq /\ e.seq < counter
    <3>1. \A e \in Known : e.seq \in Nat
      BY EventFacts DEF Known, StoreInv, SnapshotsTypeOK, TypeOK
    <3> QED
      BY <3>1 DEF StoreInv, SeqUnique, Numbered
  <2>2. \A e \in Numbered(Known') : e \in Numbered(Known) \/ (e = d /\ d.by \notin Emitter)
    BY <1>2 DEF Numbered
  <2>3. \A e \in Numbered(Known') : 0 < e.seq /\ e.seq < counter'
    BY <1>3, <2>1, <2>2
  <2>4. \A e, f \in Numbered(Known') : e.seq = f.seq => e = f
    BY <1>3, <2>1, <2>2 DEF StoreInv, SeqUnique
  <2> QED
    BY <2>3, <2>4 DEF SeqUnique
<1>6. Apart'
  <2>1. /\ clock \in Nat /\ clock' \in Nat /\ clock <= clock' /\ log' = log
        /\ \A q \in Proc : made'[q] \subseteq made[q] /\ d.id \notin made'[q]
        /\ d.id < clock'
        /\ \A e \in log : e.id # d.id
        /\ \A q \in Proc : q # p /\ draft[q] # None => draft[q].id # d.id
    BY StoreNumbers DEF Taking
  <2>2. \A e \in log' : e.id < clock'
    BY <2>1, StoreNumbers DEF StoreInv, Apart
  <2>3. ASSUME NEW q \in Proc, draft'[q] # None
        PROVE  /\ draft'[q].id < clock'
               /\ \A e \in log' : e.id # draft'[q].id
               /\ \A r \in Proc : r # q /\ draft'[r] # None => draft'[r].id # draft'[q].id
    <3>1. CASE q = p
      BY <1>1, <2>1, <3>1
    <3>2. CASE q # p
      <4>1. draft'[q] = draft[q] /\ draft[q] # None /\ draft[q].id \in Nat
        BY <1>1, <2>3, <3>2, StoreNumbers
      <4>2. /\ draft[q].id < clock
            /\ \A e \in log : e.id # draft[q].id
            /\ \A r \in Proc : r # q /\ draft[r] # None => draft[r].id # draft[q].id
        BY <4>1 DEF StoreInv, Apart
      <4> QED
        BY <1>1, <2>1, <3>2, <4>1, <4>2
    <3> QED
      BY <3>1, <3>2
  <2>4. ASSUME NEW q \in Proc, NEW i \in made'[q]
        PROVE  /\ i < clock'
               /\ \A e \in log' : e.id # i
               /\ \A r \in Proc : draft'[r] # None => draft'[r].id # i
               /\ \A r \in Proc : i \in made'[r] => r = q
    <3>1. i \in made[q] /\ i # d.id /\ i \in Nat
      BY <2>1, <2>4, StoreNumbers
    <3>2. /\ i < clock /\ \A e \in log : e.id # i
          /\ \A r \in Proc : draft[r] # None => draft[r].id # i
          /\ \A r \in Proc : i \in made[r] => r = q
      BY <3>1 DEF StoreInv, Apart
    <3> QED
      BY <1>1, <2>1, <3>1, <3>2
  <2> QED
    BY <2>2, <2>3, <2>4 DEF Apart
<1> QED
  BY <1>4, <1>5, <1>6

-----------------------------------------------------------------------------
\* The actions on the store, for process p.
Stored(p) ==
  /\ TypeOK' /\ Moves /\ SeqUnique' /\ Apart'
  /\ \A q \in Proc : q # p => draft'[q] = draft[q]

LEMMA CreateStored == ASSUME StoreInv, NEW p \in Recorder, Create(p) PROVE Stored(p)
<1>1. /\ clock <= MaxEvent /\ made' = [made EXCEPT ![p] = @ \cup {clock}] /\ clock' = clock + 1
      /\ UNCHANGED <<fileVars, counter, draft, prev, local, failed>>
  BY DEF Create
<1>2. /\ p \in Proc /\ clock \in Nat /\ clock \in Id /\ MaxEvent \in Nat
      /\ TypeOK /\ counter \in Nat
  BY <1>1, EventLogAssumption DEF StoreInv, SnapshotsTypeOK, TypeOK, Proc, Id
<1>3. Known' = Known /\ log' = log /\ draft' = draft /\ counter' = counter
  BY <1>1 DEF Known, fileVars
<1>4. TypeOK'
  BY <1>1, <1>2 DEF TypeOK, fileVars
<1>5. Moves /\ SeqUnique'
  BY <1>2, <1>3 DEF Moves, StoreInv, SeqUnique, Numbered
<1>6. Apart'
  <2>1. /\ \A e \in log : e.id \in Nat /\ e.id < clock
        /\ \A q \in Proc : draft[q] # None => draft[q].id \in Nat /\ draft[q].id < clock
        /\ \A q \in Proc : \A i \in made[q] : i \in Nat /\ i < clock
    BY StoreNumbers DEF StoreInv, Apart
  <2>2. ASSUME NEW q \in Proc, NEW i \in made'[q]
        PROVE  /\ i < clock'
               /\ \A e \in log' : e.id # i
               /\ \A r \in Proc : draft'[r] # None => draft'[r].id # i
               /\ \A r \in Proc : i \in made'[r] => r = q
    <3>1. CASE i = clock
      <4>1. \A r \in Proc : i \in made'[r] => r = p
        BY <1>1, <1>2, <2>1, <3>1 DEF TypeOK
      <4> QED
        BY <1>1, <1>2, <1>3, <2>1, <2>2, <3>1, <4>1
    <3>2. CASE i # clock
      <4>1. i \in made[q] /\ \A r \in Proc : i \in made'[r] => i \in made[r]
        BY <1>1, <1>2, <2>2, <3>2 DEF TypeOK
      <4> QED
        BY <1>1, <1>2, <1>3, <2>1, <4>1 DEF StoreInv, Apart
    <3> QED
      BY <3>1, <3>2
  <2>3. \A e \in log' : e.id < clock'
    BY <1>1, <1>2, <1>3, <2>1
  <2>4. \A q \in Proc : draft'[q] # None =>
          /\ draft'[q].id < clock'
          /\ \A e \in log' : e.id # draft'[q].id
          /\ \A r \in Proc : r # q /\ draft'[r] # None => draft'[r].id # draft'[q].id
    <3>1. \A q \in Proc : draft[q] # None => draft[q].id < clock'
      BY <1>1, <1>2, <2>1
    <3> QED
      BY <1>3, <3>1 DEF StoreInv, Apart
  <2> QED
    BY <2>2, <2>3, <2>4 DEF Apart
<1> QED
  BY <1>3, <1>4, <1>5, <1>6 DEF Stored

LEMMA AllocStored ==
  ASSUME StoreInv, NEW p \in Recorder, NEW i \in Id, AllocSeqNr(p, i)
  PROVE  Stored(p)
<1> DEFINE d == [id |-> i, by |-> p, seq |-> counter, cause |-> prev[p]]
<1>1. /\ draft[p] = None /\ i \in made[p]
      /\ made' = [made EXCEPT ![p] = @ \ {i}]
      /\ UNCHANGED <<fileVars, clock, prev, local, failed>>
      /\ \/ draft' = [draft EXCEPT ![p] = d] /\ counter' = counter + 1
         \/ UNCHANGED <<draft, counter>>
  BY DEF AllocSeqNr
<1>2. p \in Proc /\ d \in Event /\ TypeOK /\ counter \in Nat /\ clock \in Nat
  <2>1. p \in Proc /\ counter \in Nat /\ prev[p] \in 0 .. MaxEvent /\ TypeOK /\ clock \in Nat
    BY DEF StoreInv, SnapshotsTypeOK, TypeOK, Proc
  <2>2. d \in Event
    BY <2>1 DEF Event
  <2> QED
    BY <2>1, <2>2
<1>3. \A q \in Proc : made'[q] \subseteq made[q] /\ i \notin made'[q]
  <2>1. \A q \in Proc : i \in made[q] => q = p
    BY <1>1, <1>2 DEF StoreInv, Apart
  <2> QED
    BY <1>1, <1>2, <2>1 DEF TypeOK
<1>4. TypeOK' /\ \A q \in Proc : q # p => draft'[q] = draft[q]
  <2>1. CASE draft' = [draft EXCEPT ![p] = d] /\ counter' = counter + 1
    BY <1>1, <1>2, <2>1 DEF TypeOK, fileVars
  <2>2. CASE UNCHANGED <<draft, counter>>
    BY <1>1, <1>2, <2>2 DEF TypeOK, fileVars
  <2> QED
    BY <1>1, <2>1, <2>2
<1>5. log' = log /\ clock' = clock
  BY <1>1 DEF fileVars
<1>6. CASE draft' = [draft EXCEPT ![p] = d] /\ counter' = counter + 1
  <2>1. d.id = i /\ d.by = p /\ d.seq = counter
    OBVIOUS
  <2>2. /\ i < clock /\ \A e \in log : e.id # i
        /\ \A q \in Proc : draft[q] # None => draft[q].id # i
    BY <1>1, <1>2 DEF StoreInv, Apart
  <2> HIDE DEF d
  <2>3. Taking(p, d)
    BY <1>2, <1>3, <1>5, <1>6, <2>1, <2>2 DEF Taking
  <2> QED
    BY <1>2, <1>4, <2>3, TakingKeeps DEF Stored
<1>7. CASE UNCHANGED <<draft, counter>>
  <2>1. draft' = [draft EXCEPT ![p] = None]
    BY <1>1, <1>2, <1>7 DEF TypeOK
  <2>2. Settling(p)
    BY <1>3, <1>5, <1>7, <2>1 DEF Settling
  <2> QED
    BY <1>2, <1>4, <2>2, SettlingKeeps DEF Stored
<1> QED
  BY <1>1, <1>6, <1>7

LEMMA EmitStored == ASSUME StoreInv, NEW p \in Emitter, Emit(p) PROVE Stored(p)
<1>1. PICK numbered \in BOOLEAN :
        LET n == local[p] + 1 IN
        /\ draft' = [draft EXCEPT ![p] =
                      [id |-> clock, by |-> p, seq |-> IF numbered THEN n ELSE 0,
                       cause |-> prev[p]]]
        /\ local' = [local EXCEPT ![p] = IF numbered THEN n ELSE @]
  BY DEF Emit
<1> DEFINE d == [id |-> clock, by |-> p, seq |-> IF numbered THEN local[p] + 1 ELSE 0,
                 cause |-> prev[p]]
<1>2. /\ clock <= MaxEvent /\ draft[p] = None /\ clock' = clock + 1
      /\ UNCHANGED <<fileVars, counter, made, prev, failed>>
  BY DEF Emit
<1>3. /\ p \in Proc /\ clock \in Nat /\ clock \in Id /\ counter \in Nat /\ local[p] \in Nat
      /\ TypeOK
  BY <1>2, EventLogAssumption DEF StoreInv, SnapshotsTypeOK, TypeOK, Proc, Id
<1>4. d \in Event
  BY <1>3 DEF Event, TypeOK
<1>5. TypeOK' /\ \A q \in Proc : q # p => draft'[q] = draft[q]
  <2>1. draft' \in [Proc -> Event \cup {None}] /\ \A q \in Proc : q # p => draft'[q] = draft[q]
    BY <1>1, <1>3, <1>4 DEF TypeOK
  <2>2. local' \in [Proc -> Nat]
    BY <1>1, <1>3 DEF TypeOK
  <2>3. clock' \in 1 .. MaxEvent + 1
    BY <1>2, <1>3, EventLogAssumption
  <2> QED
    BY <1>2, <1>3, <2>1, <2>2, <2>3 DEF TypeOK, fileVars
<1>6. /\ \A e \in log : e.id # clock
      /\ \A q \in Proc : draft[q] # None => draft[q].id # clock
      /\ \A q \in Proc : clock \notin made[q]
  BY StoreNumbers DEF StoreInv, Apart
<1>7. d.id = clock /\ d.by = p /\ draft' = [draft EXCEPT ![p] = d]
  BY <1>1
<1>8. UNCHANGED <<log, counter, made>> /\ clock' = clock + 1
  BY <1>2 DEF fileVars
<1> HIDE DEF d
<1>9. Taking(p, d)
  BY <1>3, <1>6, <1>7, <1>8 DEF Taking
<1> QED
  BY <1>3, <1>4, <1>5, <1>9, TakingKeeps DEF Stored

\* What the ways a draft ends have in common.
LEMMA EndsStored ==
  ASSUME StoreInv, NEW p \in Proc,
         UNCHANGED fileVars \/ (draft[p] # None /\ (WholeLine(draft[p]) \/ PartialLine)),
         draft' = [draft EXCEPT ![p] = None],
         made' \in [Proc -> SUBSET Id], \A q \in Proc : made'[q] \subseteq made[q],
         prev' \in [Proc -> 0 .. MaxEvent], local' \in [Proc -> Nat], failed' \subseteq Id,
         UNCHANGED <<counter, clock>>
  PROVE  Stored(p)
<1>1. TypeOK
  BY DEF StoreInv, SnapshotsTypeOK
<1>2. /\ log' = log \/ (draft[p] # None /\ log' = log \cup {draft[p]})
      /\ log' \subseteq Event /\ glued' \subseteq Id /\ torn' \in BOOLEAN /\ tears' \in 0 .. MaxTear
  <2>1. CASE UNCHANGED fileVars
    BY <1>1, <2>1 DEF fileVars, TypeOK
  <2>2. CASE draft[p] # None /\ (WholeLine(draft[p]) \/ PartialLine)
    <3>1. draft[p] \in Event
      BY <1>1, <2>2 DEF TypeOK
    <3> QED
      BY <1>1, <2>2, <3>1, LineFacts DEF Written
  <2> QED
    BY <2>1, <2>2
<1>3. Settling(p)
  BY <1>2 DEF Settling
<1>4. TypeOK' /\ \A q \in Proc : q # p => draft'[q] = draft[q]
  BY <1>1, <1>2 DEF TypeOK
<1> QED
  BY <1>3, <1>4, SettlingKeeps DEF Stored

LEMMA WritesStored ==
  ASSUME StoreInv, NEW p \in Proc, Append(p) \/ AppendFails(p) \/ Restart(p)
  PROVE  Stored(p)
<1>1. TypeOK /\ (draft[p] # None => draft[p].id \in Id /\ draft[p].id \in 0 .. MaxEvent)
  <2>1. TypeOK
    BY DEF StoreInv, SnapshotsTypeOK
  <2> QED
    BY <2>1, EventFacts DEF TypeOK, Id
<1>2. CASE Append(p)
  BY <1>1, <1>2, EndsStored DEF Append, TypeOK
<1>3. CASE AppendFails(p)
  BY <1>1, <1>3, EndsStored DEF AppendFails, TypeOK
<1>4. CASE Restart(p)
  <2>1. /\ UNCHANGED fileVars \/ (draft[p] # None /\ (WholeLine(draft[p]) \/ PartialLine))
        /\ draft' = [draft EXCEPT ![p] = None] /\ made' = [made EXCEPT ![p] = {}]
        /\ local' = [local EXCEPT ![p] = 0] /\ UNCHANGED <<counter, clock, failed>>
        /\ \E i \in 0 .. MaxEvent : prev' = [prev EXCEPT ![p] = i]
    BY <1>4 DEF Restart
  <2>2. /\ made' \in [Proc -> SUBSET Id] /\ \A q \in Proc : made'[q] \subseteq made[q]
        /\ prev' \in [Proc -> 0 .. MaxEvent] /\ local' \in [Proc -> Nat] /\ failed' \subseteq Id
    BY <1>1, <2>1 DEF TypeOK
  <2> QED
    BY <2>1, <2>2, EndsStored
<1> QED
  BY <1>2, <1>3, <1>4

-----------------------------------------------------------------------------
\* The cutover's own steps on the store.
LEMMA AllocCutoverStored == ASSUME StoreInv, NEW p \in Recorder, AllocCutover(p) PROVE Stored(p)
<1> DEFINE d == [id |-> clock, by |-> None, seq |-> counter, cause |-> 0]
<1>1. /\ clock <= MaxEvent /\ draft' = [draft EXCEPT ![p] = d]
      /\ counter' = counter + 1 /\ clock' = clock + 1
      /\ UNCHANGED <<fileVars, made, prev, local, failed>>
  BY DEF AllocCutover
<1>2. /\ p \in Proc /\ clock \in Nat /\ clock \in Id /\ counter \in Nat /\ TypeOK
      /\ MaxEvent \in Nat
  BY <1>1, EventLogAssumption DEF StoreInv, SnapshotsTypeOK, TypeOK, Proc, Id
<1>3. d \in Event
  BY <1>2 DEF Event
<1>4. TypeOK' /\ \A q \in Proc : q # p => draft'[q] = draft[q]
  <2>1. draft' \in [Proc -> Event \cup {None}] /\ \A q \in Proc : q # p => draft'[q] = draft[q]
    BY <1>1, <1>2, <1>3 DEF TypeOK
  <2>2. clock' \in 1 .. MaxEvent + 1 /\ counter' \in Nat \ {0}
    BY <1>1, <1>2
  <2> QED
    BY <1>1, <1>2, <2>1, <2>2 DEF TypeOK, fileVars
<1>5. /\ \A e \in log : e.id # clock
      /\ \A q \in Proc : draft[q] # None => draft[q].id # clock
      /\ \A q \in Proc : clock \notin made[q]
  BY StoreNumbers DEF StoreInv, Apart
<1>6. d.id = clock /\ d.seq = counter
  OBVIOUS
<1>7. UNCHANGED <<log, made>>
  BY <1>1 DEF fileVars
<1> HIDE DEF d
<1>8. Taking(p, d)
  BY <1>1, <1>2, <1>5, <1>6, <1>7 DEF Taking
<1> QED
  BY <1>2, <1>3, <1>4, <1>8, TakingKeeps DEF Stored

LEMMA AppendCutoverStored == ASSUME StoreInv, NEW p \in Recorder, AppendCutover(p) PROVE Stored(p)
<1>1. p \in Proc /\ draft[p] # None /\ TypeOK
  BY DEF AppendCutover, BootStep, StoreInv, CutoverDrafted, SnapshotsTypeOK, Proc
<1>2. /\ WholeLine(draft[p]) /\ draft' = [draft EXCEPT ![p] = None]
      /\ UNCHANGED <<counter, clock, made, prev, local, failed>>
  BY DEF AppendCutover
<1>3. /\ made' \in [Proc -> SUBSET Id] /\ \A q \in Proc : made'[q] \subseteq made[q]
      /\ prev' \in [Proc -> 0 .. MaxEvent] /\ local' \in [Proc -> Nat] /\ failed' \subseteq Id
  BY <1>1, <1>2 DEF TypeOK
<1> QED
  BY <1>1, <1>2, <1>3, EndsStored

\* Nothing in the store changes.
LEMMA StoreStays ==
  ASSUME StoreInv, UNCHANGED vars
  PROVE  TypeOK' /\ Moves /\ SeqUnique' /\ Apart' /\ draft' = draft
<1>1. /\ UNCHANGED <<log, torn, glued, tears, counter, clock, made, draft, prev, local, failed>>
      /\ TypeOK /\ SeqUnique /\ Apart
  BY DEF vars, fileVars, processVars, StoreInv, SnapshotsTypeOK
<1>2. Known' = Known
  BY <1>1 DEF Known
<1>3. Moves
  BY <1>1, <1>2, StoreNumbers DEF Moves, Numbered
<1>4. TypeOK'
  BY <1>1 DEF TypeOK
<1>5. SeqUnique'
  BY <1>1, <1>2 DEF SeqUnique, Numbered
<1>6. Apart'
  BY <1>1 DEF Apart
<1> QED
  BY <1>1, <1>3, <1>4, <1>5, <1>6

-----------------------------------------------------------------------------
\* A step of p on the store keeps the invariant, whatever it does to p's place
\* in the cutover.
LEMMA StoreStep ==
  ASSUME SnapInv, NEW p \in Proc, Stored(p), UNCHANGED <<snapshot, job>>,
         boot' \in [Recorder -> Boot], \A q \in Recorder : q # p => boot'[q] = boot[q],
         p \in Recorder /\ boot'[p] = "numbered" => draft'[p] # None
  PROVE  SnapInv'
<1>1. TypeOK' /\ Moves /\ SeqUnique' /\ Apart' /\ \A q \in Proc : q # p => draft'[q] = draft[q]
  BY DEF Stored
<1>2. SnapshotsTypeOK'
  BY <1>1 DEF SnapInv, StoreInv, SnapshotsTypeOK
<1>3. CutoverDrafted'
  BY <1>1 DEF SnapInv, StoreInv, CutoverDrafted, Proc
<1>4. JobInv' /\ SaveInv'
  BY <1>1, JobStays, SaveStays DEF JobInv
<1> QED
  BY <1>1, <1>2, <1>3, <1>4 DEF SnapInv, StoreInv

LEMMA RecordSnapInv == ASSUME SnapInv, NEW p \in Recorder, Record(p) PROVE SnapInv'
<1>1. boot[p] = "ready" /\ UNCHANGED <<snapshot, job, boot>> /\ p \in Proc /\ StoreInv
      /\ boot \in [Recorder -> Boot]
  BY DEF Record, snapshotVars, SnapInv, StoreInv, SnapshotsTypeOK, Proc
<1>2. Stored(p)
  BY <1>1, CreateStored, AllocStored, WritesStored DEF Record
<1> QED
  BY <1>1, <1>2, StoreStep

LEMMA McpSnapInv == ASSUME SnapInv, NEW p \in Emitter, Mcp(p) PROVE SnapInv'
<1>1. /\ UNCHANGED <<snapshot, job, boot>> /\ p \in Proc /\ p \notin Recorder /\ StoreInv
      /\ boot \in [Recorder -> Boot]
  BY EventLogAssumption DEF Mcp, snapshotVars, SnapInv, StoreInv, SnapshotsTypeOK, Proc
<1>2. Stored(p)
  BY <1>1, EmitStored, WritesStored DEF Mcp
<1> QED
  BY <1>1, <1>2, StoreStep

\* A session that dies starts its cutover again.
LEMMA RestartSnapInv ==
  ASSUME SnapInv, NEW p \in Recorder, Die(p) \/ CutoverFails(p)
  PROVE  SnapInv'
<1>1. /\ Restart(p) /\ boot' = [boot EXCEPT ![p] = "start"] /\ UNCHANGED <<snapshot, job>>
      /\ p \in Proc /\ StoreInv /\ boot \in [Recorder -> Boot]
  BY DEF Die, CutoverFails, SnapInv, StoreInv, SnapshotsTypeOK, Proc
<1>2. Stored(p)
  BY <1>1, WritesStored
<1>3. /\ boot' \in [Recorder -> Boot] /\ boot'[p] # "numbered"
      /\ \A q \in Recorder : q # p => boot'[q] = boot[q]
  BY <1>1 DEF Boot
<1> QED
  BY <1>1, <1>2, <1>3, StoreStep

\* The cutover, a case per step.
LEMMA CutoverSnapInv == ASSUME SnapInv, NEW p \in Recorder, Cutover(p) PROVE SnapInv'
<1>1. p \in Proc /\ StoreInv /\ boot \in [Recorder -> Boot]
  BY DEF SnapInv, StoreInv, SnapshotsTypeOK, Proc
<1>2. ASSUME CheckCounter(p) \/ LoadLegacy(p) PROVE SnapInv'
  <2>1. /\ UNCHANGED <<vars, snapshot, job>>
        /\ boot' = [boot EXCEPT ![p] = "ready"] \/ boot' = [boot EXCEPT ![p] = "checked"]
             \/ boot' = [boot EXCEPT ![p] = "loaded"]
    BY <1>2 DEF CheckCounter, LoadLegacy, BootStep
  <2>2. /\ boot' \in [Recorder -> Boot] /\ boot'[p] # "numbered"
        /\ \A q \in Recorder : q # p => boot'[q] = boot[q]
    BY <1>1, <2>1 DEF Boot
  <2>3. Stored(p)
    BY <1>1, <2>1, StoreStays DEF Stored
  <2> QED
    BY <1>1, <2>1, <2>2, <2>3, StoreStep
<1>3. CASE SaveSentinel(p)
  <2>1. /\ UNCHANGED <<vars, job>> /\ boot' = [boot EXCEPT ![p] = "saved"]
        /\ snapshot' = [seq |-> 0, covers |-> {}, blind |-> FALSE, raced |-> FALSE]
    BY <1>3 DEF SaveSentinel, BootStep
  <2>2. TypeOK' /\ Moves /\ SeqUnique' /\ Apart' /\ draft' = draft
    BY <1>1, <2>1, StoreStays
  <2>3. boot' \in [Recorder -> Boot] /\ boot'[p] = "saved"
        /\ \A q \in Recorder : q # p => boot'[q] = boot[q]
    BY <1>1, <2>1 DEF Boot
  <2>4. SnapshotsTypeOK'
    BY <2>1, <2>2, <2>3 DEF SnapInv, StoreInv, SnapshotsTypeOK
  <2>5. CutoverDrafted'
    BY <2>2, <2>3 DEF SnapInv, StoreInv, CutoverDrafted
  <2>6. JobInv'
    BY <2>1, <2>2, JobStays DEF JobInv
  <2>7. Kept({}, 0, FALSE, FALSE)'
    <3>1. 0 < counter' /\ \A e \in Numbered(Known') : e.seq \in Nat /\ 0 < e.seq
      <4>1. \A e \in Known' : e.seq \in Nat
        BY <2>2, EventFacts DEF Known, TypeOK
      <4> QED
        BY <2>2, <4>1 DEF SeqUnique, Numbered, TypeOK
    <3> QED
      BY <3>1 DEF Kept, NoneAbove, AllBelow
  <2>8. SaveInv'
    BY <2>1, <2>7 DEF SaveInv
  <2> QED
    BY <2>2, <2>4, <2>5, <2>6, <2>8 DEF SnapInv, StoreInv
<1>4. CASE AllocCutover(p)
  <2>1. Stored(p)
    BY <1>1, <1>4, AllocCutoverStored
  <2>2. /\ boot' = [boot EXCEPT ![p] = "numbered"] /\ UNCHANGED <<snapshot, job>>
        /\ draft' = [draft EXCEPT ![p] = [id |-> clock, by |-> None, seq |-> counter, cause |-> 0]]
    BY <1>4 DEF AllocCutover, BootStep
  <2>3. draft'[p] # None
    <3>1. /\ draft'[p] = [id |-> clock, by |-> None, seq |-> counter, cause |-> 0]
          /\ draft'[p] \in Event \cup {None}
          /\ clock \in Id /\ counter \in Nat /\ MaxEvent \in Nat
      BY <1>1, <1>4, <2>1, <2>2, EventLogAssumption
         DEF Stored, StoreInv, SnapshotsTypeOK, TypeOK, AllocCutover, Id
    <3>2. [id |-> clock, by |-> None, seq |-> counter, cause |-> 0] \in Event
      BY <3>1 DEF Event
    <3> QED
      BY <3>1, <3>2, EventLogAssumption
  <2>4. /\ boot' \in [Recorder -> Boot]
        /\ \A q \in Recorder : q # p => boot'[q] = boot[q]
    BY <1>1, <2>2 DEF Boot
  <2> QED
    BY <1>1, <2>1, <2>2, <2>3, <2>4, StoreStep
<1>5. CASE AppendCutover(p)
  <2>1. Stored(p)
    BY <1>1, <1>5, AppendCutoverStored
  <2>2. boot' = [boot EXCEPT ![p] = "ready"] /\ UNCHANGED <<snapshot, job>>
    BY <1>5 DEF AppendCutover, BootStep
  <2>3. /\ boot' \in [Recorder -> Boot] /\ boot'[p] # "numbered"
        /\ \A q \in Recorder : q # p => boot'[q] = boot[q]
    BY <1>1, <2>2 DEF Boot
  <2> QED
    BY <1>1, <2>1, <2>2, <2>3, StoreStep
<1> QED
  BY <1>2, <1>3, <1>4, <1>5, RestartSnapInv DEF Cutover

-----------------------------------------------------------------------------
\* A rebuild's step changes the snapshot and its own job alone.
LEMMA JobStep ==
  ASSUME SnapInv, NEW r \in Rebuilder, UNCHANGED <<vars, boot>>,
         SnapshotsTypeOK', \A s \in Rebuilder : s # r => job'[s] = job[s],
         JobOK(r)', SaveInv' \/ snapshot' = snapshot
  PROVE  SnapInv'
<1>1. TypeOK' /\ Moves /\ SeqUnique' /\ Apart' /\ draft' = draft
  BY StoreStays DEF SnapInv
<1>2. CutoverDrafted'
  BY <1>1 DEF SnapInv, StoreInv, CutoverDrafted
<1>3. SaveInv'
  BY <1>1, SaveStays
<1>4. JobInv'
  <2> SUFFICES ASSUME NEW s \in Rebuilder PROVE JobOK(s)'
    BY DEF JobInv
  <2>1. CASE s = r
    BY <2>1
  <2>2. CASE s # r
    BY <1>1, <2>2, JobStays
  <2> QED
    BY <2>1, <2>2
<1> QED
  BY <1>1, <1>2, <1>3, <1>4 DEF SnapInv, StoreInv

LEMMA RebuildLoadSnapInv == ASSUME SnapInv, NEW r \in Rebuilder, RebuildLoad(r) PROVE SnapInv'
<1> DEFINE since == IF InFlight THEN 0 ELSE counter
<1>1. /\ UNCHANGED <<vars, snapshot, boot>>
      /\ job' = [job EXCEPT ![r] = [covers |-> Ids(log), mark |-> None, since |-> since,
                                    raced |-> FALSE, blind |-> FALSE]]
  BY DEF RebuildLoad, Loaded
<1>2. /\ SnapshotsTypeOK /\ TypeOK /\ counter \in Nat /\ counter > 0
      /\ UNCHANGED <<log, counter, draft>>
  BY <1>1, StoreNumbers DEF SnapInv, StoreInv, SnapshotsTypeOK, vars, fileVars, processVars
<1>3. TypeOK'
  BY <1>1, StoreStays DEF SnapInv
<1>4. Ids(log) \subseteq Id /\ since \in Nat
  BY <1>2, EventFacts DEF Ids, TypeOK
<1>5. SnapshotsTypeOK'
  BY <1>1, <1>2, <1>3, <1>4 DEF SnapshotsTypeOK
<1>6. Read(Ids(log), since)
  <2>1. since = counter => Numbered(Known \ log) = {}
    BY <1>2 DEF InFlight
  <2>2. since = counter => \A e \in Numbered(Known) : e \in log /\ e.id \in Ids(log)
    BY <2>1 DEF Numbered, Ids
  <2> QED
    BY <1>2, <2>2 DEF Read
<1> HIDE DEF since
<1>7. PICK covers : covers = Ids(log)
  OBVIOUS
<1>8. Known' = Known /\ log' = log /\ counter' = counter
  BY <1>2 DEF Known
<1>9. JobOK(r)'
  <2>1. job'[r].mark = None /\ job'[r].covers = covers /\ job'[r].since = since
    BY <1>1, <1>2, <1>7 DEF SnapshotsTypeOK
  <2>2. Read(covers, since)
    BY <1>6, <1>7
  <2>3. PICK s : s = since
    OBVIOUS
  <2>4. Read(covers, s)'
    BY <1>8, <2>2, <2>3 DEF Read, Ids, Numbered
  <2> QED
    BY <2>1, <2>3, <2>4 DEF JobOK
<1> QED
  BY <1>1, <1>2, <1>5, <1>9, JobStep DEF SnapshotsTypeOK

LEMMA RebuildMarkSnapInv == ASSUME SnapInv, NEW r \in Rebuilder, RebuildMark(r) PROVE SnapInv'
<1>1. PICK was \in BOOLEAN :
        job' = [job EXCEPT ![r] = IF was THEN Marked(job[r], 0, TRUE)
                                   ELSE Marked(job[r], counter - 1, FALSE)]
  BY DEF RebuildMark
<1>2. UNCHANGED <<vars, snapshot, boot>> /\ job[r] # None /\ job[r].mark = None
  BY DEF RebuildMark
<1>3. /\ SnapshotsTypeOK /\ TypeOK /\ counter \in Nat /\ counter > 0 /\ SeqUnique
      /\ UNCHANGED <<log, counter, draft>>
  BY <1>2, StoreNumbers DEF SnapInv, StoreInv, SnapshotsTypeOK, vars, fileVars, processVars
<1>4. PICK covers, since, seq, raced :
        /\ covers = job[r].covers /\ since = job[r].since
        /\ seq = IF was THEN 0 ELSE counter - 1
        /\ raced = (job[r].since # counter)
  OBVIOUS
<1>5. covers \in SUBSET Id /\ since \in Nat /\ seq \in Nat /\ raced \in BOOLEAN /\ seq < counter
      /\ (~was => seq = counter - 1)
  BY <1>2, <1>3, <1>4 DEF SnapshotsTypeOK
<1>6. job' = [job EXCEPT ![r] = [covers |-> covers, mark |-> seq, since |-> 0,
                                 raced |-> raced, blind |-> was]]
  BY <1>1, <1>4 DEF Marked
<1>7. TypeOK'
  BY <1>2, StoreStays DEF SnapInv
<1>8. SnapshotsTypeOK'
  BY <1>2, <1>3, <1>5, <1>6, <1>7 DEF SnapshotsTypeOK
<1>9. Read(covers, since)
  BY <1>2, <1>4 DEF SnapInv, JobInv, JobOK
<1>10. Kept(covers, seq, was, raced)
  <2>1. \A e \in Numbered(Known) : e.seq \in Nat /\ e.seq < counter
    <3>1. \A e \in Known : e.seq \in Nat
      BY <1>3, EventFacts DEF Known, TypeOK
    <3> QED
      BY <1>3, <3>1 DEF SeqUnique, Numbered
  <2>2. Numbered(log) \subseteq Numbered(Known)
    BY DEF Known, Numbered
  <2>3. ~was => NoneAbove(covers, seq)
    BY <1>3, <1>5, <2>1, <2>2 DEF NoneAbove
  <2>4. ~raced => AllBelow(covers, seq)
    BY <1>4, <1>5, <1>9 DEF Read, AllBelow
  <2> QED
    BY <1>9, <2>3, <2>4 DEF Kept, Read
<1>11. Known' = Known /\ log' = log /\ counter' = counter
  BY <1>3 DEF Known
<1>12. JobOK(r)'
  <2>1. /\ job'[r].mark = seq /\ job'[r].covers = covers /\ job'[r].since = 0
        /\ job'[r].raced = raced /\ job'[r].blind = was
    BY <1>3, <1>6 DEF SnapshotsTypeOK
  <2>2. Kept(covers, seq, was, raced)'
    BY <1>10, <1>11 DEF Kept, NoneAbove, AllBelow, Ids, Numbered
  <2>3. Read(covers, 0)'
    BY <1>3, <1>9, <1>11 DEF Read, Ids
  <2> QED
    BY <2>1, <2>2, <2>3 DEF JobOK
<1> QED
  BY <1>2, <1>3, <1>6, <1>8, <1>12, JobStep DEF SnapshotsTypeOK

LEMMA RebuildSaveSnapInv == ASSUME SnapInv, NEW r \in Rebuilder, RebuildSave(r) PROVE SnapInv'
<1>1. /\ job[r] # None /\ job[r].mark # None /\ job' = [job EXCEPT ![r] = None]
      /\ snapshot' = [seq |-> job[r].mark, covers |-> job[r].covers,
                      blind |-> job[r].blind, raced |-> job[r].raced]
      /\ UNCHANGED <<vars, boot>>
  BY DEF RebuildSave
<1>2. PICK covers, seq, blind, raced :
        /\ covers = job[r].covers /\ seq = job[r].mark
        /\ blind = job[r].blind /\ raced = job[r].raced
  OBVIOUS
<1>3. SnapshotsTypeOK /\ UNCHANGED <<log, counter, draft>>
  BY <1>1 DEF SnapInv, StoreInv, vars, fileVars, processVars
<1>4. covers \in SUBSET Id /\ seq \in Nat /\ blind \in BOOLEAN /\ raced \in BOOLEAN
  BY <1>1, <1>2, <1>3 DEF SnapshotsTypeOK
<1>5. TypeOK'
  BY <1>1, StoreStays DEF SnapInv
<1>6. SnapshotsTypeOK'
  BY <1>1, <1>2, <1>3, <1>4, <1>5 DEF SnapshotsTypeOK
<1>7. Kept(covers, seq, blind, raced)
  BY <1>1, <1>2 DEF SnapInv, JobInv, JobOK
<1>8. Known' = Known /\ log' = log /\ counter' = counter
  BY <1>3 DEF Known
<1>9. Kept(covers, seq, blind, raced)'
  BY <1>7, <1>8 DEF Kept, NoneAbove, AllBelow, Ids, Numbered
<1>10. SaveInv'
  BY <1>1, <1>2, <1>9 DEF SaveInv
<1>11. JobOK(r)'
  BY <1>1, <1>3 DEF JobOK, SnapshotsTypeOK
<1> QED
  BY <1>1, <1>3, <1>6, <1>10, <1>11, JobStep DEF SnapshotsTypeOK

LEMMA RebuildEndsSnapInv == ASSUME SnapInv, NEW r \in Rebuilder, RebuildEnds(r) PROVE SnapInv'
<1>1. job' = [job EXCEPT ![r] = None] /\ UNCHANGED <<vars, snapshot, boot>>
  BY DEF RebuildEnds
<1>2. SnapshotsTypeOK /\ TypeOK'
  BY <1>1, StoreStays DEF SnapInv, StoreInv
<1>3. SnapshotsTypeOK' /\ JobOK(r)' /\ \A s \in Rebuilder : s # r => job'[s] = job[s]
  BY <1>1, <1>2 DEF SnapshotsTypeOK, JobOK
<1> QED
  BY <1>1, <1>3, JobStep

-----------------------------------------------------------------------------
LEMMA InitSnapInv == SnapshotsInit => SnapInv
<1> SUFFICES ASSUME SnapshotsInit PROVE SnapInv
  OBVIOUS
<1>1. /\ TypeOK /\ SeqUnique /\ log = {} /\ snapshot = None
      /\ \A p \in Proc : draft[p] = None /\ made[p] = {}
  BY InitLogInv DEF SnapshotsInit, Init, LogInv
<1>2. SnapshotsTypeOK
  BY <1>1 DEF SnapshotsInit, SnapshotsTypeOK, Boot
<1>3. Apart
  BY <1>1 DEF Apart
<1>4. CutoverDrafted
  BY DEF SnapshotsInit, CutoverDrafted
<1>5. JobInv /\ SaveInv
  BY <1>1 DEF SnapshotsInit, JobInv, JobOK, SaveInv
<1> QED
  BY <1>1, <1>2, <1>3, <1>4, <1>5 DEF SnapInv, StoreInv

LEMMA StepSnapInv == SnapInv /\ [SnapshotsNext]_allVars => SnapInv'
<1> SUFFICES ASSUME SnapInv, [SnapshotsNext]_allVars PROVE SnapInv'
  OBVIOUS
<1>1. ASSUME NEW p \in Recorder, Cutover(p) \/ Record(p) \/ Die(p) PROVE SnapInv'
  BY <1>1, CutoverSnapInv, RecordSnapInv, RestartSnapInv
<1>2. ASSUME NEW p \in Emitter, Mcp(p) PROVE SnapInv'
  BY <1>2, McpSnapInv
<1>3. ASSUME NEW r \in Rebuilder, Rebuild(r) PROVE SnapInv'
  BY <1>3, RebuildLoadSnapInv, RebuildMarkSnapInv, RebuildSaveSnapInv, RebuildEndsSnapInv
     DEF Rebuild
<1>4. CASE UNCHANGED allVars
  <2>1. UNCHANGED vars /\ UNCHANGED <<snapshot, job, boot>>
    BY <1>4 DEF allVars, snapshotVars
  <2>2. TypeOK' /\ Moves /\ SeqUnique' /\ Apart' /\ draft' = draft
    BY <2>1, StoreStays DEF SnapInv
  <2>3. SnapshotsTypeOK' /\ CutoverDrafted'
    BY <2>1, <2>2 DEF SnapInv, StoreInv, SnapshotsTypeOK, CutoverDrafted
  <2>4. JobInv' /\ SaveInv'
    BY <2>1, <2>2, JobStays, SaveStays DEF JobInv
  <2> QED
    BY <2>2, <2>3, <2>4 DEF SnapInv, StoreInv
<1> QED
  BY <1>1, <1>2, <1>3, <1>4 DEF SnapshotsNext

\* The types of the store, of the snapshot and of what rebuilds have read.
THEOREM SnapshotTypes == SnapshotsSpec => []SnapshotsTypeOK
<1>1. SnapInv => SnapshotsTypeOK
  BY DEF SnapInv, StoreInv
<1> QED
  BY <1>1, InitSnapInv, StepSnapInv, PTL DEF SnapshotsSpec

\* The numbers stay unique with cutovers numbering events of their own.
THEOREM CutoverKeepsNumbers == SnapshotsSpec => []SeqUnique
<1>1. SnapInv => SeqUnique
  BY DEF SnapInv, StoreInv
<1> QED
  BY <1>1, InitSnapInv, StepSnapInv, PTL DEF SnapshotsSpec

\* Recovery counts no event twice that the counter numbered, however many
\* processes rebuild, cut over, record and emit, unless the rebuild could not
\* read the counter.  Of an emitter's events, which LoadAfterSeqNr does not tell
\* from them, it says nothing (store_file.go).
THEOREM NothingReplayedTwice == SnapshotsSpec => []NoDoubleReplay
<1>1. SnapInv => NoDoubleReplay
  <2> SUFFICES ASSUME SnapInv, snapshot # None, ~snapshot.blind, NEW e \in Numbered(Twice)
               PROVE  FALSE
    BY DEF NoDoubleReplay
  <2>1. e \in Numbered(log) /\ e.id \in snapshot.covers /\ e.seq > snapshot.seq
    BY DEF Twice, Covered, Replayed, Numbered
  <2>2. NoneAbove(snapshot.covers, snapshot.seq)
    BY DEF SnapInv, SaveInv, Kept
  <2>3. e.seq \in Nat /\ snapshot.seq \in Nat
    BY <2>1, EventFacts DEF SnapInv, StoreInv, SnapshotsTypeOK, TypeOK, Numbered
  <2> QED
    BY <2>1, <2>2, <2>3 DEF NoneAbove
<1> QED
  BY <1>1, InitSnapInv, StepSnapInv, PTL DEF SnapshotsSpec

\* It counts each of them exactly once if the rebuild met a quiet log.
THEOREM QuietRebuildIsExact == SnapshotsSpec => []ExactWhenQuiet
<1>1. SnapInv => ExactWhenQuiet
  <2> SUFFICES ASSUME SnapInv, snapshot # None, ~snapshot.blind, ~snapshot.raced,
                      NEW e \in Numbered(Twice \cup Missed)
               PROVE  FALSE
    BY DEF ExactWhenQuiet
  <2>1. e \in Numbered(log) /\ e \in Numbered(Known)
    BY DEF Twice, Missed, Covered, Numbered, Known
  <2>2. e.seq \in Nat /\ snapshot.seq \in Nat /\ e.seq > 0
    BY <2>1, EventFacts
       DEF SnapInv, StoreInv, SnapshotsTypeOK, TypeOK, Numbered, SeqUnique
  <2>3. NoneAbove(snapshot.covers, snapshot.seq) /\ AllBelow(snapshot.covers, snapshot.seq)
    BY DEF SnapInv, SaveInv, Kept
  <2>4. CASE e \in Twice
    BY <2>1, <2>2, <2>3, <2>4 DEF NoneAbove, Twice, Covered, Replayed
  <2>5. CASE e \in Missed
    <3>1. e.seq <= snapshot.seq /\ e.id \notin snapshot.covers
      BY <2>1, <2>2, <2>5 DEF Missed, Covered, Replayed, Numbered
    <3> QED
      BY <2>1, <2>3, <3>1 DEF AllBelow
  <2> QED
    BY <2>4, <2>5 DEF Numbered
<1> QED
  BY <1>1, InitSnapInv, StepSnapInv, PTL DEF SnapshotsSpec

=============================================================================

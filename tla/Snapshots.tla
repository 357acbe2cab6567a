------------------------------ MODULE Snapshots --------------------------------
(***************************************************************************)
(* Snapshots of the projected state beside the event log: paintress        *)
(* rebuild replays the log and saves the result at the counter's           *)
(* watermark, RunCutover saves an empty one when a session starts          *)
(* numbering the events of a project that has unnumbered ones.  All of     *)
(* them run while other processes append.                                  *)
(***************************************************************************)
EXTENDS EventLog

CONSTANT Rebuilder     \* processes running paintress rebuild

VARIABLES
  snapshot,  \* snapshots/paintress.state.json, or None
  job,       \* per rebuilder, what it has read so far, or None
  boot       \* per recorder, where it is in RunCutover

snapshotVars == <<snapshot, job, boot>>
allVars      == <<vars, snapshotVars>>

Boot == {"start", "checked", "loaded", "saved", "numbered", "ready"}

\* What a rebuild has read: the ids it replayed and, once it has it, the
\* watermark (None until then).  For the properties: since is the counter when
\* it loaded, 0 with a numbered event then on its way to the log; raced, that
\* there was one or that a number was drawn before the watermark was read;
\* blind, that the counter could not be read.
Loaded(covers, since) ==
  [covers |-> covers, mark |-> None, since |-> since, raced |-> FALSE, blind |-> FALSE]
Marked(read, mark, blind) ==
  [covers |-> read.covers, mark |-> mark, since |-> 0,
   raced |-> read.since # counter, blind |-> blind]

Ids(events) == {e.id : e \in events}
InFlight    == Numbered(Known \ log) # {}

SnapshotsInit ==
  /\ Init
  /\ snapshot = None
  /\ job = [r \in Rebuilder |-> None]
  /\ boot = [p \in Recorder |-> "start"]

-----------------------------------------------------------------------------
\* Rebuild: LoadAll and the replay.
RebuildLoad(r) ==
  /\ job[r] = None
  /\ job' = [job EXCEPT ![r] = Loaded(Ids(log), IF InFlight THEN 0 ELSE counter)]
  /\ UNCHANGED <<vars, snapshot, boot>>

\* Mutant of RebuildMark: the log is read again after the watermark.
RebuildMarkReloads(r) ==
  /\ job[r] # None
  /\ job[r].mark = None
  /\ job' = [job EXCEPT ![r] = Marked(Loaded(Ids(log), job[r].since), job[r].since - 1, FALSE)]
  /\ job[r].since > 0
  /\ UNCHANGED <<vars, snapshot, boot>>

\* Then the watermark; it stays 0 if the counter cannot be read.
RebuildMark(r) ==
  /\ job[r] # None
  /\ job[r].mark = None
  /\ \E blind \in BOOLEAN :
       job' = [job EXCEPT ![r] = IF blind THEN Marked(job[r], 0, TRUE)
                                    ELSE Marked(job[r], counter - 1, FALSE)]
  /\ UNCHANGED <<vars, snapshot, boot>>

\* Mutant of RebuildSave: the watermark is LatestSeqNr of the log as it is
\* when the snapshot is saved.
RebuildSaveLate(r) ==
  /\ job[r] # None
  /\ job[r].mark # None
  /\ snapshot' = [seq |-> counter - 1, covers |-> job[r].covers,
                  blind |-> job[r].blind, raced |-> job[r].raced]
  /\ job' = [job EXCEPT ![r] = None]
  /\ UNCHANGED <<vars, boot>>

\* Save replaces the file in one rename, whatever it holds by then.
RebuildSave(r) ==
  /\ job[r] # None
  /\ job[r].mark # None
  /\ snapshot' = [seq |-> job[r].mark, covers |-> job[r].covers,
                  blind |-> job[r].blind, raced |-> job[r].raced]
  /\ job' = [job EXCEPT ![r] = None]
  /\ UNCHANGED <<vars, boot>>

\* Save fails, which is only logged, or the process dies.
RebuildEnds(r) ==
  /\ job[r] # None
  /\ job' = [job EXCEPT ![r] = None]
  /\ UNCHANGED <<vars, snapshot, boot>>

-----------------------------------------------------------------------------
BootStep(p, from, to) == boot[p] = from /\ boot' = [boot EXCEPT ![p] = to]

\* RunCutover, step 1: with a number drawn already there is nothing to do.
CheckCounter(p) ==
  /\ BootStep(p, "start", IF counter > 1 THEN "ready" ELSE "checked")
  /\ UNCHANGED <<vars, snapshot, job>>

\* Step 2: nor without events.
LoadLegacy(p) ==
  /\ BootStep(p, "checked", IF log = {} THEN "ready" ELSE "loaded")
  /\ UNCHANGED <<vars, snapshot, job>>

\* Step 3: the sentinel, a snapshot at 0 whose state is "null".
SaveSentinel(p) ==
  /\ BootStep(p, "loaded", "saved")
  /\ snapshot' = [seq |-> 0, covers |-> {}, blind |-> FALSE, raced |-> FALSE]
  /\ UNCHANGED <<vars, job>>

\* Mutant of AllocCutover: the event is numbered 1 without asking the counter.
CutoverIsOne(p) ==
  /\ clock <= MaxEvent
  /\ BootStep(p, "saved", "numbered")
  /\ draft' = [draft EXCEPT ![p] = [id |-> clock, by |-> None, seq |-> 1, cause |-> 0]]
  /\ counter' = IF counter = 1 THEN 2 ELSE counter
  /\ clock' = clock + 1
  /\ UNCHANGED <<fileVars, made, prev, local, failed, snapshot, job>>

\* Step 5: system.cutover gets the next number and is appended.
AllocCutover(p) ==
  /\ clock <= MaxEvent
  /\ BootStep(p, "saved", "numbered")
  /\ draft' = [draft EXCEPT ![p] =
                 [id |-> clock, by |-> None, seq |-> counter, cause |-> 0]]
  /\ counter' = counter + 1
  /\ clock' = clock + 1
  /\ UNCHANGED <<fileVars, made, prev, local, failed, snapshot, job>>

AppendCutover(p) ==
  /\ BootStep(p, "numbered", "ready")
  /\ WholeLine(draft[p])
  /\ draft' = [draft EXCEPT ![p] = None]
  /\ UNCHANGED <<counter, clock, made, prev, local, failed, snapshot, job>>

\* An error of any step is the end of the session's start: it is tried again
\* by the next one, or the process dies there.
CutoverFails(p) ==
  /\ boot[p] \in Boot \ {"start", "ready"}
  /\ Restart(p)
  /\ boot' = [boot EXCEPT ![p] = "start"]
  /\ UNCHANGED <<snapshot, job>>

Record(p) ==
  /\ boot[p] = "ready"
  /\ \/ Create(p) \/ Append(p) \/ AppendFails(p)
     \/ \E i \in Id : AllocSeqNr(p, i)
  /\ UNCHANGED snapshotVars

Die(p) ==
  /\ boot[p] = "ready"
  /\ Restart(p)
  /\ boot' = [boot EXCEPT ![p] = "start"]
  /\ UNCHANGED <<snapshot, job>>

Mcp(p) ==
  /\ Emit(p) \/ Append(p) \/ AppendFails(p) \/ Restart(p)
  /\ UNCHANGED snapshotVars

Cutover(p) ==
  \/ CheckCounter(p) \/ LoadLegacy(p) \/ SaveSentinel(p)
  \/ AllocCutover(p) \/ AppendCutover(p) \/ CutoverFails(p)

Rebuild(r) == RebuildLoad(r) \/ RebuildMark(r) \/ RebuildSave(r) \/ RebuildEnds(r)

SnapshotsNext ==
  \/ \E p \in Recorder : Cutover(p) \/ Record(p) \/ Die(p)
  \/ \E p \in Emitter : Mcp(p)
  \/ \E r \in Rebuilder : Rebuild(r)

SnapshotsSpec == SnapshotsInit /\ [][SnapshotsNext]_allVars

-----------------------------------------------------------------------------
SnapshotsTypeOK ==
  /\ TypeOK
  /\ snapshot \in [seq : Nat, covers : SUBSET Id,
                   blind : BOOLEAN, raced : BOOLEAN] \cup {None}
  /\ job \in [Rebuilder -> [covers : SUBSET Id, mark : Nat \cup {None},
                            since : Nat, raced : BOOLEAN,
                            blind : BOOLEAN] \cup {None}]
  /\ boot \in [Recorder -> Boot]

\* What LoadAfterSeqNr adds to the snapshot, and what the snapshot holds.  The
\* numbers are compared whoever gave them: also an emitter's event, which its
\* aggregate numbered from 1, is replayed if its number happens to be above the
\* watermark, although the rebuild has counted it already.
Replayed == {e \in log : e.seq > 0 /\ e.seq > snapshot.seq}
Covered  == {e \in log : e.id \in snapshot.covers}

Twice  == Covered \cap Replayed
Missed == log \ (Covered \cup Replayed)

\* Recovery from the snapshot and LoadAfterSeqNr counts no event of the counter
\* twice, however rebuilds, cutovers, recorders and MCP sessions interleave,
\* unless the rebuild could not read the counter: what is counted twice is an
\* emitter's.
NoDoubleReplay ==
  snapshot # None /\ ~snapshot.blind => Numbered(Twice) = {}

\* It counts each of them exactly once if no number was drawn, and none was on
\* its way to the log, while the rebuild read the log and then the watermark:
\* what is counted twice or not at all is then an emitter's.
ExactWhenQuiet ==
  snapshot # None /\ ~snapshot.blind /\ ~snapshot.raced =>
    Numbered(Twice \cup Missed) = {}

\* ADR S0040: "Snapshot recovery: deserialize snapshot [...] + replay SeqNr >
\* snapshot.SeqNr" misses no event that the counter numbered.
NothingSkipped == snapshot # None => Numbered(Missed) = {}

=============================================================================

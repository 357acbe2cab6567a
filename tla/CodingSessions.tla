---------------------------- MODULE CodingSessions ----------------------------
(***************************************************************************)
(* The records of AI coding sessions: a process makes a record, saves it,  *)
(* finishes it in memory, where only a running record may be finished, and  *)
(* writes the outcome to the shared SQLite table, where UPDATE asks        *)
(* nothing.  `sessions enter` and `status` read the table.  A process owns *)
(* one record, which has its name as ID.  Creation times compare as texts. *)
(***************************************************************************)
EXTENDS Rfc3339, Sequences, FiniteSets, SequencesExt

CONSTANTS CsProc,       \* processes that record a session
          CsProvider,   \* provider session IDs
          CsNoId,       \* the empty provider session ID
          CsMaxTime     \* bound on the clock

ASSUME CodingSessionsAssumption == CsMaxTime \in Nat /\ CsNoId \notin CsProvider

VARIABLES
  csNow,      \* the clock, in half seconds
  csRows,     \* table coding_sessions
  csMem,      \* per process: {} or its record
  csPc,       \* per process: "new", "made", "saved", "finished", "done" or "dead"
  csEntered   \* history: {} or the session last entered, the rows and what was asked for

csVars == <<csNow, csRows, csMem, csPc, csEntered>>

CsStatus == {"running", "completed", "failed", "abandoned"}

CsMeta == [state : {"none", "active", "paused"}, reason : {"none", "rate_limit"}]

CsRecord == [id : CsProc, provider : {"claude-code", "codex"}, sid : CsProvider \union {CsNoId},
             status : CsStatus, dir : BOOLEAN, created : 0 .. CsMaxTime, meta : CsMeta]

CsInit ==
  /\ csNow = 0
  /\ csRows = {}
  /\ csMem = [p \in CsProc |-> {}]
  /\ csPc = [p \in CsProc |-> "new"]
  /\ csEntered = {}

CsGoes(p, to) == csPc' = [csPc EXCEPT ![p] = to]

CsTick ==
  /\ csNow < CsMaxTime
  /\ csNow' = csNow + 1
  /\ UNCHANGED <<csRows, csMem, csPc, csEntered>>

\* NewCodingSessionRecord: running, no provider session yet.
NewCodingSessionRecord(p) ==
  /\ csPc[p] = "new"
  /\ \E provider \in {"claude-code", "codex"}, dir \in BOOLEAN :
       csMem' = [csMem EXCEPT ![p] =
         {[id |-> p, provider |-> provider, sid |-> CsNoId, status |-> "running", dir |-> dir,
           created |-> csNow, meta |-> [state |-> "none", reason |-> "none"]]}]
  /\ CsGoes(p, "made")
  /\ UNCHANGED <<csNow, csRows, csEntered>>

\* Save: INSERT OR REPLACE.
SaveSession(p) ==
  /\ csPc[p] = "made"
  /\ csRows' = {r \in csRows : r.id # p} \union csMem[p]
  /\ CsGoes(p, "saved")
  /\ UNCHANGED <<csNow, csMem, csEntered>>

\* ProviderStateSnapshot.ApplyMetadata: an empty reason leaves the old one.
ApplyMetadata(meta, state, reason) ==
  [state |-> state, reason |-> IF reason = "none" THEN meta.reason ELSE reason]

\* Record r with what the outcome of a session sets.
WithOutcome(r, status, sid, meta) ==
  [id |-> r.id, provider |-> r.provider, sid |-> sid, status |-> status, dir |-> r.dir,
   created |-> r.created, meta |-> meta]

\* Complete.  The provider session may be one a resumed session had before.
CompleteSession(p) ==
  /\ csPc[p] = "saved"
  /\ \E r \in csMem[p], sid \in CsProvider :
       /\ r.status = "running"
       /\ csMem' = [csMem EXCEPT ![p] =
            {WithOutcome(r, "completed", sid, ApplyMetadata(r.meta, "active", "none"))}]
  /\ CsGoes(p, "finished")
  /\ UNCHANGED <<csNow, csRows, csEntered>>

\* Fail: the provider session ID is kept as it is.
FailSession(p) ==
  /\ csPc[p] = "saved"
  /\ \E r \in csMem[p] :
       /\ r.status = "running"
       /\ csMem' = [csMem EXCEPT ![p] =
            {WithOutcome(r, "failed", r.sid, ApplyMetadata(r.meta, "paused", "rate_limit"))}]
  /\ CsGoes(p, "finished")
  /\ UNCHANGED <<csNow, csRows, csEntered>>

\* UpdateStatus: status, provider session and metadata of an existing row.
UpdateStatus(p) ==
  /\ csPc[p] = "finished"
  /\ csRows' = {r \in csRows : r.id # p} \union
       {WithOutcome(r, m.status, m.sid, m.meta) : r \in {s \in csRows : s.id = p}, m \in csMem[p]}
  /\ CsGoes(p, "done")
  /\ UNCHANGED <<csNow, csMem, csEntered>>

\* The process dies, or a statement of its fails: nothing is written any more.
SessionLost(p) ==
  /\ csPc[p] \in {"made", "saved", "finished"}
  /\ CsGoes(p, "dead")
  /\ UNCHANGED <<csNow, csRows, csMem, csEntered>>

\* Mutant of LatestRows: ORDER BY created_at, without DESC.
EarliestRows(rows) == {r \in rows : \A s \in rows : ~TextBefore(s.created, r.created)}

\* ORDER BY created_at DESC: the rows that may come first.
LatestRows(rows) == {r \in rows : \A s \in rows : ~TextBefore(r.created, s.created)}

OfProviderSession(sid) == {r \in csRows : r.provider = "claude-code" /\ r.sid = sid}

\* LatestByProviderSessionID.
LatestByProviderSessionID(sid) == LatestRows(OfProviderSession(sid))

\* The order in which List may return the rows of a status, up to the limit.
ListOrders(status, limit) ==
  LET rows == {r \in csRows : r.status = status}
  IN  {SubSeq(o, 1, IF Len(o) < limit THEN Len(o) ELSE limit) : o \in {q \in SetToSeqs(rows) :
         \A i, j \in DOMAIN q : i < j => ~TextBefore(q[i].created, q[j].created)}}

\* `sessions enter`, by record or by provider session: it needs a provider
\* session and a work directory.
EnterSession ==
  /\ \/ \E p \in CsProc : \E r \in {s \in csRows : s.id = p} :
          /\ r.sid # CsNoId /\ r.dir
          /\ csEntered' = {[session |-> r, among |-> {r}]}
     \/ \E sid \in CsProvider : \E r \in LatestByProviderSessionID(sid) :
          /\ r.sid # CsNoId /\ r.dir
          /\ csEntered' = {[session |-> r, among |-> OfProviderSession(sid)]}
  /\ UNCHANGED <<csNow, csRows, csMem, csPc>>

CsNext ==
  \/ CsTick
  \/ \E p \in CsProc : \/ NewCodingSessionRecord(p) \/ SaveSession(p)
                       \/ CompleteSession(p) \/ FailSession(p)
                       \/ UpdateStatus(p) \/ SessionLost(p)
  \/ EnterSession

CsSpec == CsInit /\ [][CsNext]_csVars

-----------------------------------------------------------------------------

\* Every variable has its type.
CsTypeOK ==
  /\ csNow \in 0 .. CsMaxTime
  /\ csRows \subseteq CsRecord
  /\ csMem \in [CsProc -> SUBSET CsRecord]
  /\ csPc \in [CsProc -> {"new", "made", "saved", "finished", "done", "dead"}]

\* A session entered by provider session is the newest of its name, up to the
\* second: within one second the text order may prefer the older.
EntersNewest ==
  \A e \in csEntered : \A r \in e.among : Second(r.created) <= Second(e.session.created)

\* What `sessions list` shows of a status is complete up to the limit, and
\* what it leaves out is not newer, by the second, than what it shows.
ListsNewest ==
  \A status \in CsStatus : \A o \in ListOrders(status, 1) :
    LET rows == {r \in csRows : r.status = status}
    IN  /\ rows # {} => o # <<>>
        /\ \A i \in DOMAIN o, r \in rows : Second(r.created) <= Second(o[i].created)

\* A record whose process is done stands as that process left it, one row each;
\* a running row belongs to a process that is at work or was lost.
RowsFollowProcesses ==
  /\ \A r, s \in csRows : r.id = s.id => r = s
  /\ \A p \in CsProc : csPc[p] = "done" => csMem[p] \subseteq csRows
  /\ \A r \in csRows : r.status = "running" => csPc[r.id] \in {"saved", "finished", "dead"}

\* What the table shows of the sessions.
CodingSessionsSound == EntersNewest /\ ListsNewest /\ RowsFollowProcesses

===============================================================================

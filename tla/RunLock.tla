------------------------------- MODULE RunLock -------------------------------
(***************************************************************************)
(* The run lock: a row of a shared SQLite table says which process runs    *)
(* the expeditions of a repository, and until when.  Every statement is a  *)
(* transaction of its own; the caller reads the clock once, before the     *)
(* first one.  The table compares times as texts (module Rfc3339).         *)
(* One run key is modelled; keys do not interact.                          *)
(***************************************************************************)
EXTENDS Rfc3339, FiniteSets

CONSTANTS LockHolder,   \* stores, by the holder ID (a UUID) each made for itself
          LockTTL,      \* length of a lease, in half seconds
          LockMaxTime,  \* bound on the clock
          NoHolder      \* the ID of a guard that is not its store's

ASSUME RunLockAssumption ==
  /\ LockTTL \in Nat
  /\ LockMaxTime \in Nat
  /\ NoHolder \notin LockHolder

VARIABLES
  lockNow,    \* the clock, in half seconds
  lockRows,   \* table run_locks: [holder, expires]
  lockPc,     \* what each store is doing
  lockStart,  \* per store: the clock when its TryAcquire began
  lockLease   \* history, per holder: {} or the lease [from, until] it was granted and kept

lockVars == <<lockNow, lockRows, lockPc, lockStart, lockLease>>

LockPc == {"new", "idle", "insert", "query", "delete", "closed"}

LockInit ==
  /\ lockNow = 0
  /\ lockRows = {}
  /\ lockPc = [h \in LockHolder |-> "new"]
  /\ lockStart = [h \in LockHolder |-> 0]
  /\ lockLease = [h \in LockHolder |-> {}]

LockTick ==
  /\ lockNow < LockMaxTime
  /\ lockNow' = lockNow + 1
  /\ UNCHANGED <<lockRows, lockPc, lockStart, lockLease>>

LockGoes(h, to) == lockPc' = [lockPc EXCEPT ![h] = to]

\* A call returns; its reading of the clock goes with it.
LockReturns(h) ==
  /\ LockGoes(h, "idle")
  /\ lockStart' = [lockStart EXCEPT ![h] = 0]

\* NewSQLiteRunLockStore.
LockOpen(h) ==
  /\ lockPc[h] = "new"
  /\ LockGoes(h, "idle")
  /\ UNCHANGED <<lockNow, lockRows, lockStart, lockLease>>

\* TryAcquire reads the clock ...
TryAcquire(h) ==
  /\ lockPc[h] = "idle"
  /\ LockGoes(h, "delete")
  /\ lockStart' = [lockStart EXCEPT ![h] = lockNow]
  /\ UNCHANGED <<lockNow, lockRows, lockLease>>

\* Mutant of Stale: the table is cleared whatever its row says.
StaleAnyRow(now) == lockRows

\* The rows that DELETE ... expires_at < now removes.
Stale(now) == {r \in lockRows : TextBefore(r.expires, now)}

\* ... removes an expired row ...
DeleteStale(h) ==
  /\ lockPc[h] = "delete"
  /\ lockRows' = lockRows \ Stale(lockStart[h])
  /\ LockGoes(h, "insert")
  /\ UNCHANGED <<lockNow, lockStart, lockLease>>

\* ... and inserts its own, which the primary key forbids while there is another.
InsertRow(h) ==
  /\ lockPc[h] = "insert"
  /\ IF lockRows = {}
       THEN /\ lockRows' = {[holder |-> h, expires |-> lockStart[h] + LockTTL]}
            /\ lockLease' = [lockLease EXCEPT
                 ![h] = {[from |-> lockNow, until |-> lockStart[h] + LockTTL]}]
            /\ LockReturns(h)
       ELSE /\ LockGoes(h, "query")
            /\ UNCHANGED <<lockRows, lockStart, lockLease>>
  /\ UNCHANGED lockNow

\* "run locked by ...", or an error when the row is gone by now.
QueryHolder(h) ==
  /\ lockPc[h] = "query"
  /\ LockReturns(h)
  /\ UNCHANGED <<lockNow, lockRows, lockLease>>

\* The database is busy, or the context cancelled: TryAcquire returns an error.
StatementFails(h) ==
  /\ lockPc[h] \in {"delete", "insert", "query"}
  /\ LockReturns(h)
  /\ UNCHANGED <<lockNow, lockRows, lockLease>>

\* Mutant of RowsOf: DELETE without "AND holder = ?".
RowsOfAnybody(id) == lockRows

\* The rows that Release(key, id) deletes.
RowsOf(id) == {r \in lockRows : r.holder = id}

\* Release with the ID that TryAcquire returned; a run guard passes the ID it
\* was built with, which need not be its store's.  No row deleted is an error.
Release(h) ==
  /\ lockPc[h] = "idle"
  /\ \E id \in {h, NoHolder} :
       /\ lockRows' = lockRows \ RowsOf(id)
       /\ lockLease' = [lockLease EXCEPT ![h] = IF id = h THEN {} ELSE @]
  /\ UNCHANGED <<lockNow, lockPc, lockStart>>

\* Close, or the death of the process; another store has another ID.
LockClose(h) ==
  /\ lockPc[h] \notin {"new", "closed"}
  /\ LockGoes(h, "closed")
  /\ lockStart' = [lockStart EXCEPT ![h] = 0]
  /\ UNCHANGED <<lockNow, lockRows, lockLease>>

LockNext ==
  \/ LockTick
  \/ \E h \in LockHolder :
       \/ LockOpen(h)
       \/ TryAcquire(h)
       \/ DeleteStale(h)
       \/ InsertRow(h)
       \/ QueryHolder(h)
       \/ StatementFails(h)
       \/ Release(h)
       \/ LockClose(h)

LockSpec == LockInit /\ [][LockNext]_lockVars

\* IsHeld: the holders whose row it finds not expired.
IsHeld(now) == {r.holder : r \in lockRows \ Stale(now)}

-----------------------------------------------------------------------------
\* Every variable has its type.
LockTypeOK ==
  /\ lockNow \in 0 .. LockMaxTime
  /\ lockRows \subseteq [holder : LockHolder, expires : Nat]
  /\ lockPc \in [LockHolder -> LockPc]
  /\ lockStart \in [LockHolder -> Nat]
  /\ lockLease \in [LockHolder -> SUBSET [from : Nat, until : Nat]]

\* A lease that was granted and not given back shows until the second in which
\* it ends: IsHeld names its holder, and no other holder has been granted one
\* that began in an earlier second.  Stale clocks of slow callers, releases of
\* leases that have run out and the text comparison can shorten it by no more.
OneRunPerKey ==
  /\ \A h \in LockHolder : \A l \in lockLease[h] :
       l.until \div 2 > lockNow \div 2 => IsHeld(lockNow) = {h}
  /\ \A g, h \in LockHolder : \A k \in lockLease[g], l \in lockLease[h] :
       g # h => \/ k.until \div 2 <= l.from \div 2
                \/ l.until \div 2 <= k.from \div 2

=============================================================================

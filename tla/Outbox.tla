-------------------------------- MODULE Outbox --------------------------------
(***************************************************************************)
(* The SQLite outbox of internal/session/outbox_store.go, shared by every  *)
(* paintress process of a project: the "staged" table, the flush           *)
(* transaction that copies rows to archive/ and outbox/, and the two       *)
(* maintenance statements.  Files are not part of the transaction: a       *)
(* rollback leaves what was already renamed into place.                    *)
(***************************************************************************)
EXTENDS Naturals, FiniteSets

CONSTANTS Proc,       \* the processes that have the database open
          Name, Data, \* d-mail file names and contents
          Mails,      \* the d-mails callers may stage, a subset of Name \X Data
          MaxRetry,   \* maxRetryCount
          None        \* no row, no file, nobody

Row == [data : Data, flushed : BOOLEAN, retry : 0 .. MaxRetry]

ASSUME OutboxAssumption ==
  /\ Mails \subseteq Name \X Data
  /\ MaxRetry \in Nat \ {0}
  /\ None \notin Row
  /\ None \notin Data
  /\ None \notin Name
  /\ None \notin Proc

VARIABLES
  staged,    \* the committed table: a row or None per name
  writer,    \* the process inside BEGIN IMMEDIATE ... COMMIT, or None
  view,      \* the table as the writer's transaction sees it
  todo,      \* items the flush loop has not finished
  current,   \* the item whose archive/ copy is in place, outbox/ copy not yet
  archive,   \* archive/: contents or None per name
  outbox,    \* outbox/: likewise
  accepted,  \* history: d-mails whose Stage statement succeeded
  handed,    \* history: d-mails renamed into outbox/
  dropped    \* history: d-mails removed as dead letters

txnVars     == <<writer, view, todo, current>>
fileVars    == <<archive, outbox>>
historyVars == <<accepted, handed, dropped>>
vars        == <<staged, txnVars, fileVars, historyVars>>

Pending(table)     == {n \in Name : table[n] # None /\ ~table[n].flushed}
\* Mutants of Eligible: the bound on retry_count dropped, and off by one.
EligibleUnbounded(table) == Pending(table)
EligibleOffByOne(table)  == {n \in Pending(table) : table[n].retry + 1 < MaxRetry}

Eligible(table)    == {n \in Pending(table) : table[n].retry < MaxRetry}
DeadLetters(table) == {n \in Pending(table) : table[n].retry >= MaxRetry}

\* A row after SET flushed = 1, and after k counted failures.
MarkedFlushed(row) == [data |-> row.data, flushed |-> TRUE, retry |-> row.retry]
Failed(row, k)     == [data |-> row.data, flushed |-> row.flushed, retry |-> row.retry + k]

\* Rows this transaction has marked flushed: what Flush counts and returns.
Marked == Eligible(staged) \ Pending(view)

Init ==
  /\ staged = [n \in Name |-> None]
  /\ writer = None
  /\ view = staged
  /\ todo = {}
  /\ current = None
  /\ archive = [n \in Name |-> None]
  /\ outbox = [n \in Name |-> None]
  /\ accepted = {}
  /\ handed = {}
  /\ dropped = {}

\* A single write statement of any process: it needs the write lock, which a
\* flush transaction holds from BEGIN IMMEDIATE on.
Autocommit(table) ==
  /\ writer = None
  /\ staged' = table
  /\ view' = table
  /\ UNCHANGED <<writer, todo, current, fileVars>>

\* Mutants of Stage: the upsert forgets "flushed = 0"; INSERT OR IGNORE.
StageKeepsFlushed(n, d) ==
  /\ Autocommit([staged EXCEPT ![n] =
       [data |-> d, flushed |-> staged[n] # None /\ staged[n].flushed, retry |-> 0]])
  /\ accepted' = accepted \cup {<<n, d>>}
  /\ UNCHANGED <<handed, dropped>>

StageOrIgnore(n, d) ==
  /\ Autocommit(IF staged[n] # None THEN staged ELSE
       [staged EXCEPT ![n] = [data |-> d, flushed |-> FALSE, retry |-> 0]])
  /\ accepted' = accepted \cup {<<n, d>>}
  /\ UNCHANGED <<handed, dropped>>

Stage(n, d) ==
  /\ Autocommit([staged EXCEPT ![n] = [data |-> d, flushed |-> FALSE, retry |-> 0]])
  /\ accepted' = accepted \cup {<<n, d>>}
  /\ UNCHANGED <<handed, dropped>>

\* Mutant of PruneFlushed: dead letters go with the flushed rows.
PruneDeadLettersToo ==
  /\ Autocommit([n \in Name |-> IF n \in Eligible(staged) THEN staged[n] ELSE None])
  /\ UNCHANGED historyVars

PruneFlushed ==
  /\ Autocommit([n \in Name |-> IF n \in Pending(staged) THEN staged[n] ELSE None])
  /\ UNCHANGED historyVars

PurgeDeadLetters ==
  /\ Autocommit([n \in Name |-> IF n \in DeadLetters(staged) THEN None ELSE staged[n]])
  /\ dropped' = dropped \cup {<<n, staged[n].data>> : n \in DeadLetters(staged)}
  /\ UNCHANGED <<accepted, handed>>

\* Mutants of BeginFlush: BEGIN instead of BEGIN IMMEDIATE; a SELECT without
\* "flushed = 0".
BeginFlushDeferred(p) ==
  /\ Eligible(staged) # {}
  /\ writer' = p
  /\ todo' = Eligible(staged)
  /\ UNCHANGED <<staged, view, current, fileVars, historyVars>>

BeginFlushAll(p) ==
  /\ writer = None
  /\ Eligible(staged) # {}
  /\ writer' = p
  /\ todo' = {n \in Name : staged[n] # None /\ staged[n].retry < MaxRetry}
  /\ UNCHANGED <<staged, view, current, fileVars, historyVars>>

\* BEGIN IMMEDIATE and the SELECT.  With nothing to flush the transaction is
\* rolled back at once, which changes no state.
BeginFlush(p) ==
  /\ writer = None
  /\ Eligible(staged) # {}
  /\ writer' = p
  /\ todo' = Eligible(staged)
  /\ UNCHANGED <<staged, view, current, fileVars, historyVars>>

\* The item's archive/ copy is renamed into place.
ArchiveItem(p, n) ==
  /\ writer = p
  /\ n \in todo
  /\ current = None
  /\ archive' = [archive EXCEPT ![n] = view[n].data]
  /\ current' = n
  /\ UNCHANGED <<staged, writer, view, todo, outbox, historyVars>>

\* Mutant of DeliverItem: outbox/ does not wait for archive/.
DeliverUnarchived(p, n) ==
  /\ writer = p
  /\ current \in {None, n}
  /\ n \in todo
  /\ outbox' = [outbox EXCEPT ![n] = view[n].data]
  /\ handed' = handed \cup {<<n, view[n].data>>}
  /\ view' = [view EXCEPT ![n] = MarkedFlushed(view[n])]
  /\ todo' = todo \ {n}
  /\ current' = None
  /\ UNCHANGED <<staged, writer, archive, accepted, dropped>>

\* Its outbox/ copy follows and the row is marked flushed.
DeliverItem(p, n) ==
  /\ writer = p
  /\ current = n
  /\ n \in todo
  /\ outbox' = [outbox EXCEPT ![n] = view[n].data]
  /\ handed' = handed \cup {<<n, view[n].data>>}
  /\ view' = [view EXCEPT ![n] = MarkedFlushed(view[n])]
  /\ todo' = todo \ {n}
  /\ current' = None
  /\ UNCHANGED <<staged, writer, archive, accepted, dropped>>

\* Mutant of FailItem: the loop tries the same item again.
FailItemStays(p, n) ==
  /\ writer = p
  /\ current = n
  /\ current' = None
  /\ UNCHANGED <<staged, writer, view, todo, fileVars, historyVars>>

\* Either write fails and the loop goes on with the next item.  The error of
\* the retry_count UPDATE is ignored, so the failure may go uncounted.
FailItem(p, n) ==
  /\ writer = p
  /\ n \in todo
  /\ current \in {None, n}
  /\ \E counted \in {0, 1} : view' = [view EXCEPT ![n] = Failed(view[n], counted)]
  /\ todo' = todo \ {n}
  /\ current' = None
  /\ UNCHANGED <<staged, writer, fileVars, historyVars>>

EndTransaction(table) ==
  /\ staged' = table
  /\ view' = table
  /\ writer' = None
  /\ todo' = {}
  /\ current' = None
  /\ UNCHANGED <<fileVars, historyVars>>

\* Mutant of Commit: the transaction is left open.
CommitLeavesOpen(p) ==
  /\ writer = p
  /\ todo = {}
  /\ staged' = view
  /\ UNCHANGED <<txnVars, fileVars, historyVars>>

Commit(p) ==
  /\ writer = p
  /\ todo = {}
  /\ EndTransaction(view)

\* An error return (query, mark, COMMIT) rolls back, and so does SQLite when
\* the process dies: the files written so far stay.
Rollback(p) ==
  /\ writer = p
  /\ EndTransaction(staged)

\* External: phonewave's courier takes a file out of outbox/.
CourierTakes(n) ==
  /\ outbox[n] # None
  /\ outbox' = [outbox EXCEPT ![n] = None]
  /\ UNCHANGED <<staged, txnVars, archive, historyVars>>

FlushStep(p) ==
  \/ \E n \in Name : ArchiveItem(p, n) \/ DeliverItem(p, n) \/ FailItem(p, n)
  \/ Commit(p)

Next ==
  \/ \E m \in Mails : Stage(m[1], m[2])
  \/ PruneFlushed
  \/ PurgeDeadLetters
  \/ \E p \in Proc : BeginFlush(p) \/ FlushStep(p) \/ Rollback(p)
  \/ \E n \in Name : CourierTakes(n)

Spec == Init /\ [][Next]_vars

\* For liveness: somebody keeps flushing, a running flush keeps going, and
\* neither rollbacks nor write failures repeat for ever.
FairSpec ==
  /\ Spec
  /\ WF_vars(\E p \in Proc : BeginFlush(p))
  /\ \A p \in Proc : WF_vars(FlushStep(p)) /\ SF_vars(Commit(p))
  /\ \A n \in Name : /\ SF_vars(\E p \in Proc : ArchiveItem(p, n))
                     /\ SF_vars(\E p \in Proc : DeliverItem(p, n))

-----------------------------------------------------------------------------
TypeOK ==
  /\ staged \in [Name -> Row \cup {None}]
  /\ view \in [Name -> Row \cup {None}]
  /\ writer \in Proc \cup {None}
  /\ todo \in SUBSET Name
  /\ current \in Name \cup {None}
  /\ archive \in [Name -> Data \cup {None}]
  /\ outbox \in [Name -> Data \cup {None}]
  /\ accepted \in SUBSET Mails
  /\ handed \in SUBSET Mails
  /\ dropped \in SUBSET Mails

\* The transaction works on what it selected: rows still to do are untouched
\* and eligible, contents never change under it, and the item between its two
\* writes is in archive/.
TransactionInv ==
  /\ writer = None => view = staged /\ todo = {}
  /\ todo \subseteq Eligible(staged)
  /\ \A n \in todo : view[n] = staged[n]
  /\ \A n \in Name : /\ view[n] = None <=> staged[n] = None
                     /\ staged[n] # None => /\ view[n].data = staged[n].data
                                            /\ staged[n].flushed => view[n].flushed
  /\ current # None => current \in todo /\ archive[current] = staged[current].data

\* Every row holds a d-mail some caller staged.
RowsAccepted == \A n \in Name : staged[n] # None => <<n, staged[n].data>> \in accepted

\* A row marked flushed, committed or not, names contents that really were
\* placed in outbox/: no crash, failed write, rollback or re-stage makes the
\* table claim a delivery that did not happen.
FlushedWasHanded ==
  \A n \in Name : /\ staged[n] # None /\ staged[n].flushed
                        => <<n, staged[n].data>> \in handed
                  /\ view[n] # None /\ view[n].flushed
                        => <<n, view[n].data>> \in handed

\* Archive-first (docs/adr/0003): whatever was ever placed in outbox/ has a
\* record of that name in archive/, and the very same contents when no two
\* d-mails share the name.
SameNameSameMail(n) == \A a, b \in Mails : a[1] = n /\ b[1] = n => a = b
ArchiveFirst ==
  \A m \in handed : /\ archive[m[1]] # None
                    /\ SameNameSameMail(m[1]) => archive[m[1]] = m[2]

\* The inductive invariant: the four above need one another.
IInv == TypeOK /\ TransactionInv /\ RowsAccepted /\ FlushedWasHanded /\ ArchiveFirst

\* A file appears in outbox/ only for a committed row that is not yet flushed
\* and not yet a dead letter, with that row's present contents and after the
\* archive/ copy: two processes never deliver the same row twice over, and a
\* d-mail re-staged meanwhile is never delivered with its old contents.
OutboxWriteSound ==
  [][\A n \in Name :
       outbox'[n] \notin {outbox[n], None} =>
         /\ n \in Eligible(staged)
         /\ outbox'[n] = staged[n].data
         /\ archive[n] = outbox'[n]]_vars

\* The table's owed contents, as module Delivery sees them.
Owed == [n \in Name |-> IF n \in Pending(staged) THEN staged[n].data ELSE None]
Promise == INSTANCE Delivery WITH pending <- Owed

\* The outbox implements the delivery promise, and with it inherits that no
\* accepted d-mail is silently lost.
DeliveryPromise == Promise!Spec
NoSilentLoss == Promise!NoSilentLoss

\* A staged d-mail is in the end handed over, given up as a dead letter, or
\* replaced by another one of its name, if flushes keep being called.
EventuallySettled ==
  \A m \in Mails :
    (m[1] \in Pending(staged) /\ staged[m[1]].data = m[2])
      ~> (m \in handed \/ m[1] \in DeadLetters(staged)
            \/ \E other \in accepted : other[1] = m[1] /\ other # m)

\* No flush keeps the write lock for ever: every loop comes to its end.
WriterLeaves == \A p \in Proc : writer = p ~> writer # p

=============================================================================

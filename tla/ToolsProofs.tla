------------------------------ MODULE ToolsProofs ------------------------------
(***************************************************************************)
(* Theorems about the tools of the MCP server, for any constants: the      *)
(* outbox and the dmail tool that writes to it, for any number of          *)
(* processes, names, contents and retries; and the tools for the journal   *)
(* and the gradient, for any sessions, issues and number of calls.         *)
(***************************************************************************)
EXTENDS SendDMail, Expeditions, TLAPS

(***************************************************************************)
(* The outbox and the dmail tool.                                          *)
(***************************************************************************)

\* The outbox starts in a state the inductive invariant allows.
LEMMA InitIInv == Init => IInv
BY OutboxAssumption
   DEF Init, IInv, TypeOK, TransactionInv, RowsAccepted, FlushedWasHanded,
       ArchiveFirst, Eligible, Pending, Row

\* A single write statement that keeps rows well formed, keeps flushed rows
\* honest and adds no d-mail but accepted ones preserves the invariant.
LEMMA AutocommitIInv ==
  ASSUME NEW table \in [Name -> Row \cup {None}],
         IInv, Autocommit(table),
         accepted \subseteq accepted', accepted' \subseteq Mails,
         handed' = handed, dropped' \subseteq Mails,
         \A n \in Name : table[n] # None => <<n, table[n].data>> \in accepted',
         \A n \in Name : table[n] # None /\ table[n].flushed => table[n] = staged[n]
  PROVE  IInv'
<1> USE OutboxAssumption
<1>1. TypeOK'
  BY DEF IInv, TypeOK, Autocommit, fileVars
<1>2. TransactionInv'
  BY DEF IInv, TypeOK, TransactionInv, Autocommit, fileVars
<1>3. RowsAccepted'
  BY DEF RowsAccepted, Autocommit
<1>4. FlushedWasHanded'
  BY DEF IInv, FlushedWasHanded, Autocommit
<1>5. ArchiveFirst'
  BY DEF IInv, ArchiveFirst, SameNameSameMail, Autocommit, fileVars
<1> QED BY <1>1, <1>2, <1>3, <1>4, <1>5 DEF IInv

\* Stage writes one accepted, unflushed row.
LEMMA StageIInv ==
  ASSUME IInv, NEW m \in Mails, Stage(m[1], m[2])
  PROVE  IInv'
<1> USE OutboxAssumption
<1> DEFINE row == [data |-> m[2], flushed |-> FALSE, retry |-> 0]
           table == [staged EXCEPT ![m[1]] = row]
<1>1. m = <<m[1], m[2]>> /\ m[1] \in Name /\ m[2] \in Data
  OBVIOUS
<1>2. row \in Row
  BY <1>1 DEF Row
<1>3. table \in [Name -> Row \cup {None}]
  BY <1>2 DEF IInv, TypeOK
<1>4. \A n \in Name : table[n] = IF n = m[1] THEN row ELSE staged[n]
  BY <1>1 DEF IInv, TypeOK
<1>5. accepted' = accepted \cup {m} /\ handed' = handed /\ dropped' = dropped
  BY <1>1 DEF Stage
<1>6. Autocommit(table)
  BY DEF Stage
<1>7. \A n \in Name : table[n] # None => <<n, table[n].data>> \in accepted'
  BY <1>1, <1>4, <1>5 DEF IInv, RowsAccepted
<1>8. \A n \in Name : table[n] # None /\ table[n].flushed => table[n] = staged[n]
  BY <1>4
<1>9. accepted \subseteq accepted' /\ accepted' \subseteq Mails /\ dropped' \subseteq Mails
  BY <1>5 DEF IInv, TypeOK
<1> HIDE DEF table
<1> QED BY <1>3, <1>5, <1>6, <1>7, <1>8, <1>9, AutocommitIInv

\* Pruning only removes rows.
LEMMA PruneFlushedIInv ==
  ASSUME IInv, PruneFlushed
  PROVE  IInv'
<1> USE OutboxAssumption
<1> DEFINE table == [n \in Name |-> IF n \in Pending(staged) THEN staged[n] ELSE None]
<1>1. table \in [Name -> Row \cup {None}]
  BY DEF IInv, TypeOK
<1>2. Autocommit(table) /\ UNCHANGED historyVars
  BY DEF PruneFlushed
<1>3. \A n \in Name : table[n] # None => table[n] = staged[n]
  OBVIOUS
<1>4. \A n \in Name : table[n] # None => <<n, table[n].data>> \in accepted'
  BY <1>2, <1>3 DEF IInv, RowsAccepted, historyVars
<1> HIDE DEF table
<1> QED BY <1>1, <1>2, <1>3, <1>4, AutocommitIInv DEF IInv, TypeOK, historyVars

\* So does purging.
LEMMA PurgeDeadLettersIInv ==
  ASSUME IInv, PurgeDeadLetters
  PROVE  IInv'
<1> USE OutboxAssumption
<1> DEFINE table == [n \in Name |-> IF n \in DeadLetters(staged) THEN None ELSE staged[n]]
<1>1. table \in [Name -> Row \cup {None}]
  BY DEF IInv, TypeOK
<1>2. Autocommit(table) /\ UNCHANGED <<accepted, handed>>
  BY DEF PurgeDeadLetters
<1>3. \A n \in Name : table[n] # None => table[n] = staged[n]
  OBVIOUS
<1>4. \A n \in Name : table[n] # None => <<n, table[n].data>> \in accepted'
  BY <1>2, <1>3 DEF IInv, RowsAccepted
<1>5. dropped' \subseteq Mails
  BY DEF IInv, TypeOK, RowsAccepted, PurgeDeadLetters, DeadLetters, Pending
<1> HIDE DEF table
<1> QED BY <1>1, <1>2, <1>3, <1>4, <1>5, AutocommitIInv DEF IInv, TypeOK

\* A flush begins with the eligible rows to do.
LEMMA BeginFlushIInv ==
  ASSUME IInv, NEW p \in Proc, BeginFlush(p)
  PROVE  IInv'
BY OutboxAssumption
   DEF BeginFlush, IInv, TypeOK, TransactionInv, RowsAccepted, FlushedWasHanded,
       ArchiveFirst, SameNameSameMail, Eligible, Pending, fileVars, historyVars

\* The archive/ copy comes first and carries the row's contents.
LEMMA ArchiveItemIInv ==
  ASSUME IInv, NEW p \in Proc, NEW n \in Name, ArchiveItem(p, n)
  PROVE  IInv'
<1> USE OutboxAssumption
<1>1. /\ writer' = writer /\ writer = p /\ staged' = staged /\ view' = view
      /\ todo' = todo /\ n \in todo /\ current' = n /\ outbox' = outbox
      /\ archive' = [archive EXCEPT ![n] = view[n].data]
      /\ accepted' = accepted /\ handed' = handed /\ dropped' = dropped
  BY DEF ArchiveItem, historyVars
<1>2. /\ view[n] = staged[n] /\ staged[n] \in Row /\ staged[n] # None
      /\ staged[n].data \in Data /\ <<n, staged[n].data>> \in Mails
  BY <1>1 DEF IInv, TypeOK, TransactionInv, RowsAccepted, Eligible, Pending, Row
<1>3. \A k \in Name : archive'[k] = IF k = n THEN staged[n].data ELSE archive[k]
  BY <1>1, <1>2 DEF IInv, TypeOK
<1>4. TypeOK'
  BY <1>1, <1>2 DEF IInv, TypeOK
<1>5. TransactionInv'
  BY <1>1, <1>2, <1>3 DEF IInv, TypeOK, TransactionInv, Eligible, Pending
<1>6. RowsAccepted' /\ FlushedWasHanded'
  BY <1>1 DEF IInv, RowsAccepted, FlushedWasHanded
<1>7. ArchiveFirst'
  <2> SUFFICES ASSUME NEW m \in handed
               PROVE  /\ archive'[m[1]] # None
                      /\ SameNameSameMail(m[1]) => archive'[m[1]] = m[2]
    BY <1>1 DEF ArchiveFirst, SameNameSameMail
  <2>1. m \in Mails /\ m = <<m[1], m[2]>> /\ m[1] \in Name
    BY DEF IInv, TypeOK
  <2>2. CASE m[1] = n
    BY <1>2, <1>3, <2>1, <2>2 DEF SameNameSameMail
  <2>3. CASE m[1] # n
    BY <1>3, <2>1, <2>3 DEF IInv, ArchiveFirst
  <2> QED BY <2>2, <2>3
<1> QED BY <1>4, <1>5, <1>6, <1>7 DEF IInv

\* The outbox/ copy follows and only then is the row marked flushed.
LEMMA DeliverItemIInv ==
  ASSUME IInv, NEW p \in Proc, NEW n \in Name, DeliverItem(p, n)
  PROVE  IInv'
<1> USE OutboxAssumption
<1>1. /\ writer' = writer /\ writer = p /\ staged' = staged /\ archive' = archive
      /\ todo' = todo \ {n} /\ n \in todo /\ current = n /\ current' = None
      /\ view' = [view EXCEPT ![n] = MarkedFlushed(view[n])]
      /\ outbox' = [outbox EXCEPT ![n] = view[n].data]
      /\ handed' = handed \cup {<<n, view[n].data>>}
      /\ accepted' = accepted /\ dropped' = dropped
  BY DEF DeliverItem
<1>2. /\ view[n] = staged[n] /\ staged[n] \in Row /\ staged[n] # None
      /\ staged[n].data \in Data /\ <<n, staged[n].data>> \in Mails
      /\ archive[n] = staged[n].data
  BY <1>1 DEF IInv, TypeOK, TransactionInv, RowsAccepted, Eligible, Pending, Row
<1>3. view'[n] \in Row /\ view'[n].data = staged[n].data /\ view'[n].flushed = TRUE
  BY <1>1, <1>2 DEF IInv, TypeOK, Row, MarkedFlushed
<1>4. \A k \in Name : k # n => view'[k] = view[k]
  BY <1>1 DEF IInv, TypeOK
<1>5. TypeOK'
  BY <1>1, <1>2, <1>3 DEF IInv, TypeOK
<1>6. TransactionInv'
  BY <1>1, <1>2, <1>3, <1>4 DEF IInv, TypeOK, TransactionInv, Eligible, Pending
<1>7. RowsAccepted'
  BY <1>1 DEF IInv, RowsAccepted
<1>8. FlushedWasHanded'
  BY <1>1, <1>2, <1>3, <1>4 DEF IInv, FlushedWasHanded
<1>9. ArchiveFirst'
  BY <1>1, <1>2 DEF IInv, ArchiveFirst, SameNameSameMail
<1> QED BY <1>5, <1>6, <1>7, <1>8, <1>9 DEF IInv

\* A failed write changes a retry count below the bound, or nothing.
LEMMA FailItemIInv ==
  ASSUME IInv, NEW p \in Proc, NEW n \in Name, FailItem(p, n)
  PROVE  IInv'
<1> USE OutboxAssumption
<1>1. PICK counted \in {0, 1} : view' = [view EXCEPT ![n] = Failed(view[n], counted)]
  BY DEF FailItem
<1>2. /\ writer' = writer /\ writer = p /\ staged' = staged /\ archive' = archive
      /\ todo' = todo \ {n} /\ n \in todo /\ current' = None /\ outbox' = outbox
      /\ accepted' = accepted /\ handed' = handed /\ dropped' = dropped
  BY DEF FailItem, fileVars, historyVars
<1>3. /\ view[n] = staged[n] /\ staged[n] \in Row /\ staged[n] # None
      /\ staged[n].retry \in Nat /\ staged[n].retry < MaxRetry
      /\ ~staged[n].flushed
  BY <1>2 DEF IInv, TypeOK, TransactionInv, Eligible, Pending, Row
<1>4. /\ view'[n] \in Row /\ view'[n].data = staged[n].data
      /\ view'[n].flushed = staged[n].flushed
  BY <1>1, <1>3 DEF IInv, TypeOK, Row, Failed
<1>5. \A k \in Name : k # n => view'[k] = view[k]
  BY <1>1 DEF IInv, TypeOK
<1>6. TypeOK'
  BY <1>1, <1>2, <1>4 DEF IInv, TypeOK
<1>7. TransactionInv'
  BY <1>2, <1>3, <1>4, <1>5 DEF IInv, TypeOK, TransactionInv, Eligible, Pending
<1>8. RowsAccepted' /\ ArchiveFirst'
  BY <1>2 DEF IInv, RowsAccepted, ArchiveFirst, SameNameSameMail
<1>9. FlushedWasHanded'
  BY <1>2, <1>3, <1>4, <1>5 DEF IInv, FlushedWasHanded
<1> QED BY <1>6, <1>7, <1>8, <1>9 DEF IInv

\* COMMIT publishes the transaction's view.
LEMMA CommitIInv ==
  ASSUME IInv, NEW p \in Proc, Commit(p)
  PROVE  IInv'
<1> USE OutboxAssumption DEF Commit, EndTransaction, fileVars, historyVars
<1>1. TypeOK'
  BY DEF IInv, TypeOK
<1>2. TransactionInv'
  BY DEF IInv, TypeOK, TransactionInv
<1>3. RowsAccepted'
  BY DEF IInv, RowsAccepted, TransactionInv
<1>4. FlushedWasHanded'
  BY DEF IInv, FlushedWasHanded
<1>5. ArchiveFirst'
  BY DEF IInv, ArchiveFirst, SameNameSameMail
<1> QED BY <1>1, <1>2, <1>3, <1>4, <1>5 DEF IInv

\* ROLLBACK forgets it; the files stay.
LEMMA RollbackIInv ==
  ASSUME IInv, NEW p \in Proc, Rollback(p)
  PROVE  IInv'
<1> USE OutboxAssumption DEF Rollback, EndTransaction, fileVars, historyVars
<1>1. TypeOK'
  BY DEF IInv, TypeOK
<1>2. TransactionInv'
  BY DEF IInv, TypeOK, TransactionInv
<1>3. RowsAccepted' /\ FlushedWasHanded' /\ ArchiveFirst'
  BY DEF IInv, RowsAccepted, FlushedWasHanded, ArchiveFirst, SameNameSameMail
<1> QED BY <1>1, <1>2, <1>3 DEF IInv

\* The courier touches outbox/ only.
LEMMA CourierTakesIInv ==
  ASSUME IInv, NEW n \in Name, CourierTakes(n)
  PROVE  IInv'
BY DEF CourierTakes, IInv, TypeOK, TransactionInv, RowsAccepted, FlushedWasHanded,
       ArchiveFirst, SameNameSameMail, Eligible, Pending, txnVars, historyVars

\* Every step of the outbox preserves the inductive invariant.
LEMMA NextIInv == IInv /\ [Next]_vars => IInv'
<1> SUFFICES ASSUME IInv, [Next]_vars PROVE IInv'
  OBVIOUS
<1>1. CASE \E m \in Mails : Stage(m[1], m[2])
  BY <1>1, StageIInv
<1>2. CASE PruneFlushed
  BY <1>2, PruneFlushedIInv
<1>3. CASE PurgeDeadLetters
  BY <1>3, PurgeDeadLettersIInv
<1>4. CASE \E p \in Proc : BeginFlush(p)
  BY <1>4, BeginFlushIInv
<1>5. CASE \E p \in Proc : FlushStep(p)
  BY <1>5, ArchiveItemIInv, DeliverItemIInv, FailItemIInv, CommitIInv DEF FlushStep
<1>6. CASE \E p \in Proc : Rollback(p)
  BY <1>6, RollbackIInv
<1>7. CASE \E n \in Name : CourierTakes(n)
  BY <1>7, CourierTakesIInv
<1>8. CASE UNCHANGED vars
  BY <1>8 DEF vars, txnVars, fileVars, historyVars, IInv, TypeOK, TransactionInv,
              RowsAccepted, FlushedWasHanded, ArchiveFirst, SameNameSameMail,
              Eligible, Pending
<1> QED BY <1>1, <1>2, <1>3, <1>4, <1>5, <1>6, <1>7, <1>8 DEF Next

\* Every reachable state of the outbox satisfies the inductive invariant.
THEOREM OutboxInvariant == Spec => []IInv
BY InitIInv, NextIInv, PTL DEF Spec

\* The variables of the outbox have their types in every reachable state.
THEOREM OutboxTypeOK == Spec => []TypeOK
BY OutboxInvariant, PTL DEF IInv

\* A flush works on what it selected: rows still to do are untouched and
\* eligible, and contents never change under it.
THEOREM TransactionsAreSound == Spec => []TransactionInv
BY OutboxInvariant, PTL DEF IInv

\* The table never claims a delivery that did not happen.
THEOREM FlushedRowsWereHanded == Spec => []FlushedWasHanded
BY OutboxInvariant, PTL DEF IInv

\* What reached outbox/ has its record in archive/.
THEOREM ArchiveComesFirst == Spec => []ArchiveFirst
BY OutboxInvariant, PTL DEF IInv

-----------------------------------------------------------------------------
\* Only the committed table decides what is owed.
LEMMA OwedUnchanged == staged' = staged => Owed' = Owed
BY DEF Owed, Pending

\* Dropping the names in S from what is owed, in the terms of Delivery.
LEMMA OwedFrom ==
  ASSUME NEW S \in SUBSET Name, IInv,
         \A n \in Name : n \in S => n \notin Pending(staged'),
         \A n \in Name \ S : /\ n \in Pending(staged') <=> n \in Pending(staged)
                             /\ n \in Pending(staged) => staged'[n].data = staged[n].data
  PROVE  Owed' = [n \in Name |-> IF n \in S THEN None ELSE Owed[n]]
BY DEF Owed

\* Stage is Accept.
LEMMA StagePromise ==
  ASSUME IInv, NEW n \in Name, NEW d \in Data, Stage(n, d)
  PROVE  Promise!Next
<1> DEFINE row == [data |-> d, flushed |-> FALSE, retry |-> 0]
<1>1. row # None /\ row.data = d /\ ~row.flushed
  <2>1. row \in Row
    BY OutboxAssumption DEF Row
  <2>2. row # None
    BY <2>1, OutboxAssumption
  <2> QED BY <2>2
<1>2. staged' = [staged EXCEPT ![n] = row]
  BY DEF Stage, Autocommit
<1> HIDE DEF row
<1>3. \A k \in Name : staged'[k] = IF k = n THEN row ELSE staged[k]
  BY <1>2 DEF IInv, TypeOK
<1>4. \A k \in Name : k \in Pending(staged') <=> (k = n \/ k \in Pending(staged))
  BY <1>1, <1>3 DEF Pending
<1>5. Owed' = [Owed EXCEPT ![n] = d]
  BY <1>1, <1>3, <1>4 DEF Owed
<1>6. Promise!Accept(n, d)
  BY <1>5 DEF Stage, Promise!Accept
<1> QED BY <1>6 DEF Promise!Next

\* Pruning flushed rows is a stutter.
LEMMA PruneFlushedPromise ==
  ASSUME IInv, PruneFlushed
  PROVE  UNCHANGED Promise!vars
<1>1. staged' = [n \in Name |-> IF n \in Pending(staged) THEN staged[n] ELSE None]
  BY DEF PruneFlushed, Autocommit
<1>2. Pending(staged') = Pending(staged)
  BY <1>1 DEF Pending
<1>3. Owed' = Owed
  BY <1>1, <1>2, OwedFrom
     DEF Owed
<1> QED BY <1>3 DEF PruneFlushed, historyVars, Promise!vars

\* Purging is Drop of each dead letter, or a stutter.
LEMMA PurgeDeadLettersPromise ==
  ASSUME IInv, PurgeDeadLetters
  PROVE  Promise!Next
<1> DEFINE S == DeadLetters(staged)
<1>1. S \subseteq Pending(staged) /\ Pending(staged) \subseteq Name
  BY DEF DeadLetters, Pending
<1>2. staged' = [n \in Name |-> IF n \in S THEN None ELSE staged[n]]
  BY DEF PurgeDeadLetters, Autocommit
<1>3. dropped' = dropped \cup {<<n, staged[n].data>> : n \in S}
  BY DEF PurgeDeadLetters
<1>4. accepted' = accepted /\ handed' = handed
  BY DEF PurgeDeadLetters
<1> HIDE DEF S
<1>5. \A n \in S : Owed[n] = staged[n].data /\ Owed[n] # None
  BY <1>1, OutboxAssumption DEF Owed, IInv, TypeOK, Pending, Row
<1>6. Owed' = [n \in Name |-> IF n \in S THEN None ELSE Owed[n]]
  BY <1>1, <1>2, OwedFrom DEF Pending
<1>7. {<<n, staged[n].data>> : n \in S} = {<<n, Owed[n]>> : n \in S}
  BY <1>5
<1>8. Promise!Drop(S)
  BY <1>3, <1>4, <1>5, <1>6, <1>7 DEF Promise!Drop
<1> QED BY <1>1, <1>8 DEF Promise!Next

\* The rename into outbox/ is HandOver.
LEMMA DeliverItemPromise ==
  ASSUME IInv, NEW p \in Proc, NEW n \in Name, DeliverItem(p, n)
  PROVE  Promise!Next
<1>1. n \in Pending(staged) /\ view[n].data = staged[n].data /\ staged[n].data \in Data
  BY DEF DeliverItem, IInv, TypeOK, TransactionInv, Eligible, Pending, Row
<1>2. Owed[n] = view[n].data /\ Owed[n] # None
  BY <1>1, OutboxAssumption DEF Owed
<1>3. Owed' = Owed
  BY OwedUnchanged DEF DeliverItem
<1>4. Promise!HandOver(n)
  BY <1>2, <1>3 DEF DeliverItem, Promise!HandOver
<1> QED BY <1>4 DEF Promise!Next

\* COMMIT is Settle of what was marked, or a stutter.
LEMMA CommitPromise ==
  ASSUME IInv, NEW p \in Proc, Commit(p)
  PROVE  Promise!Next
<1> DEFINE S == {n \in Pending(staged) : view[n].flushed}
<1>1. staged' = view /\ accepted' = accepted /\ handed' = handed /\ dropped' = dropped
  BY DEF Commit, EndTransaction, historyVars
<1>2. S \subseteq Name /\ S \subseteq Pending(staged)
  BY DEF Pending
<1>3. \A n \in S : view[n] # None /\ view[n].flushed /\ view[n].data = staged[n].data
  BY DEF IInv, TransactionInv, Pending
<1>4. \A n \in S : Owed[n] = staged[n].data /\ Owed[n] # None
  BY <1>2, OutboxAssumption DEF Owed, IInv, TypeOK, Pending, Row
<1>5. \A n \in S : <<n, Owed[n]>> \in handed
  BY <1>2, <1>3, <1>4 DEF IInv, FlushedWasHanded
<1>6. \A n \in Name \ S : /\ n \in Pending(view) <=> n \in Pending(staged)
                          /\ n \in Pending(staged) => view[n].data = staged[n].data
  BY DEF IInv, TransactionInv, Pending
<1>7. \A n \in S : n \notin Pending(view)
  BY DEF Pending
<1> HIDE DEF S
<1>8. Owed' = [n \in Name |-> IF n \in S THEN None ELSE Owed[n]]
  BY <1>1, <1>2, <1>6, <1>7, OwedFrom
<1>9. Promise!Settle(S)
  BY <1>1, <1>4, <1>5, <1>8 DEF Promise!Settle
<1> QED BY <1>2, <1>9 DEF Promise!Next

\* Every step of the outbox is a step of the delivery promise or changes
\* nothing the promise speaks of.
LEMMA NextPromise == IInv /\ [Next]_vars => [Promise!Next]_(Promise!vars)
<1> SUFFICES ASSUME IInv, [Next]_vars PROVE Promise!Next \/ UNCHANGED Promise!vars
  OBVIOUS
<1>1. CASE \E m \in Mails : Stage(m[1], m[2])
  BY <1>1, OutboxAssumption, StagePromise
<1>2. CASE PruneFlushed
  BY <1>2, PruneFlushedPromise
<1>3. CASE PurgeDeadLetters
  BY <1>3, PurgeDeadLettersPromise
<1>4. CASE \E p \in Proc, n \in Name : DeliverItem(p, n)
  BY <1>4, DeliverItemPromise
<1>5. CASE \E p \in Proc : Commit(p)
  BY <1>5, CommitPromise
<1>6. ASSUME \/ \E p \in Proc : BeginFlush(p) \/ Rollback(p)
             \/ \E p \in Proc, n \in Name : ArchiveItem(p, n) \/ FailItem(p, n)
             \/ \E n \in Name : CourierTakes(n)
             \/ UNCHANGED vars
      PROVE  UNCHANGED Promise!vars
  <2>1. staged' = staged /\ UNCHANGED historyVars
    BY <1>6 DEF BeginFlush, Rollback, EndTransaction, ArchiveItem, FailItem, CourierTakes, vars
  <2> QED BY <2>1, OwedUnchanged DEF historyVars, Promise!vars
<1> QED BY <1>1, <1>2, <1>3, <1>4, <1>5, <1>6 DEF Next, FlushStep

-----------------------------------------------------------------------------
\* What is owed and handed over, kept by every step of the promise.
DInv == Promise!TypeOK /\ Promise!NothingInvented /\ Promise!NoSilentLoss

\* Accept keeps the invariant.
LEMMA AcceptDInv ==
  ASSUME DInv, NEW n \in Name, NEW d \in Data, Promise!Accept(n, d)
  PROVE  DInv'
<1> USE DEF Promise!Mail
<1>1. /\ Owed' = [Owed EXCEPT ![n] = d] /\ handed' = handed /\ dropped' = dropped
      /\ accepted' = accepted \cup {<<n, d>>}
  BY DEF Promise!Accept
<1>2. Promise!TypeOK' /\ Promise!NothingInvented'
  BY <1>1 DEF DInv, Promise!TypeOK, Promise!NothingInvented
<1>3. ASSUME NEW m \in accepted'
      PROVE  m \in handed \/ m \in dropped \/ Promise!Replaced(m)' \/ Owed'[m[1]] = m[2]
  <2>1. m = <<m[1], m[2]>> /\ m[1] \in Name
    BY <1>2 DEF Promise!TypeOK
  <2>2. CASE m = <<n, d>>
    BY <1>1, <2>2 DEF DInv, Promise!TypeOK
  <2>3. CASE m[1] = n /\ m # <<n, d>>
    BY <1>1, <2>3 DEF Promise!Replaced
  <2>4. CASE m[1] # n
    <3>1. m \in accepted
      BY <1>1, <2>4
    <3>2. Owed'[m[1]] = Owed[m[1]]
      BY <1>1, <2>1, <2>4 DEF DInv, Promise!TypeOK
    <3>3. Promise!Replaced(m) => Promise!Replaced(m)'
      BY <1>1 DEF Promise!Replaced
    <3> QED BY <3>1, <3>2, <3>3 DEF DInv, Promise!NoSilentLoss
  <2> QED BY <2>2, <2>3, <2>4
<1> QED BY <1>1, <1>2, <1>3 DEF DInv, Promise!NoSilentLoss

\* Ceasing to owe the names in S loses nothing when each was handed over or
\* dropped.
LEMMA ForgetDInv ==
  ASSUME DInv, NEW S \in SUBSET Name,
         Owed' = [n \in Name |-> IF n \in S THEN None ELSE Owed[n]],
         accepted' = accepted, handed' = handed,
         dropped \subseteq dropped', dropped' \subseteq accepted,
         \A n \in S : <<n, Owed[n]>> \in handed' \cup dropped'
  PROVE  DInv'
<1>1. Promise!TypeOK' /\ Promise!NothingInvented'
  BY DEF DInv, Promise!TypeOK, Promise!NothingInvented, Promise!Mail
<1>2. ASSUME NEW m \in accepted
      PROVE  m \in handed' \/ m \in dropped' \/ Promise!Replaced(m)' \/ Owed'[m[1]] = m[2]
  <2>1. m = <<m[1], m[2]>> /\ m[1] \in Name
    BY DEF DInv, Promise!TypeOK, Promise!Mail
  <2>2. m \in handed \/ m \in dropped \/ Promise!Replaced(m) \/ Owed[m[1]] = m[2]
    BY DEF DInv, Promise!NoSilentLoss
  <2>3. Promise!Replaced(m) => Promise!Replaced(m)'
    BY DEF Promise!Replaced
  <2>4. CASE Owed[m[1]] = m[2] /\ m[1] \in S
    BY <2>1, <2>4
  <2>5. CASE Owed[m[1]] = m[2] /\ m[1] \notin S
    BY <2>1, <2>5
  <2> QED BY <2>2, <2>3, <2>4, <2>5
<1> QED BY <1>1, <1>2 DEF DInv, Promise!NoSilentLoss

\* Every step of the promise keeps the invariant.
LEMMA NextDInv == DInv /\ [Promise!Next]_(Promise!vars) => DInv'
<1> SUFFICES ASSUME DInv, [Promise!Next]_(Promise!vars) PROVE DInv'
  OBVIOUS
<1>1. CASE \E n \in Name, d \in Data : Promise!Accept(n, d)
  BY <1>1, AcceptDInv
<1>2. CASE \E n \in Name : Promise!HandOver(n)
  BY <1>2 DEF Promise!HandOver, DInv, Promise!TypeOK, Promise!NothingInvented,
              Promise!NoSilentLoss, Promise!Replaced, Promise!Mail
<1>3. ASSUME NEW S \in SUBSET Name, Promise!Settle(S)
      PROVE  DInv'
  BY <1>3, ForgetDInv DEF Promise!Settle, DInv, Promise!NothingInvented
<1>4. ASSUME NEW S \in SUBSET Name, Promise!Drop(S)
      PROVE  DInv'
  BY <1>4, ForgetDInv DEF Promise!Drop, DInv, Promise!NothingInvented
<1>5. CASE UNCHANGED Promise!vars
  BY <1>5 DEF Promise!vars, DInv, Promise!TypeOK, Promise!NothingInvented,
              Promise!NoSilentLoss, Promise!Replaced, Promise!Mail
<1> QED BY <1>1, <1>2, <1>3, <1>4, <1>5 DEF Promise!Next

\* A promise kept step by step loses no accepted d-mail and hands over nothing
\* nobody sent.
THEOREM DeliveryInvariant == Promise!Spec => [](Promise!NothingInvented /\ Promise!NoSilentLoss)
<1>1. Promise!Init => DInv
  BY DEF Promise!Init, DInv, Promise!TypeOK, Promise!NothingInvented, Promise!NoSilentLoss,
         Promise!Mail
<1>2. DInv => Promise!NothingInvented /\ Promise!NoSilentLoss
  BY DEF DInv
<1> QED BY <1>1, <1>2, NextDInv, PTL DEF Promise!Spec

-----------------------------------------------------------------------------
\* The outbox implements the delivery promise.
THEOREM OutboxKeepsPromise == Spec => DeliveryPromise
<1>1. Init => Promise!Init
  BY DEF Init, Promise!Init, Owed, Pending
<1> QED BY <1>1, NextPromise, OutboxInvariant, PTL DEF Spec, DeliveryPromise, Promise!Spec

\* No accepted d-mail is silently lost by the outbox.
THEOREM OutboxLosesNothing == Spec => []NoSilentLoss
<1> QED BY DeliveryInvariant, OutboxKeepsPromise, PTL DEF DeliveryPromise, NoSilentLoss

-----------------------------------------------------------------------------
\* What appears in outbox/ is a committed, unflushed row's present contents,
\* archived before.
THEOREM OutboxWritesAreSound == Spec => OutboxWriteSound
<1> DEFINE Sound == \A n \in Name :
                      outbox'[n] \notin {outbox[n], None} =>
                        /\ n \in Eligible(staged)
                        /\ outbox'[n] = staged[n].data
                        /\ archive[n] = outbox'[n]
<1>1. IInv /\ [Next]_vars => [Sound]_vars
  <2> SUFFICES ASSUME IInv, Next, NEW n \in Name, outbox'[n] \notin {outbox[n], None}
               PROVE  /\ n \in Eligible(staged)
                      /\ outbox'[n] = staged[n].data
                      /\ archive[n] = outbox'[n]
    OBVIOUS
  <2>1. ASSUME NEW k \in Name, CourierTakes(k)
        PROVE  FALSE
    BY <2>1 DEF CourierTakes, IInv, TypeOK
  <2>2. ASSUME NEW p \in Proc, NEW k \in Name, DeliverItem(p, k)
        PROVE  /\ n = k /\ n \in todo /\ current = n
               /\ outbox'[n] = view[n].data
    BY <2>2 DEF DeliverItem, IInv, TypeOK
  <2>3. ASSUME NEW p \in Proc, DeliverItem(p, n)
        PROVE  /\ n \in Eligible(staged) /\ view[n] = staged[n]
               /\ archive[n] = staged[n].data
    BY <2>3, OutboxAssumption DEF DeliverItem, IInv, TransactionInv
  <2>4. \E p \in Proc, k \in Name : DeliverItem(p, k)
    BY <2>1 DEF Next, FlushStep, Stage, PruneFlushed, PurgeDeadLetters, Autocommit,
                BeginFlush, ArchiveItem, FailItem, Commit, Rollback, EndTransaction, fileVars
  <2> QED BY <2>2, <2>3, <2>4
<1> QED BY <1>1, OutboxInvariant, PTL DEF Spec, OutboxWriteSound, Sound


-----------------------------------------------------------------------------
(***************************************************************************)
(* The dmail tool uses the outbox as specified, and when its answer can be *)
(* trusted, for any number of sessions and d-mails.                        *)
(***************************************************************************)

\* Every step of a session is a step of the outbox or leaves it alone.
LEMMA SendNextUsesOutbox == [SendNext]_sendVars => [Next]_vars
<1> SUFFICES ASSUME SendNext PROVE Next \/ UNCHANGED vars
  BY DEF sendVars
<1>1. ASSUME NEW p \in Proc, CallStage(p)
      PROVE  Next \/ UNCHANGED vars
  BY <1>1 DEF CallStage, Next
<1>2. ASSUME NEW p \in Proc, Continue(p)
      PROVE  Next \/ UNCHANGED vars
  BY <1>2 DEF Continue, EmitStaged, CallFlush, FlushFindsNothing, FlushBusy, FlushItem,
              FlushCommit, EmitFlushed, Next, FlushStep
<1>3. ASSUME NEW p \in Proc, FlushError(p) \/ Die(p)
      PROVE  Next \/ UNCHANGED vars
  BY <1>3 DEF FlushError, Die, Next
<1>4. CASE Elsewhere
  BY <1>4 DEF Elsewhere, Next
<1> QED BY <1>1, <1>2, <1>3, <1>4 DEF SendNext

\* Whatever sessions do, the store behaves as module Outbox says.
THEOREM SessionsUseOutbox == SendSpec => UsesOutbox
<1>1. SendInit => Init
  BY DEF SendInit
<1> QED BY <1>1, SendNextUsesOutbox, PTL DEF SendSpec, UsesOutbox, Spec

-----------------------------------------------------------------------------
\* The types of a call's variables, and that a running call has a d-mail.
CallsOK ==
  /\ pc \in [Proc -> PC]
  /\ mail \in [Proc -> Mails \cup {None}]
  /\ batch \in [Proc -> SUBSET Name]
  /\ reply \in [Proc -> Reply]
  /\ \A p \in Proc : pc[p] # "idle" => mail[p] \in Mails

\* While a process flushes, what it selected is what is eligible.
BatchIsEligible == \A p \in Proc : pc[p] = "flushing" => batch[p] = Eligible(staged)

SendInv == CallsOK /\ LockMatchesCall /\ BatchIsEligible /\ SentWhenAlone

\* No call is in progress initially.
LEMMA SendInitInv == SendInit => SendInv
BY OutboxAssumption
   DEF SendInit, Init, SendInv, CallsOK, LockMatchesCall, BatchIsEligible, SentWhenAlone,
       PC, Reply

\* What a step of process p does to the variables of the calls.
LEMMA CallFrame ==
  ASSUME CallsOK, NEW p \in Proc,
         \/ CallStage(p) \/ Continue(p) \/ FlushError(p) \/ Die(p)
  PROVE  /\ CallsOK'
         /\ \A q \in Proc \ {p} : pc'[q] = pc[q] /\ mail'[q] = mail[q] /\ batch'[q] = batch[q]
<1> USE DEF CallsOK, PC, Reply, Goto, Return
<1>1. CASE CallStage(p)
  <2>1. ASSUME NEW m \in Mails, pc' = [pc EXCEPT ![p] = "staged"],
               mail' = [mail EXCEPT ![p] = m], reply' = [reply EXCEPT ![p] = "none"],
               batch' = batch
        PROVE  /\ CallsOK'
               /\ \A q \in Proc \ {p} : /\ pc'[q] = pc[q] /\ mail'[q] = mail[q]
                                        /\ batch'[q] = batch[q]
    BY <2>1
  <2>2. CASE Return(p, "error")
    BY <2>2
  <2> QED BY <1>1, <2>1, <2>2 DEF CallStage
<1>2. CASE EmitStaged(p) \/ FlushFindsNothing(p) \/ FlushBusy(p) \/ EmitFlushed(p)
  BY <1>2 DEF EmitStaged, FlushFindsNothing, FlushBusy, EmitFlushed
<1>3. CASE CallFlush(p)
  BY <1>3 DEF CallFlush, Eligible, Pending
<1>4. CASE FlushItem(p)
  BY <1>4 DEF FlushItem, callVars
<1>5. CASE FlushCommit(p)
  BY <1>5 DEF FlushCommit
<1>6. CASE FlushError(p) \/ Die(p)
  BY <1>6 DEF FlushError, Die
<1> QED BY <1>1, <1>2, <1>3, <1>4, <1>5, <1>6 DEF Continue

\* A process whose variables did not change stays truthful.
LEMMA SentWhenAloneKept ==
  ASSUME SentWhenAlone, handed \subseteq handed', NEW q \in Proc,
         pc'[q] = pc[q], mail'[q] = mail[q], batch'[q] = batch[q]
  PROVE  /\ pc'[q] = "flushed"
         /\ batch'[q] \subseteq {mail'[q][1]}
         /\ SameNameSameMail(mail'[q][1])
         => mail'[q] \in handed'
BY DEF SentWhenAlone

\* Nothing is ever unhanded.
LEMMA HandedGrows == [Next]_vars => handed \subseteq handed'
BY DEF Next, vars, FlushStep, Stage, PruneFlushed, PurgeDeadLetters, BeginFlush,
       ArchiveItem, DeliverItem, FailItem, Commit, Rollback, EndTransaction,
       CourierTakes, historyVars

\* A commit that marked some row, when only p's own row was selected, marked
\* p's row, whose contents are p's d-mail.
LEMMA CommitAlone ==
  ASSUME IInv, SendInv, NEW p \in Proc, pc[p] = "flushing", Marked # {},
         batch[p] \subseteq {mail[p][1]}, SameNameSameMail(mail[p][1])
  PROVE  mail[p] \in handed
<1> DEFINE n == mail[p][1]
<1>1. mail[p] \in Mails /\ mail[p] = <<n, mail[p][2]>> /\ n \in Name
  BY OutboxAssumption DEF SendInv, CallsOK
<1>2. PICK k \in Marked : k \in Eligible(staged) /\ k \notin Pending(view)
  BY DEF Marked
<1>3. k = n
  BY <1>2 DEF SendInv, BatchIsEligible
<1>4. staged[k] # None /\ view[k] # None /\ view[k].flushed
  BY <1>1, <1>2, <1>3 DEF Eligible, Pending, IInv, TransactionInv
<1>5. <<k, view[k].data>> \in handed
  BY <1>1, <1>3, <1>4 DEF IInv, FlushedWasHanded
<1>6. <<k, view[k].data>> = mail[p]
  BY <1>1, <1>3, <1>5 DEF SameNameSameMail, IInv, TypeOK
<1> QED BY <1>5, <1>6

\* A call's own steps, one case per action.
LEMMA SessionStepInv ==
  ASSUME IInv, SendInv, handed \subseteq handed', NEW p \in Proc,
         CallStage(p) \/ Continue(p) \/ FlushError(p) \/ Die(p)
  PROVE  SendInv'
<1>1. CallsOK'
  BY CallFrame DEF SendInv
<1>2. \A q \in Proc \ {p} : pc'[q] = pc[q] /\ mail'[q] = mail[q] /\ batch'[q] = batch[q]
  BY CallFrame DEF SendInv
<1>3. LockMatchesCall' /\ BatchIsEligible'
  <2> USE <1>2, OutboxAssumption
      DEF SendInv, CallsOK, LockMatchesCall, BatchIsEligible, Goto, Return, PC
  <2>1. CASE CallStage(p)
    <3>1. CASE UNCHANGED vars
      BY <2>1, <3>1 DEF CallStage, vars, txnVars, Eligible, Pending
    <3>2. CASE ~UNCHANGED vars
      <4>1. writer = None /\ writer' = None /\ pc' = [pc EXCEPT ![p] = "staged"]
        BY <2>1, <3>2 DEF CallStage, Stage, Autocommit
      <4> QED BY <4>1
    <3> QED BY <2>1, <3>1, <3>2 DEF CallStage
  <2>2. CASE EmitStaged(p) \/ FlushFindsNothing(p) \/ FlushBusy(p) \/ EmitFlushed(p)
    BY <2>2 DEF EmitStaged, FlushFindsNothing, FlushBusy, EmitFlushed, vars, txnVars
  <2>3. CASE CallFlush(p)
    BY <2>3 DEF CallFlush, BeginFlush
  <2>4. CASE FlushItem(p)
    BY <2>4 DEF FlushItem, ArchiveItem, DeliverItem, FailItem, callVars
  <2>5. CASE FlushCommit(p)
    BY <2>5 DEF FlushCommit, Commit, EndTransaction
  <2>6. CASE FlushError(p)
    BY <2>6 DEF FlushError, Rollback, EndTransaction
  <2>7. CASE Die(p)
    <3>1. CASE writer = p
      BY <2>7, <3>1 DEF Die, Rollback, EndTransaction
    <3>2. CASE writer # p
      BY <2>7, <3>2 DEF Die, vars, txnVars
    <3> QED BY <3>1, <3>2
  <2> QED BY <2>1, <2>2, <2>3, <2>4, <2>5, <2>6, <2>7 DEF Continue
<1>4. ASSUME pc'[p] = "flushed", batch'[p] \subseteq {mail'[p][1]},
             SameNameSameMail(mail'[p][1])
      PROVE  mail'[p] \in handed'
  <2>1. CASE FlushCommit(p)
    <3>1. Marked # {} /\ pc[p] = "flushing" /\ UNCHANGED <<mail, batch, handed>>
      BY <1>4, <2>1 DEF FlushCommit, Return, Goto, SendInv, CallsOK, PC, Commit,
                        EndTransaction, historyVars
    <3> QED BY <1>4, <3>1, CommitAlone
  <2>2. CASE ~FlushCommit(p)
    BY <1>4, <2>2
       DEF CallStage, Continue, EmitStaged, CallFlush, FlushFindsNothing, FlushBusy,
           FlushItem, EmitFlushed, FlushError, Die, Return, Goto, callVars, SendInv, CallsOK, PC
  <2> QED BY <2>1, <2>2
<1>5. SentWhenAlone'
  <2> SUFFICES ASSUME NEW q \in Proc
               PROVE  /\ pc'[q] = "flushed"
                      /\ batch'[q] \subseteq {mail'[q][1]}
                      /\ SameNameSameMail(mail'[q][1])
                      => mail'[q] \in handed'
    BY DEF SentWhenAlone, SameNameSameMail
  <2> QED BY <1>2, <1>4, SentWhenAloneKept DEF SendInv
<1> QED BY <1>1, <1>3, <1>5 DEF SendInv

\* Every step keeps the session invariant.
LEMMA SendNextInv == IInv /\ SendInv /\ [SendNext]_sendVars => SendInv'
<1> SUFFICES ASSUME IInv, SendInv, [SendNext]_sendVars PROVE SendInv'
  OBVIOUS
<1>1. handed \subseteq handed'
  BY SendNextUsesOutbox, HandedGrows
<1>2. CASE \E p \in Proc : CallStage(p) \/ Continue(p) \/ FlushError(p) \/ Die(p)
  BY <1>1, <1>2, SessionStepInv
<1>3. CASE Elsewhere \/ UNCHANGED sendVars
  <2>1. UNCHANGED callVars
    BY <1>3 DEF Elsewhere, sendVars
  <2>2. writer' = writer
    BY <1>3 DEF Elsewhere, PruneFlushed, PurgeDeadLetters, Autocommit, CourierTakes,
                sendVars, vars, txnVars
  <2>3. staged' = staged \/ writer = None
    BY <1>3 DEF Elsewhere, PruneFlushed, PurgeDeadLetters, Autocommit, CourierTakes,
                sendVars, vars
  <2>4. CallsOK' /\ LockMatchesCall'
    BY <2>1, <2>2 DEF SendInv, CallsOK, LockMatchesCall, callVars
  <2>5. BatchIsEligible'
    BY <2>1, <2>3, OutboxAssumption
       DEF SendInv, BatchIsEligible, LockMatchesCall, callVars, Eligible, Pending
  <2>6. SentWhenAlone'
    BY <1>1, <2>1 DEF SendInv, SentWhenAlone, SameNameSameMail, callVars
  <2> QED BY <2>4, <2>5, <2>6 DEF SendInv
<1> QED BY <1>2, <1>3 DEF SendNext

\* Exactly the flushing session holds the write lock, and a session that
\* flushed no row but its own answers "sent" only for a d-mail handed over.
THEOREM SessionSafety == SendSpec => [](LockMatchesCall /\ SentWhenAlone)
<1>1. SendSpec => []IInv
  BY SessionsUseOutbox, OutboxInvariant, PTL DEF UsesOutbox
<1>2. SendInv => LockMatchesCall /\ SentWhenAlone
  BY DEF SendInv
<1> QED BY <1>1, <1>2, SendInitInv, SendNextInv, PTL DEF SendSpec

\* The types of the calls, with those of the store under them.
THEOREM SessionTypeOK == SendSpec => []SendTypeOK
<1>1. SendSpec => []IInv
  BY SessionsUseOutbox, OutboxInvariant, PTL DEF UsesOutbox
<1>2. IInv /\ SendInv => SendTypeOK
  BY DEF IInv, SendInv, CallsOK, SendTypeOK
<1> QED BY <1>1, <1>2, SendInitInv, SendNextInv, PTL DEF SendSpec

(***************************************************************************)
(* The journal and the gradient: the order of files and events, reports that*)
(* stay, and deltas that add up.                                           *)
(***************************************************************************)

USE ExpeditionsAssumption

\* Nothing is written yet.
LEMMA InitInv == ExInit => ExpeditionsInv
<1> SUFFICES ASSUME ExInit PROVE ExpeditionsInv
  OBVIOUS
<1>1. ExTypeOK
  <2>1. 0 \in 0 .. MaxCalls /\ 1 \in Nat \ {0}
    OBVIOUS
  <2> QED BY <2>1 DEF ExInit, ExTypeOK, ExSteps
<1>2. FilesBeforeEvents /\ CallInv /\ TaskInv
  BY DEF ExInit, FilesBeforeEvents, CallInv, TaskInv
<1>3. LevelInv
  BY DEF ExInit, LevelInv, LevelIds, UnracedInv, DeltasAddUp
<1> QED BY <1>1, <1>2, <1>3 DEF ExpeditionsInv

-----------------------------------------------------------------------------
\* A step that adds no gradient.changed event and makes or changes none keeps
\* what is said of them.
LEMMA LevelsKept ==
  ASSUME LevelInv, UNCHANGED <<levels, clock>>,
         \A t \in Session : change'[t] # Nil => change'[t] = change[t],
         \A t \in Session : exPc'[t] = "stamped" => exPc[t] = "stamped" /\ change'[t] = change[t]
  PROVE  LevelInv'
<1>1. DeltasAddUp' /\ LevelIds'
  BY DEF LevelInv, DeltasAddUp, LevelIds
<1>2. UnracedInv'
  BY DEF LevelInv, UnracedInv, Level
<1> QED BY <1>1, <1>2 DEF LevelInv

\* next_issue keeps the invariant.
LEMMA NextIssueInv ==
  ASSUME ExpeditionsInv, NEW s \in Session, NextIssue(s)
  PROVE  ExpeditionsInv'
<1> USE DEF ExpeditionsInv
<1>1. ExTypeOK'
  <2>1. calls' \in 0 .. MaxCalls
    BY DEF NextIssue, Call, ExTypeOK
  <2>2. task' \in [Session -> Task \cup {Nil}]
    BY DEF NextIssue, ExTypeOK, Task
  <2> QED BY <2>1, <2>2 DEF NextIssue, ExTypeOK, recordVars, eventVars
<1>2. FilesBeforeEvents'
  BY DEF NextIssue, FilesBeforeEvents, recordVars, eventVars
<1>3. TaskInv'
  <2> SUFFICES ASSUME NEW t \in Session, task'[t] # Nil
               PROVE  /\ task'[t].seen \subseteq index'
                      /\ \A r \in task'[t].seen : r.exp < task'[t].exp
    BY DEF TaskInv
  <2>1. index' = index
    BY DEF NextIssue, recordVars
  <2>2. CASE t = s
    BY <2>1, <2>2 DEF NextIssue, IsNextNumber, ExTypeOK
  <2>3. CASE t # s
    BY <2>1, <2>3 DEF NextIssue, TaskInv, ExTypeOK
  <2> QED BY <2>2, <2>3
<1>4. CallInv'
  <2> SUFFICES ASSUME NEW t \in Session
               PROVE  CallInv!(t)'
    BY DEF CallInv
  <2>1. exPc[t] = "journal" => t # s
    BY DEF NextIssue
  <2>2. exPc[t] = "journal" => task'[t] = task[t]
    BY <2>1 DEF NextIssue, ExTypeOK
  <2> QED BY <2>2 DEF CallInv, NextIssue, recordVars, eventVars
<1>5. LevelInv'
  BY LevelsKept DEF NextIssue, eventVars
<1> QED BY <1>1, <1>2, <1>3, <1>4, <1>5

\* So does the call of append_journal.
LEMMA AppendJournalInv ==
  ASSUME ExpeditionsInv, NEW s \in Session, AppendJournal(s)
  PROVE  ExpeditionsInv'
<1> USE DEF ExpeditionsInv
<1> PICK pr \in BOOLEAN :
      report' = [report EXCEPT ![s] = [exp |-> task[s].exp, issue |-> task[s].issue, pr |-> pr]]
  BY DEF AppendJournal
<1> DEFINE r == [exp |-> task[s].exp, issue |-> task[s].issue, pr |-> pr]
<1>1. r \in Report /\ r # Nil
  BY DEF AppendJournal, ExTypeOK, Task, Report
<1>2. ExTypeOK'
  <2>1. calls' \in 0 .. MaxCalls
    BY DEF AppendJournal, Call, ExTypeOK
  <2>2. exPc' \in [Session -> ExSteps]
    BY DEF AppendJournal, ExTypeOK, ExSteps
  <2>3. report' \in [Session -> Report \cup {Nil}]
    BY <1>1 DEF ExTypeOK
  <2> QED BY <2>1, <2>2, <2>3 DEF AppendJournal, ExTypeOK, recordVars, eventVars
<1>3. FilesBeforeEvents' /\ TaskInv'
  BY DEF AppendJournal, FilesBeforeEvents, TaskInv, recordVars, eventVars
<1>4. CallInv'
  <2> SUFFICES ASSUME NEW t \in Session PROVE CallInv!(t)'
    BY DEF CallInv
  <2>1. CASE t = s
    <3>1. exPc'[t] = "journal" /\ report'[t] = r /\ change'[t] = Nil /\ task'[t] = task[t]
      BY <2>1 DEF AppendJournal, ExTypeOK, CallInv
    <3>2. r.exp = task[t].exp /\ task[t] # Nil
      BY <2>1 DEF AppendJournal
    <3> QED BY <1>1, <3>1, <3>2
  <2>2. CASE t # s
    BY <2>2 DEF AppendJournal, ExTypeOK, CallInv, recordVars, eventVars
  <2> QED BY <2>1, <2>2
<1>5. LevelInv'
  BY LevelsKept DEF AppendJournal, ExTypeOK, eventVars
<1> QED BY <1>2, <1>3, <1>4, <1>5

-----------------------------------------------------------------------------
\* The contents a report's writing can leave in its file keep every file that
\* was there.
LEMMA JournalFiles ==
  ASSUME ExTypeOK, NEW r \in Report, Unwritten \/ CutOff(r) \/ Written(r)
  PROVE  /\ journal' \in [Num -> Report \cup {Broken, Nil}]
         /\ \A n \in Num : journal[n] # Nil => journal'[n] # Nil
         /\ \A n \in Num : n # r.exp => journal'[n] = journal[n]
<1>1. r \notin {Nil, Broken} /\ Nil # Broken /\ r.exp \in Num
  BY DEF Report, ExpeditionsAssumption
<1>2. CASE Unwritten
  BY <1>2 DEF Unwritten, ExTypeOK
<1>3. CASE CutOff(r)
  BY <1>1, <1>3 DEF CutOff, ExTypeOK
<1>4. CASE Written(r)
  BY <1>1, <1>4 DEF Written, ExTypeOK
<1> QED BY <1>2, <1>3, <1>4

\* WriteJournal keeps the invariant.
LEMMA WriteJournalInv ==
  ASSUME ExpeditionsInv, NEW s \in Session, WriteJournal(s)
  PROVE  ExpeditionsInv'
<1> USE DEF ExpeditionsInv
<1>1. report[s] \in Report
  BY DEF WriteJournal, CallInv, ExTypeOK
<1>2. Unwritten \/ CutOff(report[s]) \/ Written(report[s])
  BY DEF WriteJournal
<1>3. ExTypeOK'
  <2>1. exPc' \in [Session -> ExSteps] /\ report' \in [Session -> Report \cup {Nil}]
    BY DEF WriteJournal, Proceed, Answer, ExTypeOK, ExSteps
  <2> QED BY <2>1, <1>1, <1>2, JournalFiles DEF WriteJournal, ExTypeOK, eventVars
<1>4. FilesBeforeEvents' /\ TaskInv'
  BY <1>1, <1>2, JournalFiles
  DEF WriteJournal, FilesBeforeEvents, TaskInv, ExTypeOK, Report, eventVars
<1>5. CallInv'
  <2> SUFFICES ASSUME NEW t \in Session PROVE CallInv!(t)'
    BY DEF CallInv
  <2>1. \A n \in Num : journal[n] # Nil => journal'[n] # Nil
    BY <1>1, <1>2, JournalFiles
  <2>2. CASE t # s
    <3>1. exPc'[t] = exPc[t] /\ report'[t] = report[t] /\ task'[t] = task[t] /\ change'[t] = change[t]
      BY <2>2 DEF WriteJournal, Proceed, Answer, ExTypeOK
    <3>2. report[t] # Nil => report[t].exp \in Num
      BY DEF ExTypeOK, Report
    <3> QED BY <3>1, <3>2, <2>1 DEF WriteJournal, CallInv, eventVars
  <2>3. CASE t = s /\ exPc'[s] = "index"
    <3>1. Written(report[s]) /\ report' = report
      BY <2>3 DEF WriteJournal, Answer, Proceed, ExTypeOK
    <3>2. journal'[report[s].exp] = report[s] /\ report[s] # Nil
      BY <1>1, <3>1 DEF Written, ExTypeOK, Report, ExpeditionsAssumption
    <3>3. change'[s] = Nil
      BY DEF WriteJournal, CallInv
    <3> QED BY <2>3, <3>1, <3>2, <3>3
  <2>4. CASE t = s /\ exPc'[s] # "index"
    <3>1. exPc'[s] = "idle" /\ change'[s] = Nil
      BY <2>4 DEF WriteJournal, Answer, Proceed, ExTypeOK, CallInv
    <3> QED BY <2>4, <3>1
  <2> QED BY <2>2, <2>3, <2>4
<1>6. LevelInv'
  BY LevelsKept DEF WriteJournal, Proceed, Answer, ExTypeOK, eventVars
<1> QED BY <1>3, <1>4, <1>5, <1>6

-----------------------------------------------------------------------------
\* The other calls of a session that is not s are where they were.
LEMMA OthersStay ==
  ASSUME ExTypeOK, CallInv, NEW s \in Session, NEW t \in Session \ {s},
         \A u \in Session \ {s} :
           /\ exPc'[u] = exPc[u]
           /\ report'[u] = report[u]
           /\ task'[u] = task[u]
           /\ (change'[u] = Nil <=> change[u] = Nil)
           /\ (exPc[u] = "loaded" => change'[u].id = change[u].id),
         \A n \in Num : journal[n] # Nil => journal'[n] # Nil,
         index \cup glued \subseteq index' \cup glued'
  PROVE  CallInv!(t)'
<1>1. report[t] # Nil => report[t].exp \in Num
  BY DEF ExTypeOK, Report
<1> QED BY <1>1 DEF CallInv

\* An append to pr-index.jsonl loses no line.
LEMMA IndexGrows ==
  ASSUME ExTypeOK, NEW r \in Report, IndexLine(r) \/ IndexCut
  PROVE  /\ index \subseteq index' /\ index' \subseteq index \cup {r}
         /\ glued \subseteq glued' /\ glued' \subseteq glued \cup {r}
         /\ torn' \in BOOLEAN
         /\ IndexLine(r) => r \in index' \cup glued'
  BY DEF ExTypeOK, IndexLine, IndexCut

\* WritePRIndex keeps the invariant.
LEMMA WritePRIndexInv ==
  ASSUME ExpeditionsInv, NEW s \in Session, WritePRIndex(s)
  PROVE  ExpeditionsInv'
<1> USE DEF ExpeditionsInv
<1>1. report[s] \in Report /\ journal[report[s].exp] # Nil
  BY DEF WritePRIndex, CallInv, ExTypeOK
<1>2. /\ index \subseteq index' /\ index' \subseteq index \cup {report[s]}
      /\ glued \subseteq glued' /\ glued' \subseteq glued \cup {report[s]}
      /\ torn' \in BOOLEAN
  BY <1>1, IndexGrows DEF WritePRIndex, ExTypeOK
<1>3. ExTypeOK'
  <2>1. exPc' \in [Session -> ExSteps] /\ report' \in [Session -> Report \cup {Nil}]
    BY DEF WritePRIndex, Proceed, Answer, ExTypeOK, ExSteps
  <2> QED BY <1>1, <1>2, <2>1 DEF WritePRIndex, ExTypeOK, eventVars
<1>4. FilesBeforeEvents' /\ TaskInv'
  BY <1>1, <1>2 DEF WritePRIndex, FilesBeforeEvents, TaskInv, eventVars
<1>5. CallInv'
  <2> SUFFICES ASSUME NEW t \in Session PROVE CallInv!(t)'
    BY DEF CallInv
  <2>1. change' = change /\ task' = task /\ journal' = journal
    BY DEF WritePRIndex
  <2>2. CASE t # s
    <3>1. \A u \in Session \ {s} : exPc'[u] = exPc[u] /\ report'[u] = report[u]
      BY DEF WritePRIndex, Proceed, Answer, ExTypeOK
    <3> QED BY <1>2, <2>1, <2>2, <3>1, OthersStay
  <2>3. CASE t = s /\ exPc'[s] = "emit"
    <3>1. report' = report
      BY <2>3 DEF WritePRIndex, Proceed, Answer, ExTypeOK
    <3>2. report[s].pr => report[s] \in index' \cup glued'
      BY <2>3, <1>1, IndexGrows DEF WritePRIndex, Proceed, Answer, ExTypeOK
    <3>3. change'[s] = Nil
      BY <2>1 DEF WritePRIndex, CallInv
    <3> QED BY <2>1, <2>3, <3>1, <3>2, <3>3, <1>1 DEF CallInv
  <2>4. CASE t = s /\ exPc'[s] # "emit"
    <3>1. exPc'[s] = "idle" /\ change'[s] = Nil
      BY <2>4 DEF WritePRIndex, Answer, Proceed, ExTypeOK, CallInv
    <3> QED BY <2>4, <3>1
  <2> QED BY <2>2, <2>3, <2>4
<1>6. LevelInv'
  BY LevelsKept DEF WritePRIndex, Proceed, Answer, ExTypeOK, eventVars
<1> QED BY <1>3, <1>4, <1>5, <1>6

\* EmitCompleteExpedition keeps the invariant.
LEMMA EmitCompleteInv ==
  ASSUME ExpeditionsInv, NEW s \in Session, EmitCompleteExpedition(s)
  PROVE  ExpeditionsInv'
<1> USE DEF ExpeditionsInv
<1>1. /\ report[s] \in Report /\ journal[report[s].exp] # Nil
      /\ report[s].pr => report[s] \in index \cup glued
  BY DEF EmitCompleteExpedition, CallInv, ExTypeOK
<1>2. /\ completed \subseteq completed' /\ completed' \subseteq completed \cup {report[s]}
      /\ hidden \subseteq hidden' /\ hidden' \subseteq hidden \cup {report[s]}
      /\ acked' \ acked \subseteq completed' \cup hidden'
  BY DEF EmitCompleteExpedition, Recorded, Hidden, Unrecorded
<1>3. ExTypeOK'
  <2>1. exPc' \in [Session -> ExSteps] /\ report' \in [Session -> Report \cup {Nil}]
    BY DEF EmitCompleteExpedition, Answer, ExTypeOK, ExSteps
  <2>2. task' \in [Session -> Task \cup {Nil}] /\ acked' \subseteq Report
    BY <1>1 DEF EmitCompleteExpedition, ExTypeOK
  <2> QED BY <1>1, <1>2, <2>1, <2>2 DEF EmitCompleteExpedition, ExTypeOK, recordVars
<1>4. FilesBeforeEvents'
  BY <1>1, <1>2 DEF EmitCompleteExpedition, FilesBeforeEvents, recordVars
<1>5. TaskInv'
  BY DEF EmitCompleteExpedition, TaskInv, ExTypeOK, recordVars
<1>6. CallInv'
  <2> SUFFICES ASSUME NEW t \in Session PROVE CallInv!(t)'
    BY DEF CallInv
  <2>1. \A u \in Session \ {s} : exPc'[u] = exPc[u] /\ report'[u] = report[u] /\ task'[u] = task[u]
    BY DEF EmitCompleteExpedition, Answer, ExTypeOK
  <2>2. CASE t # s
    BY <2>1, <2>2, OthersStay DEF EmitCompleteExpedition, recordVars
  <2>3. CASE t = s
    BY <2>3 DEF EmitCompleteExpedition, Answer, ExTypeOK, CallInv
  <2> QED BY <2>2, <2>3
<1>7. LevelInv'
  BY LevelsKept DEF EmitCompleteExpedition, Answer, ExTypeOK
<1> QED BY <1>3, <1>4, <1>5, <1>6, <1>7

-----------------------------------------------------------------------------
\* There is one current level.
LEMMA LevelUnique ==
  ASSUME LevelIds, ExTypeOK, NEW l, NEW m, Level(l), Level(m)
  PROVE  l = m
<1>1. CASE levels = {}
  BY <1>1 DEF Level
<1>2. CASE levels # {}
  <2>1. PICK e \in levels : e.level = l /\ \A f \in levels : f.id <= e.id
    BY <1>2 DEF Level
  <2>2. PICK g \in levels : g.level = m /\ \A f \in levels : f.id <= g.id
    BY <1>2 DEF Level
  <2>3. e.id = g.id
    BY <2>1, <2>2 DEF ExTypeOK, Change
  <2> QED BY <2>1, <2>2, <2>3 DEF LevelIds
<1> QED BY <1>1, <1>2

\* The read of update_gradient keeps the invariant.
LEMMA LoadGradientInv ==
  ASSUME ExpeditionsInv, NEW s \in Session, LoadGradient(s)
  PROVE  ExpeditionsInv'
<1> USE DEF ExpeditionsInv
<1> PICK delta \in {-1, 1}, l \in Levels :
      /\ Level(l)
      /\ change' = [change EXCEPT ![s] =
                      [id |-> 0, delta |-> delta, level |-> l + delta, raced |-> FALSE]]
  BY DEF LoadGradient
<1> DEFINE c == [id |-> 0, delta |-> delta, level |-> l + delta, raced |-> FALSE]
<1>1. l \in Int
  BY DEF Levels, ExTypeOK, Change
<1>2. c \in Change /\ c # Nil
  <2>1. l + delta \in Int
    BY <1>1
  <2>2. c \in Change
    BY <2>1 DEF Change
  <2> HIDE DEF c
  <2> QED BY <2>2 DEF ExpeditionsAssumption
<1>3. /\ exPc'[s] = "loaded" /\ change'[s] = c
      /\ \A t \in Session \ {s} : exPc'[t] = exPc[t] /\ change'[t] = change[t]
      /\ task' = task /\ report' = report /\ journal' = journal /\ index' = index /\ glued' = glued
      /\ levels' = levels /\ clock' = clock
  BY DEF LoadGradient, ExTypeOK, recordVars, eventVars
<1>4. ExTypeOK'
  <2>1. calls' \in 0 .. MaxCalls
    BY DEF LoadGradient, Call, ExTypeOK
  <2>2. exPc' \in [Session -> ExSteps] /\ change' \in [Session -> Change \cup {Nil}]
    BY <1>2 DEF LoadGradient, ExTypeOK, ExSteps
  <2> QED BY <2>1, <2>2 DEF LoadGradient, ExTypeOK, recordVars, eventVars
<1>5. FilesBeforeEvents' /\ TaskInv'
  BY DEF LoadGradient, FilesBeforeEvents, TaskInv, recordVars, eventVars
<1>6. CallInv'
  <2> SUFFICES ASSUME NEW t \in Session PROVE CallInv!(t)'
    BY DEF CallInv
  <2>1. CASE t # s
    BY <1>3, <2>1, OthersStay
  <2>2. CASE t = s
    BY <1>2, <1>3, <2>2
  <2> QED BY <2>1, <2>2
<1>7. LevelIds' /\ DeltasAddUp'
  BY <1>3 DEF LevelInv, LevelIds, DeltasAddUp
<1>8. UnracedInv'
  <2> SUFFICES ASSUME NEW t \in Session, change'[t] # Nil
               PROVE  (UnracedInv!(t)!2)'
    BY DEF UnracedInv
  <2>1. CASE t # s
    BY <1>3, <2>1 DEF LevelInv, UnracedInv, Level
  <2>2. CASE t = s
    <3>1. c.level - c.delta = l
      BY <1>1
    <3> QED BY <1>3, <2>2, <3>1 DEF Level
  <2> QED BY <2>1, <2>2
<1> QED BY <1>4, <1>5, <1>6, <1>7, <1>8 DEF LevelInv

\* The making of a gradient.changed event keeps the invariant.
LEMMA MakeGradientChangeInv ==
  ASSUME ExpeditionsInv, NEW s \in Session, MakeGradientChange(s)
  PROVE  ExpeditionsInv'
<1> USE DEF ExpeditionsInv
<1> DEFINE c == [id |-> clock, delta |-> change[s].delta,
                 level |-> change[s].level, raced |-> change[s].raced]
<1>1. change[s] \in Change
  BY DEF MakeGradientChange, CallInv, ExTypeOK
<1>2. c \in Change /\ c # Nil
  <2>1. c \in Change
    BY <1>1 DEF Change, ExTypeOK
  <2> HIDE DEF c
  <2> QED BY <2>1 DEF ExpeditionsAssumption
<1>3. /\ exPc[s] = "loaded" /\ exPc'[s] = "stamped" /\ change'[s] = c
      /\ \A t \in Session \ {s} : exPc'[t] = exPc[t] /\ change'[t] = change[t]
      /\ task' = task /\ report' = report /\ journal' = journal /\ index' = index /\ glued' = glued
      /\ levels' = levels /\ clock' = clock + 1
  BY DEF MakeGradientChange, Proceed, ExTypeOK, recordVars
<1>4. ExTypeOK'
  <2>1. exPc' \in [Session -> ExSteps] /\ change' \in [Session -> Change \cup {Nil}]
    BY <1>2 DEF MakeGradientChange, Proceed, ExTypeOK, ExSteps
  <2>2. clock' \in Nat \ {0}
    BY <1>3 DEF ExTypeOK
  <2> QED BY <2>1, <2>2 DEF MakeGradientChange, Proceed, ExTypeOK, recordVars
<1>5. FilesBeforeEvents' /\ TaskInv'
  BY DEF MakeGradientChange, FilesBeforeEvents, TaskInv, recordVars
<1>6. CallInv'
  <2> SUFFICES ASSUME NEW t \in Session PROVE CallInv!(t)'
    BY DEF CallInv
  <2>1. CASE t # s
    BY <1>3, <2>1, OthersStay
  <2>2. CASE t = s
    BY <1>2, <1>3, <2>2
  <2> QED BY <2>1, <2>2
<1>7. DeltasAddUp'
  BY <1>3 DEF LevelInv, DeltasAddUp
<1>8. LevelIds'
  <2>1. \A e \in levels' : 0 < e.id /\ e.id < clock'
    BY <1>3 DEF LevelInv, LevelIds, ExTypeOK, Change
  <2>2. ASSUME NEW t \in Session, exPc'[t] = "stamped"
        PROVE  /\ 0 < change'[t].id /\ change'[t].id < clock'
               /\ \A e \in levels' : e.id # change'[t].id
               /\ \A u \in Session : exPc'[u] = "stamped" /\ change'[u].id = change'[t].id => u = t
    <3>1. c.id = clock /\ 0 < clock /\ clock \in Nat
      BY DEF ExTypeOK
    <3>2. \A u \in Session \ {s} : exPc'[u] = "stamped" =>
            0 < change'[u].id /\ change'[u].id < clock /\ change'[u].id \in Nat
      BY <1>3 DEF LevelInv, LevelIds, CallInv, ExTypeOK, Change
    <3>3. \A e \in levels : e.id < clock /\ e.id \in Nat
      BY DEF LevelInv, LevelIds, ExTypeOK, Change
    <3>4. CASE t = s
      BY <1>3, <3>1, <3>2, <3>3, <3>4
    <3>5. CASE t # s
      <4>1. \A e \in levels : e.id # change[t].id
        BY <1>3, <2>2, <3>5 DEF LevelInv, LevelIds
      <4>2. \A u \in Session \ {s} : exPc'[u] = "stamped" /\ change'[u].id = change'[t].id => u = t
        BY <1>3, <2>2, <3>5 DEF LevelInv, LevelIds
      <4> QED BY <1>3, <2>2, <3>1, <3>2, <3>5, <4>1, <4>2
    <3> QED BY <3>4, <3>5
  <2> QED BY <1>3, <2>1, <2>2 DEF LevelInv, LevelIds
<1>9. UnracedInv'
  <2> SUFFICES ASSUME NEW t \in Session, change'[t] # Nil
               PROVE  (UnracedInv!(t)!2)'
    BY DEF UnracedInv
  <2>1. CASE t # s
    BY <1>3, <2>1 DEF LevelInv, UnracedInv, Level
  <2>2. CASE t = s
    <3>1. /\ c.raced = change[s].raced /\ c.level = change[s].level
          /\ c.delta = change[s].delta /\ c.id = clock
      OBVIOUS
    <3>2. change[s].raced \/ Level(change[s].level - change[s].delta)
      BY <1>1 DEF LevelInv, UnracedInv, ExpeditionsAssumption
    <3>3. \A e \in levels : e.id < clock
      BY DEF LevelInv, LevelIds
    <3> QED BY <1>3, <2>2, <3>1, <3>2, <3>3 DEF Level
  <2> QED BY <2>1, <2>2
<1> QED BY <1>4, <1>5, <1>6, <1>7, <1>8, <1>9 DEF LevelInv

\* An event that reaches the log: either it was raced, or it comes last and
\* carries the last level and its own delta.
LEMMA LevelLineKeeps ==
  ASSUME ExTypeOK, CallInv, LevelInv, NEW s \in Session, exPc[s] = "stamped", LevelLine(s),
         clock' = clock, exPc'[s] = "idle", \A t \in Session \ {s} : exPc'[t] = exPc[t]
  PROVE  LevelInv' /\ levels' \subseteq Change /\ change' \in [Session -> Change \cup {Nil}]
<1> DEFINE c == change[s]
<1>1. c \in Change /\ levels' = levels \cup {c}
  BY DEF CallInv, ExTypeOK, LevelLine
<1>2. ASSUME NEW t \in Session
      PROVE  \/ change'[t] = Nil
             \/ /\ t # s /\ change[t] # Nil /\ change'[t] \in Change
                /\ change'[t].raced /\ change'[t].id = change[t].id
  BY DEF LevelLine, ExTypeOK, Change
<1>3. levels' \subseteq Change /\ change' \in [Session -> Change \cup {Nil}]
  BY <1>1, <1>2 DEF LevelLine, ExTypeOK
<1>4. LevelIds'
  <2>1. /\ \A e, f \in levels' : e.id = f.id => e = f
        /\ \A e \in levels' : 0 < e.id /\ e.id < clock'
    BY <1>1 DEF LevelInv, LevelIds
  <2>2. ASSUME NEW t \in Session, exPc'[t] = "stamped"
        PROVE  t # s /\ exPc[t] = "stamped" /\ change'[t].id = change[t].id
    <3>1. t # s /\ exPc[t] = "stamped"
      BY <2>2
    <3>2. change[t] # Nil
      BY <3>1 DEF CallInv
    <3> QED BY <3>1, <3>2 DEF LevelLine
  <2> QED BY <1>1, <2>1, <2>2 DEF LevelInv, LevelIds
<1>5. UnracedInv'
  BY <1>2 DEF UnracedInv
<1>6. DeltasAddUp'
  <2> SUFFICES ASSUME NEW e \in levels', NEW f \in levels', e.id < f.id,
                      \A g \in levels' : g.id <= e.id \/ g.id >= f.id,
                      ~e.raced, ~f.raced
               PROVE  f.level = e.level + f.delta
    BY DEF DeltasAddUp
  <2>1. CASE e \in levels /\ f \in levels
    BY <1>1, <2>1 DEF LevelInv, DeltasAddUp
  <2>2. CASE ~(e \in levels /\ f \in levels)
    <3>1. ~c.raced
      BY <1>1, <2>2
    <3>2. /\ Level(c.level - c.delta)
          /\ \A g \in levels : g.id < c.id
      BY <1>1, <3>1 DEF LevelInv, UnracedInv, CallInv
    <3>3. f = c /\ e \in levels
      BY <1>1, <2>2, <3>2 DEF ExTypeOK, Change
    <3>4. \A g \in levels : g.id <= e.id
      BY <1>1, <3>2, <3>3 DEF ExTypeOK, Change
    <3>5. Level(e.level)
      BY <3>3, <3>4 DEF Level
    <3>6. e.level = c.level - c.delta
      BY <3>2, <3>5, LevelUnique DEF LevelInv
    <3> QED BY <1>1, <3>3, <3>6 DEF ExTypeOK, Change
  <2> QED BY <2>1, <2>2
<1> QED BY <1>3, <1>4, <1>5, <1>6 DEF LevelInv

\* The changes other sessions are making stay, raced or not.
LEMMA ChangesStay ==
  ASSUME ExTypeOK, NEW s \in Session, LevelLine(s) \/ NoLevelLine(s)
  PROVE  /\ change'[s] = Nil
         /\ \A u \in Session \ {s} : /\ (change'[u] = Nil <=> change[u] = Nil)
                                    /\ (change[u] # Nil => change'[u].id = change[u].id)
<1>1. change'[s] = Nil
  BY DEF LevelLine, NoLevelLine, ExTypeOK
<1>2. ASSUME NEW u \in Session \ {s}, LevelLine(s), change[u] # Nil
      PROVE  change'[u] # Nil /\ change'[u].id = change[u].id
  <2> DEFINE c == [id |-> change[u].id, delta |-> change[u].delta,
                   level |-> change[u].level, raced |-> TRUE]
  <2>1. change'[u] = c
    BY <1>2 DEF LevelLine
  <2>2. c \in Change
    BY <1>2 DEF ExTypeOK, Change
  <2>3. c.id = change[u].id
    OBVIOUS
  <2> HIDE DEF c
  <2> QED BY <2>1, <2>2, <2>3 DEF ExpeditionsAssumption
<1>3. CASE LevelLine(s)
  BY <1>1, <1>2, <1>3 DEF LevelLine
<1>4. CASE NoLevelLine(s)
  BY <1>1, <1>4 DEF NoLevelLine, ExTypeOK
<1> QED BY <1>3, <1>4

\* The append of a gradient.changed event keeps the invariant.
LEMMA AppendGradientChangeInv ==
  ASSUME ExpeditionsInv, NEW s \in Session, AppendGradientChange(s)
  PROVE  ExpeditionsInv'
<1> USE DEF ExpeditionsInv
<1>1. /\ exPc[s] = "stamped" /\ exPc'[s] = "idle" /\ clock' = clock
      /\ \A t \in Session \ {s} : exPc'[t] = exPc[t] /\ report'[t] = report[t]
      /\ exPc' \in [Session -> ExSteps] /\ report' \in [Session -> Report \cup {Nil}]
  BY DEF AppendGradientChange, Answer, ExTypeOK, ExSteps
<1>2. LevelInv' /\ levels' \subseteq Change /\ change' \in [Session -> Change \cup {Nil}]
  <2>1. CASE LevelLine(s)
    BY <1>1, <2>1, LevelLineKeeps
  <2>2. CASE NoLevelLine(s)
    <3>1. LevelInv'
      BY <1>1, <2>2, LevelsKept DEF NoLevelLine, ExTypeOK
    <3> QED BY <2>2, <3>1 DEF NoLevelLine, ExTypeOK
  <2> QED BY <2>1, <2>2 DEF AppendGradientChange
<1>3. ExTypeOK'
  BY <1>1, <1>2 DEF AppendGradientChange, ExTypeOK, recordVars
<1>4. FilesBeforeEvents' /\ TaskInv'
  BY DEF AppendGradientChange, FilesBeforeEvents, TaskInv, recordVars
<1>5. CallInv'
  <2> SUFFICES ASSUME NEW t \in Session PROVE CallInv!(t)'
    BY DEF CallInv
  <2>1. \A u \in Session \ {s} : /\ (change'[u] = Nil <=> change[u] = Nil)
                                 /\ (change[u] # Nil => change'[u].id = change[u].id)
    BY ChangesStay DEF AppendGradientChange
  <2>2. CASE t # s
    <3>1. \A u \in Session : exPc[u] = "loaded" => change[u] # Nil
      BY DEF CallInv
    <3> QED BY <1>1, <2>1, <2>2, <3>1, OthersStay DEF AppendGradientChange, recordVars
  <2>3. CASE t = s
    <3>1. change'[s] = Nil
      BY DEF AppendGradientChange, LevelLine, NoLevelLine, ExTypeOK
    <3> QED BY <1>1, <2>3, <3>1
  <2> QED BY <2>2, <2>3
<1> QED BY <1>2, <1>3, <1>4, <1>5

\* A session that dies, wherever it is, keeps the invariant.
LEMMA DieInv ==
  ASSUME ExpeditionsInv, NEW s \in Session, DieCalling(s)
  PROVE  ExpeditionsInv'
<1> USE DEF ExpeditionsInv
<1>1. /\ exPc'[s] = "idle" /\ task'[s] = Nil /\ acked' = acked /\ calls' = calls /\ clock' = clock
      /\ \A t \in Session \ {s} : exPc'[t] = exPc[t] /\ report'[t] = report[t] /\ task'[t] = task[t]
      /\ exPc' \in [Session -> ExSteps] /\ report' \in [Session -> Report \cup {Nil}]
      /\ task' \in [Session -> Task \cup {Nil}]
  BY DEF DieCalling, LeftBehind, Answer, ExTypeOK, ExSteps, eventVars
<1>2. exPc[s] \in {"journal", "index", "emit"} => report[s] \in Report
  BY DEF CallInv, ExTypeOK
<1>3. /\ journal' \in [Num -> Report \cup {Broken, Nil}]
      /\ \A n \in Num : journal[n] # Nil => journal'[n] # Nil
  <2>1. CASE journal' = journal
    BY <2>1 DEF ExTypeOK
  <2>2. CASE exPc[s] = "journal" /\ (CutOff(report[s]) \/ Written(report[s]))
    BY <1>2, <2>2, JournalFiles
  <2> QED BY <2>1, <2>2 DEF DieCalling, LeftBehind, recordVars
<1>4. /\ index \subseteq index' /\ glued \subseteq glued'
      /\ torn' \in BOOLEAN /\ index' \subseteq Report /\ glued' \subseteq Report
      /\ \A r \in (index' \cup glued') \ (index \cup glued) : journal'[r.exp] # Nil
  <2>1. CASE UNCHANGED <<index, torn, glued>>
    BY <2>1 DEF ExTypeOK
  <2>2. CASE exPc[s] = "index" /\ journal' = journal /\ (IndexLine(report[s]) \/ IndexCut)
    <3>1. journal[report[s].exp] # Nil
      BY <2>2 DEF CallInv
    <3> QED BY <1>2, <2>2, <3>1, IndexGrows DEF ExTypeOK
  <2> QED BY <2>1, <2>2 DEF DieCalling, LeftBehind, recordVars
<1>5. /\ completed \subseteq completed' /\ hidden \subseteq hidden'
      /\ completed' \subseteq Report /\ hidden' \subseteq Report
      /\ \A r \in (completed' \cup hidden') \ (completed \cup hidden) :
           journal'[r.exp] # Nil /\ (r.pr => r \in index' \cup glued')
  <2>1. CASE UNCHANGED <<completed, hidden>>
    BY <2>1 DEF ExTypeOK
  <2>2. CASE /\ exPc[s] = "emit" /\ UNCHANGED recordVars
             /\ Recorded(report[s]) \/ Hidden(report[s])
    BY <1>2, <2>2 DEF CallInv, Recorded, Hidden, ExTypeOK, recordVars
  <2> QED BY <2>1, <2>2 DEF DieCalling, LeftBehind, eventVars
<1>6. LevelInv' /\ levels' \subseteq Change /\ change' \in [Session -> Change \cup {Nil}]
  <2>1. CASE exPc[s] = "stamped" /\ LevelLine(s)
    BY <1>1, <2>1, LevelLineKeeps
  <2>2. CASE NoLevelLine(s)
    <3>1. LevelInv'
      BY <1>1, <2>2, LevelsKept DEF NoLevelLine, ExTypeOK
    <3> QED BY <2>2, <3>1 DEF NoLevelLine, ExTypeOK
  <2> QED BY <2>1, <2>2 DEF DieCalling, LeftBehind
<1>7. ExTypeOK'
  BY <1>1, <1>3, <1>4, <1>5, <1>6 DEF ExTypeOK
<1>8. FilesBeforeEvents'
  BY <1>1, <1>3, <1>4, <1>5 DEF FilesBeforeEvents, ExTypeOK, Report
<1>9. TaskInv'
  BY <1>1, <1>4 DEF TaskInv
<1>10. CallInv'
  <2> SUFFICES ASSUME NEW t \in Session PROVE CallInv!(t)'
    BY DEF CallInv
  <2>1. LevelLine(s) \/ NoLevelLine(s)
    BY DEF DieCalling, LeftBehind
  <2>2. CASE t # s
    <3>1. \A u \in Session : exPc[u] = "loaded" => change[u] # Nil
      BY DEF CallInv
    <3> QED BY <1>1, <1>3, <1>4, <2>1, <2>2, <3>1, ChangesStay, OthersStay
  <2>3. CASE t = s
    BY <1>1, <2>1, <2>3, ChangesStay
  <2> QED BY <2>2, <2>3
<1> QED BY <1>6, <1>7, <1>8, <1>9, <1>10

-----------------------------------------------------------------------------
\* Every step keeps the invariant.
LEMMA NextInv == ExpeditionsInv /\ [ExNext]_exVars => ExpeditionsInv'
<1> SUFFICES ASSUME ExpeditionsInv, [ExNext]_exVars PROVE ExpeditionsInv'
  OBVIOUS
<1>1. CASE UNCHANGED exVars
  <2>1. UNCHANGED <<journal, index, torn, glued, completed, hidden, levels, clock,
                    exPc, task, report, change, calls, acked>>
    BY <1>1 DEF exVars, recordVars, eventVars, sessionVars
  <2>2. ExTypeOK' /\ FilesBeforeEvents' /\ CallInv' /\ TaskInv'
    BY <2>1 DEF ExpeditionsInv, ExTypeOK, FilesBeforeEvents, CallInv, TaskInv
  <2>3. LevelInv'
    BY <2>1, LevelsKept DEF ExpeditionsInv
  <2> QED BY <2>2, <2>3 DEF ExpeditionsInv
<1>2. CASE ExNext
  BY <1>2, NextIssueInv, AppendJournalInv, LoadGradientInv, WriteJournalInv, WritePRIndexInv,
     EmitCompleteInv, MakeGradientChangeInv, AppendGradientChangeInv, DieInv
  DEF ExNext, GoOn
<1> QED BY <1>1, <1>2

\* The invariant holds however many sessions call, crash and race.
THEOREM ExpeditionsInvariant == ExSpec => []ExpeditionsInv
  BY InitInv, NextInv, PTL DEF ExSpec

\* Type correctness of journal, index, events and calls.
THEOREM ExpeditionsTypeOK == ExSpec => []ExTypeOK
<1>1. ExpeditionsInv => ExTypeOK
  BY DEF ExpeditionsInv
<1> QED BY <1>1, ExpeditionsInvariant, PTL

\* append_journal: an event has its files, whatever crashes in between.
THEOREM EventsHaveFiles == ExSpec => []FilesBeforeEvents
<1>1. ExpeditionsInv => FilesBeforeEvents
  BY DEF ExpeditionsInv
<1> QED BY <1>1, ExpeditionsInvariant, PTL

\* update_gradient: no delta is lost but by overlapping calls.
THEOREM NoDeltaLost == ExSpec => []DeltasAddUp
<1>1. ExpeditionsInv => DeltasAddUp
  BY DEF ExpeditionsInv, LevelInv
<1> QED BY <1>1, ExpeditionsInvariant, PTL

\* next_issue and append_journal: an indexed report is overwritten only by a
\* session that asked for its number before the report was indexed.
THEOREM IndexedReportsAreKept == ExSpec => ReportsKept
<1> DEFINE Kept == \A r \in index :
       journal[r.exp] = r /\ journal'[r.exp] # r =>
         \E s \in Session : /\ exPc[s] = "journal"
                            /\ task[s].exp = r.exp
                            /\ r \notin task[s].seen
<1>1. ExpeditionsInv /\ [ExNext]_exVars => [Kept]_exVars
  <2> SUFFICES ASSUME ExpeditionsInv, ExNext, NEW r \in index,
                      journal[r.exp] = r, journal'[r.exp] # r
               PROVE  \E s \in Session : /\ exPc[s] = "journal"
                                         /\ task[s].exp = r.exp
                                         /\ r \notin task[s].seen
    OBVIOUS
  <2>1. PICK s \in Session :
          exPc[s] = "journal" /\ (Unwritten \/ CutOff(report[s]) \/ Written(report[s]))
    BY DEF ExNext, GoOn, NextIssue, AppendJournal, LoadGradient, WriteJournal, WritePRIndex,
           EmitCompleteExpedition, MakeGradientChange, AppendGradientChange, DieCalling, LeftBehind,
           recordVars
  <2>2. /\ ExTypeOK /\ report[s] \in Report /\ task[s] \in Task /\ r \in Report
        /\ report[s].exp = task[s].exp /\ task[s] # Nil
    BY <2>1 DEF ExpeditionsInv, CallInv, ExTypeOK
  <2>3. r.exp = task[s].exp
    BY <2>1, <2>2, JournalFiles DEF Report
  <2>4. \A q \in task[s].seen : q.exp < task[s].exp
    BY <2>2 DEF ExpeditionsInv, TaskInv
  <2>5. r.exp \in Nat
    BY <2>2 DEF Report, Num
  <2>6. r \notin task[s].seen
    BY <2>3, <2>4, <2>5
  <2> QED BY <2>1, <2>3, <2>6
<1> QED BY <1>1, ExpeditionsInvariant, PTL DEF ExSpec, ReportsKept

=============================================================================

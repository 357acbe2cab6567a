------------------------------- MODULE SendDMail -------------------------------
(***************************************************************************)
(* The dmail tool: several sessions, each a process that serves one call   *)
(* at a time, send d-mails through the shared outbox.  A call stages its   *)
(* d-mail, records the dmail.staged event, flushes whatever is pending     *)
(* (its own row or not), and answers from the number of rows flushed.  The *)
(* internal steps of the flush are those of module Outbox.                 *)
(***************************************************************************)
EXTENDS Outbox

VARIABLES
  pc,      \* where each process is in SendDMail
  mail,    \* the d-mail of its call
  batch,   \* the names its flush selected
  reply    \* what the call answered

callVars == <<pc, mail, batch, reply>>
sendVars == <<vars, callVars>>

PC    == {"idle", "staged", "flush", "flushing", "flushed"}
Reply == {"none", "sent", "not delivered", "error"}

SendInit ==
  /\ Init
  /\ pc = [p \in Proc |-> "idle"]
  /\ mail = [p \in Proc |-> None]
  /\ batch = [p \in Proc |-> {}]
  /\ reply = [p \in Proc |-> "none"]

Goto(p, label) ==
  /\ pc' = [pc EXCEPT ![p] = label]
  /\ UNCHANGED <<mail, reply>>

\* The call ends, and its local variables with it.
Return(p, answer) ==
  /\ pc' = [pc EXCEPT ![p] = "idle"]
  /\ reply' = [reply EXCEPT ![p] = answer]
  /\ mail' = [mail EXCEPT ![p] = None]
  /\ batch' = [batch EXCEPT ![p] = {}]

\* A new call, perhaps the retry of one that failed; its Stage succeeds or
\* fails (the lock is not had within busy_timeout, the disk is full).
CallStage(p) ==
  /\ pc[p] = "idle"
  /\ \/ \E m \in Mails :
          /\ Stage(m[1], m[2])
          /\ mail' = [mail EXCEPT ![p] = m]
          /\ pc' = [pc EXCEPT ![p] = "staged"]
          /\ reply' = [reply EXCEPT ![p] = "none"]
          /\ UNCHANGED batch
     \/ Return(p, "error") /\ UNCHANGED vars

\* EmitDMailStaged; its error ends the call with the row left staged.
EmitStaged(p) ==
  /\ pc[p] = "staged"
  /\ (Goto(p, "flush") /\ UNCHANGED batch) \/ Return(p, "error")
  /\ UNCHANGED vars

CallFlush(p) ==
  /\ pc[p] = "flush"
  /\ BeginFlush(p)
  /\ batch' = [batch EXCEPT ![p] = Eligible(staged)]
  /\ Goto(p, "flushing")

\* Flush returns 0 although the call's own row was staged: somebody else
\* flushed or purged it meanwhile.
FlushFindsNothing(p) ==
  /\ pc[p] = "flush"
  /\ writer = None
  /\ Eligible(staged) = {}
  /\ Return(p, "not delivered")
  /\ UNCHANGED vars

\* BEGIN IMMEDIATE fails, after busy_timeout or otherwise.
FlushBusy(p) ==
  /\ pc[p] = "flush"
  /\ Return(p, "error")
  /\ UNCHANGED vars

FlushItem(p) ==
  /\ pc[p] = "flushing"
  /\ \E n \in Name : ArchiveItem(p, n) \/ DeliverItem(p, n) \/ FailItem(p, n)
  /\ UNCHANGED callVars

\* Mutant of FlushCommit: n = 0 is not looked at.
FlushCommitAnyCount(p) ==
  /\ pc[p] = "flushing"
  /\ Commit(p)
  /\ Goto(p, "flushed")
  /\ UNCHANGED batch

\* The reply depends on how many rows were flushed, not on which.
FlushCommit(p) ==
  /\ pc[p] = "flushing"
  /\ Commit(p)
  /\ IF Marked = {} THEN Return(p, "not delivered")
                    ELSE Goto(p, "flushed") /\ UNCHANGED batch

\* Mutant of FlushError: the deferred ROLLBACK is a COMMIT.
FlushErrorCommits(p) ==
  /\ pc[p] = "flushing"
  /\ writer = p
  /\ EndTransaction(view)
  /\ Return(p, "error")

FlushError(p) ==
  /\ pc[p] = "flushing"
  /\ Rollback(p)
  /\ Return(p, "error")

\* EmitDMailFlushed; its error fails the call although the rows are out.
EmitFlushed(p) ==
  /\ pc[p] = "flushed"
  /\ Return(p, "sent") \/ Return(p, "error")
  /\ UNCHANGED vars

\* The process dies in the middle of a call and is started again.
Die(p) ==
  /\ pc[p] # "idle"
  /\ IF writer = p THEN Rollback(p) ELSE UNCHANGED vars
  /\ Return(p, "none")

Continue(p) ==
  \/ EmitStaged(p) \/ CallFlush(p) \/ FlushFindsNothing(p) \/ FlushBusy(p)
  \/ FlushItem(p) \/ FlushCommit(p) \/ EmitFlushed(p)

\* Other commands and the courier.
Elsewhere ==
  /\ PruneFlushed \/ PurgeDeadLetters \/ \E n \in Name : CourierTakes(n)
  /\ UNCHANGED callVars

SendNext ==
  \/ \E p \in Proc : CallStage(p) \/ Continue(p) \/ FlushError(p) \/ Die(p)
  \/ Elsewhere

SendSpec == SendInit /\ [][SendNext]_sendVars

\* A call in progress keeps running: Go schedules the process and SQLite's
\* busy_timeout bounds the wait for the lock.
FairSendSpec == SendSpec /\ \A p \in Proc : WF_sendVars(Continue(p))

-----------------------------------------------------------------------------
SendTypeOK ==
  /\ TypeOK
  /\ pc \in [Proc -> PC]
  /\ mail \in [Proc -> Mails \cup {None}]
  /\ batch \in [Proc -> SUBSET Name]
  /\ reply \in [Proc -> Reply]

\* The calls move the store only as module Outbox allows: whatever holds of
\* the outbox holds however many sessions send, die and retry.
UsesOutbox == Spec

\* Exactly the process inside Flush holds the write lock.
LockMatchesCall == \A p \in Proc : pc[p] = "flushing" <=> writer = p

\* A call about to answer "sent" is right to do so if its flush selected no
\* row but its own and no other d-mail has the name: the row count it goes by
\* is misleading only through other rows (SentMeansHanded).
SentWhenAlone ==
  \A p \in Proc :
    /\ pc[p] = "flushed"
    /\ batch[p] \subseteq {mail[p][1]}
    /\ SameNameSameMail(mail[p][1])
    => mail[p] \in handed

\* Every call that started gets an answer, or its process dies: no two
\* sessions wait for each other for ever.
AlwaysAnswers == \A p \in Proc : pc[p] # "idle" ~> pc[p] = "idle"

\* What SendDMail's nil error claims ("writes a d-mail via the transactional
\* outbox (Stage -> Flush to archive/ + outbox/)"): a call that answered
\* "sent" has placed its d-mail in outbox/.
SentMeansHanded ==
  [][\A p \in Proc :
       reply'[p] = "sent" /\ reply[p] # "sent" => mail[p] \in handed]_sendVars

=============================================================================

------------------------------- MODULE Delivery -------------------------------
(***************************************************************************)
(* What the transactional outbox promises its callers: a d-mail that was   *)
(* accepted is handed to the courier at least once, unless a newer d-mail  *)
(* of the same name replaces it first or an operator throws it away.  How  *)
(* rows, transactions and files bring this about is the business of module *)
(* Outbox, which implements this one.                                      *)
(***************************************************************************)
CONSTANTS Name,     \* the file names a d-mail can have (<name>.md)
          Data,     \* the marshalled contents
          None      \* "no such thing"

VARIABLES
  pending,    \* per name, the contents still owed to the courier
  accepted,   \* every d-mail <<name, contents>> ever accepted
  handed,     \* every d-mail ever placed in outbox/
  dropped     \* every d-mail thrown away by an operator

vars == <<pending, accepted, handed, dropped>>

Mail == Name \X Data

Init ==
  /\ pending = [n \in Name |-> None]
  /\ accepted = {}
  /\ handed = {}
  /\ dropped = {}

\* A caller hands in a d-mail; an older one of that name is replaced.
Accept(n, d) ==
  /\ pending' = [pending EXCEPT ![n] = d]
  /\ accepted' = accepted \cup {<<n, d>>}
  /\ UNCHANGED <<handed, dropped>>

\* The d-mail reaches outbox/.  It stays owed until that is recorded, so it
\* may be handed over again.
HandOver(n) ==
  /\ pending[n] # None
  /\ handed' = handed \cup {<<n, pending[n]>>}
  /\ UNCHANGED <<pending, accepted, dropped>>

\* Only what has been handed over ceases to be owed.
Settle(S) ==
  /\ \A n \in S : pending[n] # None /\ <<n, pending[n]>> \in handed
  /\ pending' = [n \in Name |-> IF n \in S THEN None ELSE pending[n]]
  /\ UNCHANGED <<accepted, handed, dropped>>

\* An operator gives up on some d-mails.
Drop(S) ==
  /\ \A n \in S : pending[n] # None
  /\ dropped' = dropped \cup {<<n, pending[n]>> : n \in S}
  /\ pending' = [n \in Name |-> IF n \in S THEN None ELSE pending[n]]
  /\ UNCHANGED <<accepted, handed>>

Next ==
  \/ \E n \in Name, d \in Data : Accept(n, d)
  \/ \E n \in Name : HandOver(n)
  \/ \E S \in SUBSET Name : Settle(S) \/ Drop(S)

Spec == Init /\ [][Next]_vars

-----------------------------------------------------------------------------
TypeOK ==
  /\ pending \in [Name -> Data \cup {None}]
  /\ accepted \subseteq Mail
  /\ handed \subseteq Mail
  /\ dropped \subseteq Mail

\* Another d-mail of the same name was accepted besides m.
Replaced(m) == \E other \in accepted : other[1] = m[1] /\ other # m

\* An accepted d-mail is never silently lost: it was handed over, dropped by
\* an operator, shares its name with another accepted d-mail, or is still owed.
NoSilentLoss ==
  \A m \in accepted :
    \/ m \in handed
    \/ m \in dropped
    \/ Replaced(m)
    \/ pending[m[1]] = m[2]

\* Nothing reaches the courier that no caller handed in, and what is owed was
\* accepted.
NothingInvented ==
  /\ handed \subseteq accepted
  /\ dropped \subseteq accepted
  /\ \A n \in Name : pending[n] # None => <<n, pending[n]>> \in accepted

=============================================================================

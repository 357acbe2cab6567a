------------------------------- MODULE MCOutbox -------------------------------
(* Model values and bounds for checking Outbox. *)
EXTENDS Outbox, TLC

CONSTANTS p1, p2, n1, n2, a, b

MCProc == {p1, p2}
MCName == {n1, n2}
MCData == {a, b}

\* n1 is a name two d-mails share, n2 a name of its own.
MCMails == {<<n1, a>>, <<n1, b>>, <<n2, a>>}

\* Every d-mail has a name of its own, as the dmail tool asks of its callers.
MCDistinctMails == {<<n1, a>>, <<n2, b>>}

MCSymmetry == Permutations(MCProc)

=============================================================================

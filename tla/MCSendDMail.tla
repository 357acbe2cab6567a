------------------------------ MODULE MCSendDMail ------------------------------
(* Model values and bounds for checking SendDMail. *)
EXTENDS SendDMail, TLC

CONSTANTS p1, p2, n1, n2, a, b

MCBothProcs == {p1, p2}
MCOneProc == {p1}
MCName == {n1, n2}
MCData == {a, b}

\* n1 is a name two d-mails share, n2 a name of its own.
MCMails == {<<n1, a>>, <<n1, b>>, <<n2, a>>}
MCDistinctMails == {<<n1, a>>, <<n2, a>>}

MCSymmetry == Permutations(MCBothProcs)

=============================================================================

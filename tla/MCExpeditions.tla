---------------------------- MODULE MCExpeditions ----------------------------
(* Model values and bounds for checking Expeditions. *)
EXTENDS Expeditions, TLC

CONSTANTS s1, s2, i1, i2

MCSession == {s1, s2}
MCOneSession == {s1}
MCIssue == {i1, i2}

MCSymmetry == Permutations(MCSession) \cup Permutations(MCIssue)

=============================================================================

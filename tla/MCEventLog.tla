------------------------------ MODULE MCEventLog -------------------------------
(* Model values and bounds for checking EventLog. *)
EXTENDS EventLog, TLC

CONSTANTS r1, r2, m1

MCRecorder == {r1, r2}
MCEmitter == {m1}

MCSymmetry == Permutations(MCRecorder)

=============================================================================

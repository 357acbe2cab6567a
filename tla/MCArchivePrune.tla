---------------------------- MODULE MCArchivePrune ----------------------------
(* Model values and bounds for checking ArchivePrune. *)
EXTENDS ArchivePrune, TLC

CONSTANTS p1, p2, f1, f2

MCProc == {p1, p2}
MCOneProc == {p1}
MCFile == {f1, f2}
MCOneFile == {f1}

MCSymmetry == Permutations(MCProc) \cup Permutations(MCFile)

\* The candidates and the output format matter up to the append to the index;
\* two states that differ in them later have the same behaviours.
MCView ==
  <<dirVars, indexVars, lock, pc, old, scanVars, walk, warned, history,
    [p \in Proc |-> IF pc[p] \in {"events", "confirm", "index"}
                    THEN <<listed[p], json[p]>> ELSE <<{}, FALSE>>]>>

=============================================================================

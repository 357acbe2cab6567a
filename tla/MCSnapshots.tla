------------------------------ MODULE MCSnapshots ------------------------------
(* Model values and bounds for checking Snapshots. *)
EXTENDS Snapshots, TLC

CONSTANTS r1, r2, m1, b1

MCRecorder == {r1, r2}
MCOneRecorder == {r1}
MCEmitter == {m1}
MCNobody == {}
MCRebuilder == {b1}

\* Causes, prevID and the record of failures neither enable a step of
\* Snapshots nor occur in its properties.
Plain(e) == IF e = None THEN None ELSE <<e.id, e.by, e.seq>>
MCView == <<{Plain(e) : e \in log}, torn, counter, clock, made,
            [p \in Proc |-> Plain(draft[p])], local, snapshot, job, boot>>

MCSymmetry == Permutations(MCRecorder)

=============================================================================

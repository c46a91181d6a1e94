-------------------------- MODULE MCModelRegistry --------------------------
(***************************************************************************)
(* A committee of four registered publishers, one of which may sign        *)
(* diverging histories, and an unregistered key; the snapshots fork after  *)
(* the first epoch.                                                        *)
(***************************************************************************)
EXTENDS ModelRegistry, TLC

CONSTANTS p1, p2, p3, f, x, A, B, C

Ep(w, e, b) == [weights_hash |-> w, epoch |-> e, activation_block |-> b]

MCPublishers == {p1, p2, p3, f}
MCFaulty == {f}
MCKeys == {p1, p2, p3, f, x}
MCWeights == {A, B, C}
\* The second history returns to its first model; the fork lists its epochs
\* in the wrong order.
MCDrafts == {<<Ep(A, 1, 0)>>,
             <<Ep(A, 1, 0), Ep(B, 2, 3), Ep(A, 3, 4)>>,
             <<Ep(C, 3, 3), Ep(A, 1, 0)>>}

Symmetry == Permutations({p1, p2, p3})
=============================================================================

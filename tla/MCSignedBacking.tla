-------------------------- MODULE MCSignedBacking --------------------------
(***************************************************************************)
(* A trusted and an untrusted validator, two sources of one class, two     *)
(* stages.                                                                 *)
(***************************************************************************)
EXTENDS SignedBacking, TLC

CONSTANTS s1, s2, price, k1, k2, d1, d2

MCClasses == [s \in {s1, s2} |-> {price}]
MCLimit == (price :> 1)

Symmetry == Permutations({d1, d2})
=============================================================================

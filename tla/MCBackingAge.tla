---------------------------- MODULE MCBackingAge ----------------------------
(***************************************************************************)
(* Two outputs that may feed each other, a source whose class has a limit  *)
(* and one whose class the policy does not know.                           *)
(***************************************************************************)
EXTENDS BackingAge, TLC

CONSTANTS s1, s2, price, repo, o1, o2

MCOneClass == (s1 :> {price}) @@ (s2 :> {repo})
MCLimit == (price :> 1) @@ (repo :> NoLimit)

Symmetry == Permutations({o1, o2})
=============================================================================

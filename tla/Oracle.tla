------------------------------ MODULE Oracle ------------------------------
(***************************************************************************)
(* What every oracle of the crate shares: an answer is either a number or  *)
(* "the oracle cannot vouch" (PocError::OracleUnavailable), arithmetic on  *)
(* u64 heights saturates at zero, and collections are put in order by a    *)
(* stable sort.                                                            *)
(***************************************************************************)
EXTENDS Naturals, Sequences, FiniteSets

CONSTANT Unavailable  \* the answer Err(OracleUnavailable)

ASSUME UnavailableAssumption == Unavailable \notin Nat

Answer == Nat \cup {Unavailable}

\* u64::saturating_sub
SaturatingSub(a, b) == IF a >= b THEN a - b ELSE 0

\* How the gate reads an oracle: an error counts as stale.
Stale(answer, limit) == \/ answer = Unavailable
                        \/ answer > limit

\* slice::sort_by: elements that neither precede each other keep the order
\* they had. Rank(i) is the place of the i-th element in the result.
StableSort(s, Less(_, _)) ==
    LET Before(i, j) == \/ Less(s[i], s[j])
                        \/ ~Less(s[j], s[i]) /\ i < j
        Rank(i) == 1 + Cardinality({j \in DOMAIN s : Before(j, i)})
    IN  [k \in DOMAIN s |-> s[CHOOSE i \in DOMAIN s : Rank(i) = k]]
=============================================================================

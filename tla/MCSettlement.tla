---------------------------- MODULE MCSettlement ----------------------------
(***************************************************************************)
(* One worker's commitment, one publisher (quorums are the matter of       *)
(* MCModelRegistry), a lineage that activates B after A and may be         *)
(* extended by a return to A, and two inputs, one of which is attested     *)
(* early and late. Blocks take 2 s, Drand rounds 6 s; the clock tolerance  *)
(* is 1 s + 1 round.                                                       *)
(***************************************************************************)
EXTENDS Settlement, TLC

CONSTANTS c1, p, A, B, C

Ep(w, e, b) == [weights_hash |-> w, epoch |-> e, activation_block |-> b]

MCPublishers == {p}
MCWeights == {A, B}
MCDrafts == {<<Ep(A, 1, 0), Ep(B, 2, 1)>>,
             <<Ep(A, 1, 0), Ep(B, 2, 1), Ep(A, 3, 3)>>}

\* A, then B, then C: two bumps within one settlement window.
MCTwoBumps == {<<Ep(A, 1, 0), Ep(B, 2, 2), Ep(C, 3, 3)>>}
MCThreeWeights == {A, B, C}

Att(source, anchor, horizon) ==
    LET message == [payload_hash |-> source, source_id |-> source,
                    endpoint |-> 1, timestamp |-> 0,
                    freshness_horizon_secs |-> horizon, freshness_type |-> "f_i"]
    IN  [anchor_block_height |-> anchor, public_key |-> 1, signed |-> message]
        @@ message

\* With the early attestation of the first source the inputs are stale from
\* block 3 on and past their horizon from block 4 on; with the late one they
\* stay fresh.
MCBundles == {<<Att(1, 0, 7), Att(2, 2, 9)>>, <<Att(1, 2, 7), Att(2, 2, 9)>>}
=============================================================================

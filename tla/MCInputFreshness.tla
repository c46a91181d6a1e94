------------------------- MODULE MCInputFreshness -------------------------
(***************************************************************************)
(* Two endpoints; the same payload attested at several blocks, with and    *)
(* without a block anchor; and attestations the oracle must not accept.    *)
(***************************************************************************)
EXTENDS InputFreshness, TLC

\* An attestation of one payload of an endpoint by operator 1.
Att(endpoint, source, anchor, ts, horizon) ==
    LET message == [payload_hash |-> 1, source_id |-> source,
                    endpoint |-> endpoint, timestamp |-> ts,
                    freshness_horizon_secs |-> horizon, freshness_type |-> "f_i"]
    IN  [anchor_block_height |-> anchor, public_key |-> 1, signed |-> message]
        @@ message

fresh   == Att(1, 1, 5, 20, 11)
old     == Att(1, 1, 2, 14, 11)
dated   == Att(1, 1, NoBlock, 25, 40)  \* its timestamp falls into block 7
undated == Att(1, 1, NoBlock, 9, 40)   \* signed before block 0
other   == Att(2, 1, 6, 22, 5)

Bad == {[fresh EXCEPT !.timestamp = 21],
        [fresh EXCEPT !.public_key = NoKey],
        [fresh EXCEPT !.public_key = 2],
        [fresh EXCEPT !.freshness_type = "f_m",
                       !.signed.freshness_type = "f_m"]}

\* Another source that serves the same payload under the same endpoint.
twin    == Att(1, 2, 5, 20, 11)

MCBundles == SeqOf({fresh, old, dated, other}, 2)
             \cup {<<undated>>} \cup {<<fresh, twin>>, <<twin, fresh>>}
             \cup {<<b>> : b \in Bad}
             \cup {<<other, b>> : b \in Bad} \cup {<<b, other>> : b \in Bad}

\* One attestation as the operator sent it, and with another block anchor.
MCRelabelled == {<<fresh>>, <<[fresh EXCEPT !.anchor_block_height = 6]>>}
===========================================================================

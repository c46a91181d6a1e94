-------------------------- MODULE InputFreshness --------------------------
(***************************************************************************)
(* The f_i oracle (src/input_freshness.rs). An operator signs an           *)
(* attestation of every payload it serves; whoever wants a commitment to   *)
(* settle presents the attestations of its inputs as one bundle; the       *)
(* oracle verifies the bundle, files it under the manifest root it         *)
(* reconstructs from it, and later answers how many blocks the stalest of  *)
(* the inputs lags.                                                        *)
(***************************************************************************)
EXTENDS Anchor, Oracle, SequencesExt

CONSTANTS
    Bundles,        \* the lists of attestations that may be presented
    NoBlock,        \* an attestation without block anchor
    NoKey,          \* an unsigned attestation; as ExpectedPubkey: accept any
    ExpectedPubkey, \* the pinned operator
    EnforceHorizon, \* with_enforce_horizon
    NoWitness,      \* no bundle is filed under a root
    MaxBlock        \* bound: the highest settlement height considered

\* What an operator signs of an attestation (the bytes of signing_message):
\* all of it but the block anchor.
SigningMessage(a) ==
    [payload_hash |-> a.payload_hash, source_id |-> a.source_id,
     endpoint |-> a.endpoint, timestamp |-> a.timestamp,
     freshness_horizon_secs |-> a.freshness_horizon_secs,
     freshness_type |-> a.freshness_type]

\* _poc blocks that parse. Names are numbers, so that they have an order. A
\* signature is the message it was made over.
InputAttestation ==
    [source_id : Nat, endpoint : Nat, payload_hash : Nat,
     timestamp : Nat, freshness_horizon_secs : Nat,
     anchor_block_height : Nat \cup {NoBlock},
     freshness_type : STRING, public_key : Nat \cup {NoKey},
     signed : [payload_hash : Nat, source_id : Nat, endpoint : Nat,
               timestamp : Nat, freshness_horizon_secs : Nat,
               freshness_type : STRING]]

ASSUME InputAssumption ==
    /\ Bundles \subseteq Seq(InputAttestation)
    /\ NoBlock \notin Nat /\ NoKey \notin Nat
    /\ ExpectedPubkey \in Nat \cup {NoKey}
    /\ EnforceHorizon \in BOOLEAN
    /\ NoWitness \notin Seq(InputAttestation)
    /\ MaxBlock \in Nat

VARIABLE witnesses \* BaseOracleInputOracle.witnesses

-----------------------------------------------------------------------------
\* verify_signature: unsigned, or not verifying, is an error.
SignatureVerifies(a) == 
    a.public_key # NoKey /\ a.signed = SigningMessage(a)

\* Wrong form: looks at the first attestation only.
AcceptedByFirst(bundle) ==
    /\ bundle # <<>>
    /\ bundle[1].freshness_type = "f_i"
    /\ SignatureVerifies(bundle[1])
    /\ ExpectedPubkey # NoKey => bundle[1].public_key = ExpectedPubkey

\* from_poc_blocks returns Ok: one bad attestation rejects the bundle.
Accepted(bundle) ==
    /\ bundle # <<>>
    /\ \A i \in DOMAIN bundle :
          /\ bundle[i].freshness_type = "f_i"
          /\ SignatureVerifies(bundle[i])
          /\ ExpectedPubkey # NoKey => bundle[i].public_key = ExpectedPubkey

Descriptor(a) == [endpoint |-> a.endpoint, payload_hash |-> a.payload_hash,
                  source_id |-> a.source_id]
ManifestOrder(a, b) == \/ a.endpoint < b.endpoint
                       \/ /\ a.endpoint = b.endpoint
                          /\ a.payload_hash < b.payload_hash

\* Wrong form: in the order of presentation.
InputManifestRootUnsorted(bundle) ==
    [i \in DOMAIN bundle |-> Descriptor(bundle[i])]

\* The manifest lists the descriptors by endpoint, then payload hash.
InputManifestRoot(bundle) ==
    LET sorted == StableSort(bundle, ManifestOrder)
    IN  [i \in DOMAIN bundle |-> Descriptor(sorted[i])]

ManifestRoots == {InputManifestRoot(b) : b \in Bundles}

\* The block one attestation speaks of: its anchor, or else (with a block
\* time reference compiled in) the block of its timestamp.
AttestationAsOfBlock(a) ==
    IF a.anchor_block_height # NoBlock THEN a.anchor_block_height
    ELSE IF RealAnchors /\ a.timestamp >= BaseGenesis
         THEN (a.timestamp - BaseGenesis) \div BlockPeriod
         ELSE Unavailable

\* The attestation outlived the horizon its operator signed.
Expired(a, now) ==
    EnforceHorizon /\ SaturatingSub(now, AttestationAsOfBlock(a))
                         > a.freshness_horizon_secs \div BlockPeriod

\* Wrong form: the freshest attestation governs.
WitnessAsOfBlockFreshest(bundle, now) ==
    LET blocks == {AttestationAsOfBlock(bundle[i]) : i \in DOMAIN bundle}
    IN  IF \/ Unavailable \in blocks
           \/ \E i \in DOMAIN bundle : Expired(bundle[i], now)
        THEN Unavailable
        ELSE CHOOSE b \in blocks : \A c \in blocks : c <= b

\* Wrong form: an attestation past its horizon is left out, not fatal.
WitnessAsOfBlockUnexpired(bundle, now) ==
    LET alive  == {i \in DOMAIN bundle : ~Expired(bundle[i], now)}
        blocks == {AttestationAsOfBlock(bundle[i]) : i \in alive}
    IN  IF alive = {} \/ Unavailable \in blocks THEN Unavailable
        ELSE CHOOSE b \in blocks : \A c \in blocks : b <= c

\* The stalest attestation governs; one without a block, or past its
\* horizon, makes the whole witness unusable.
WitnessAsOfBlock(bundle, now) ==
    LET blocks == {AttestationAsOfBlock(bundle[i]) : i \in DOMAIN bundle}
    IN  IF \/ Unavailable \in blocks
           \/ \E i \in DOMAIN bundle : Expired(bundle[i], now)
        THEN Unavailable
        ELSE CHOOSE b \in blocks : \A c \in blocks : b <= c

InputLagBlocks(root, now) ==
    IF \/ witnesses[root] = NoWitness
       \/ WitnessAsOfBlock(witnesses[root], now) = Unavailable
    THEN Unavailable
    ELSE SaturatingSub(now, WitnessAsOfBlock(witnesses[root], now))

-----------------------------------------------------------------------------
OracleInit == witnesses = [r \in ManifestRoots |-> NoWitness]

\* Wrong form: adds to what is filed under the root instead of replacing it.
PresentWitnessMerged(bundle) ==
    /\ Accepted(bundle)
    /\ witnesses' = [witnesses EXCEPT ![InputManifestRoot(bundle)] =
                       IF @ = NoWitness THEN bundle ELSE @ \o bundle]

\* present_witness, the call that succeeds (one that fails changes nothing).
\* A bundle replaces the one filed under the same root, even by an older one.
PresentWitness(bundle) ==
    /\ Accepted(bundle)
    /\ witnesses' = [witnesses EXCEPT ![InputManifestRoot(bundle)] = bundle]

OracleNext == \E bundle \in Bundles : PresentWitness(bundle)

OracleSpec == OracleInit /\ [][OracleNext]_witnesses

-----------------------------------------------------------------------------
OracleTypeOK == witnesses \in [ManifestRoots -> Bundles \cup {NoWitness}]

\* What a root answers for is verified evidence for exactly the inputs the
\* root commits to: no bundle with an attestation that is unsigned, of another
\* freshness type or of another operator is ever filed, at any place of the
\* list, and none under a root that is not its own (present_witness,
\* from_poc_blocks).
WitnessesAreVerified ==
    \A r \in ManifestRoots : witnesses[r] # NoWitness =>
        /\ InputManifestRoot(witnesses[r]) = r
        /\ witnesses[r] # <<>>
        /\ \A a \in ToSet(witnesses[r]) :
              /\ a.signed = SigningMessage(a) /\ a.public_key # NoKey
              /\ a.freshness_type = "f_i"
              /\ ExpectedPubkey \in {NoKey, a.public_key}

\* An answer bounds the age of every input at every settlement height: no
\* source of the witness is older than the reported lag, and none is past the
\* horizon its operator signed (InputFreshnessWitness::as_of_block,
\* input_lag_blocks).
LagCoversEverySource ==
    \A r \in ManifestRoots, now \in 0..MaxBlock :
        LET lag == InputLagBlocks(r, now) IN
        lag # Unavailable =>
            \A a \in ToSet(witnesses[r]) :
                /\ AttestationAsOfBlock(a) # Unavailable
                /\ now <= AttestationAsOfBlock(a) + lag
                /\ EnforceHorizon =>
                     BlockPeriod * (now - AttestationAsOfBlock(a))
                        <= a.freshness_horizon_secs

\* The manifest root a bundle is filed under depends on the order its
\* attestations are presented in only where the sort key cannot tell two of
\* its descriptors apart: sources that serve the same payload under one
\* endpoint (input_manifest_root).
Twins(c) == \E i, j \in DOMAIN c :
    /\ Descriptor(c[i]) # Descriptor(c[j])
    /\ ~ManifestOrder(c[i], c[j]) /\ ~ManifestOrder(c[j], c[i])
RootIndependentOfOrder ==
    \A r \in ManifestRoots : witnesses[r] # NoWitness =>
        \A c \in Bundles :
            ToBag(c) = ToBag(witnesses[r]) =>
                (InputManifestRoot(c) = r \/ Twins(c))

\* The age the oracle computes is what the operator signed ("the signed block
\* anchor", input_freshness.rs:145): bundles with the same signed messages are
\* as old as each other (as_of_block, signing_message).
AgeIsSigned ==
    \A r \in ManifestRoots : witnesses[r] # NoWitness =>
        \A c \in Bundles :
            /\ Accepted(c)
            /\ DOMAIN c = DOMAIN witnesses[r]
            /\ \A i \in DOMAIN c : SigningMessage(c[i]) =
                                      SigningMessage(witnesses[r][i])
            => \A now \in 0..MaxBlock :
                   WitnessAsOfBlock(c, now) = WitnessAsOfBlock(witnesses[r], now)
=============================================================================

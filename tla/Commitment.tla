----------------------------- MODULE Commitment -----------------------------
(***************************************************************************)
(* Commitments (src/commitment.rs, src/mock.rs): a worker signs the hash   *)
(* of its execution context, the triple anchor and the hash of its output; *)
(* the software verifier checks the signature over what it received and    *)
(* the vendor of the attestation chain. A signature is modelled by the     *)
(* digest it was made over.                                                *)
(***************************************************************************)
EXTENDS Anchor

\* FreshnessCommitment::signing_digest
SigningDigest(root, anchor, output) ==
    [context_root |-> root, anchor |-> anchor, output_hash |-> output]

\* MockCommitter::commit
Committed(root, anchor, output, vendor) ==
    [context_root |-> root, anchor |-> anchor, output_hash |-> output,
     vendor |-> vendor, signed |-> SigningDigest(root, anchor, output)]

\* Wrong form: a digest that leaves out the anchor.
SignatureHoldsRootOnly(f) ==
    /\ f.signed.context_root = f.context_root
    /\ f.signed.output_hash = f.output_hash

\* The signature half of MockVerifier::verify.
SignatureHolds(f) ==
    f.signed = SigningDigest(f.context_root, f.anchor, f.output_hash)

\* MockVerifier::verify
Verifies(f) == SignatureHolds(f) /\ f.vendor = "MockSoftware"
=============================================================================

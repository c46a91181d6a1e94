----------------------------- MODULE Settlement -----------------------------
(***************************************************************************)
(* The settlement protocol: workers commit to an execution context under a *)
(* triple anchor (MockCommitter), the committee and the operators move the *)
(* canonical state the two oracles answer from (SplitOracle), the chain    *)
(* grows, and the gate (MockSettlementGate) judges disclosed commitments   *)
(* at payment time. A worker may ask in between whether a bump of the      *)
(* canonical root left it a chance (WindowedRenewal).                      *)
(*                                                                         *)
(* Every step may fall between any two others: the gate reads the oracles  *)
(* and the height of the moment it runs, not of the moment of the commit.  *)
(***************************************************************************)
EXTENDS ModelRegistry, InputFreshness, Renewal

CONSTANTS
    CommitIds,    \* commitments, one worker each
    Renewers,     \* the commitments whose workers ask for a renewal
    OutputHashes, \* outputs a worker may have computed
    Vendors,      \* attestation vendors of the committers
    Drifts,       \* by how many seconds an enclave clock may be ahead
    MaxFmEpochs, MaxFiBlocks, \* FreshnessThresholds
    LastCommit,   \* bound: the last height at which a worker commits
    MaxLag,       \* how far apart two nodes may see the head of the chain
    Garbled,      \* heights a commitment may show instead of the signed one
    MaxReorg,     \* the longest rollback of the chain the gate reads
    NoCommit, NoVerdict, NoRenewal

ASSUME SettlementAssumption ==
    /\ Renewers \subseteq CommitIds
    /\ Drifts \subseteq Nat /\ Garbled \subseteq Nat
    /\ MaxFmEpochs \in Nat /\ MaxFiBlocks \in Nat
    /\ LastCommit \in Nat
    /\ MaxLag \in Nat /\ MaxReorg \in Nat
    /\ DrandGenesis <= BaseGenesis

\* The two fields of an ExecutionContextRoot the gate reads. merkle_root
\* hashes all fields, so it is modelled by the record itself.
ExecutionContextRoot ==
    [weights_hash : Weights, input_manifest_root : ManifestRoots]

VARIABLES
    block,   \* the height the gate's node reports
    commits, \* the commitment each worker sent, as it reached the gate
    verdict, \* the gate's last answer on each commitment
    renewal  \* the last renewal answer on each commitment

vars == <<signatures, lineage, witnesses, block, commits, verdict, renewal>>

-----------------------------------------------------------------------------
FreshnessCommitment ==
    [context_root : ExecutionContextRoot, anchor : TripleAnchor,
     output_hash : OutputHashes, vendor : Vendors,
     signed : [context_root : ExecutionContextRoot, anchor : TripleAnchor,
               output_hash : OutputHashes]]

\* What a worker reads off its three clocks when its node reports height b.
AnchorAt(b, drift) == ReadClocks(b, BaseGenesis + block * BlockPeriod, drift)

\* A worker commits, once.
Commit(c, root, b, drift, output, vendor) ==
    /\ commits[c] = NoCommit
    /\ block <= LastCommit
    /\ b <= block + MaxLag /\ block <= b + MaxLag
    /\ commits' = [commits EXCEPT ![c] =
          Committed(root, AnchorAt(b, drift), output, vendor)]
    /\ UNCHANGED <<signatures, lineage, witnesses, block, verdict, renewal>>

\* Environment: on its way to the gate a commitment may lose the height that
\* was signed and show another one.
Garble(c, b) ==
    /\ commits[c] # NoCommit /\ verdict[c] = NoVerdict /\ renewal[c] = NoRenewal
    /\ commits[c].anchor = commits[c].signed.anchor
    /\ b # commits[c].anchor.block_height
    /\ commits' = [commits EXCEPT ![c].anchor.block_height = b]
    /\ UNCHANGED <<signatures, lineage, witnesses, block, verdict, renewal>>

-----------------------------------------------------------------------------
Axes == {"Computational", "Settlement", "Model", "Input"}

ModelStale(root, b) ==
    Stale(ModelEpochDistance(lineage, root.weights_hash, b), MaxFmEpochs)
InputStale(root, b) ==
    Stale(InputLagBlocks(root.input_manifest_root, b), MaxFiBlocks)

\* Wrong forms: a window one block too long, and one that never ends.
ViolationsOneLate(f, root, b) ==
    {axis \in Axes :
       \/ axis = "Computational" /\ ~InternallyConsistent(f.anchor)
       \/ axis = "Settlement" /\ (\/ b < f.anchor.block_height
                                  \/ b - f.anchor.block_height > MaxFsBlocks + 1)
       \/ axis = "Model" /\ ModelStale(root, b)
       \/ axis = "Input" /\ InputStale(root, b)}
ViolationsEndless(f, root, b) ==
    {axis \in Axes :
       \/ axis = "Computational" /\ ~InternallyConsistent(f.anchor)
       \/ axis = "Settlement" /\ b < f.anchor.block_height
       \/ axis = "Model" /\ ModelStale(root, b)
       \/ axis = "Input" /\ InputStale(root, b)}

\* Every axis on which the disclosed context is stale at height b. The gate
\* has no early return here: the protocol wants every reason.
Violations(f, root, b) ==
    {axis \in Axes :
       \/ axis = "Computational" /\ ~InternallyConsistent(f.anchor)
       \/ axis = "Settlement" /\ (\/ b < f.anchor.block_height
                                  \/ b - f.anchor.block_height > MaxFsBlocks)
       \/ axis = "Model" /\ ModelStale(root, b)
       \/ axis = "Input" /\ InputStale(root, b)}

\* Wrong form: judges a root other than the one that was signed.
ResultAnyRoot(f, root, b) ==
    IF ~Verifies(f) THEN "Err"
    ELSE IF Violations(f, root, b) = {} THEN "Clear" ELSE "Rejected"

\* verify_and_settle: its errors come before any field of root is read.
Result(f, root, b) ==
    IF ~Verifies(f) \/ root # f.context_root THEN "Err"
    ELSE IF Violations(f, root, b) = {} THEN "Clear" ELSE "Rejected"

Settle(c, root) ==
    /\ commits[c] # NoCommit
    /\ LET result == Result(commits[c], root, block) IN
       verdict' = [verdict EXCEPT ![c] =
          [at |-> block, result |-> result,
           violations |-> IF result = "Err" THEN {}
                          ELSE Violations(commits[c], root, block)]]
    /\ UNCHANGED <<signatures, lineage, witnesses, block, commits, renewal>>

\* The canonical root names the canonical model of the moment.
IsCanonicalRoot(root) ==
    /\ lineage # NoLineage
    /\ Active(lineage, block) # {}
    /\ root.weights_hash =
          lineage[CanonicalPositionAt(lineage, block)].weights_hash

Renew(c, current) ==
    /\ commits[c] # NoCommit
    /\ IsCanonicalRoot(current)
    /\ renewal' = [renewal EXCEPT ![c] =
          [at |-> block, outcome |-> Evaluate(commits[c], current, block)]]
    /\ UNCHANGED <<signatures, lineage, witnesses, block, commits, verdict>>

-----------------------------------------------------------------------------
\* Environment: the chain the gate's node follows.
Grow == /\ block < MaxBlock
        /\ block' = block + 1
        /\ UNCHANGED <<signatures, lineage, witnesses, commits, verdict, renewal>>

Reorg(depth) ==
    /\ depth <= block
    /\ block' = block - depth
    /\ UNCHANGED <<signatures, lineage, witnesses, commits, verdict, renewal>>

\* SplitOracle: the model oracle and the input oracle move independently.
RegistryStep == /\ RegistryNext
                /\ UNCHANGED <<witnesses, block, commits, verdict, renewal>>

OracleStep == /\ OracleNext
              /\ UNCHANGED <<signatures, lineage, block, commits, verdict, renewal>>

Init == /\ RegistryInit
        /\ OracleInit
        /\ block = 0
        /\ commits = [c \in CommitIds |-> NoCommit]
        /\ verdict = [c \in CommitIds |-> NoVerdict]
        /\ renewal = [c \in CommitIds |-> NoRenewal]

Next ==
    \/ Grow
    \/ \E depth \in 1..MaxReorg : Reorg(depth)
    \/ RegistryStep
    \/ OracleStep
    \/ \E c \in CommitIds, root \in ExecutionContextRoot, b \in 0..MaxBlock,
          drift \in Drifts, output \in OutputHashes, vendor \in Vendors :
          Commit(c, root, b, drift, output, vendor)
    \/ \E c \in CommitIds, b \in Garbled : Garble(c, b)
    \/ \E c \in CommitIds, root \in ExecutionContextRoot : Settle(c, root)
    \/ \E c \in Renewers, root \in ExecutionContextRoot : Renew(c, root)

Spec == Init /\ [][Next]_vars

\* The chain keeps producing blocks; nobody is obliged to do anything else.
FairSpec == Spec /\ WF_vars(Grow)

-----------------------------------------------------------------------------
Verdict == [at : Nat, result : {"Clear", "Rejected", "Err"},
            violations : SUBSET Axes]
RenewalAnswer == [at : Nat, outcome : RenewalOutcome]

\* What stands for "none yet" is none of the things that may come.
ASSUME PlaceholderAssumption == /\ NoCommit \notin FreshnessCommitment
                                /\ NoVerdict \notin Verdict

TypeOK == /\ RegistryTypeOK
          /\ OracleTypeOK
          /\ block \in Nat
          /\ commits \in [CommitIds -> FreshnessCommitment \cup {NoCommit}]
          /\ verdict \in [CommitIds -> Verdict \cup {NoVerdict}]
          /\ renewal \in [CommitIds -> RenewalAnswer \cup {NoRenewal}]

\* c was cleared by the last answer of the gate.
Cleared(c) == verdict[c] # NoVerdict /\ verdict[c].result = "Clear"

\* Verified, fresh evidence for the inputs behind root at height b. The
\* operator signed all of it except the block anchors (see AgeIsSigned).
FreshEvidence(bundle, root, b) ==
    /\ InputManifestRoot(bundle) = root
    /\ bundle # <<>>
    /\ \A a \in ToSet(bundle) :
          /\ a.signed = SigningMessage(a) /\ a.freshness_type = "f_i"
          /\ ExpectedPubkey \in {NoKey, a.public_key}
          /\ AttestationAsOfBlock(a) # Unavailable
          /\ b <= AttestationAsOfBlock(a) + MaxFiBlocks
          /\ EnforceHorizon => BlockPeriod * (b - AttestationAsOfBlock(a))
                                  <= a.freshness_horizon_secs

\* What must hold of signed content s for a payment to clear at height at:
\* at falls into the window of the signed anchor, a quorum of registered
\* publishers signed a lineage in which the signed model is recent enough, and
\* there is verified, fresh evidence for each of the signed inputs.
Backed(s, at) ==
    /\ at \in s.anchor.block_height .. s.anchor.block_height + MaxFsBlocks
    /\ \E l \in Lineages :
         /\ Endorsed(l)
         /\ ~Stale(ModelEpochDistance(l, s.context_root.weights_hash, at),
                   MaxFmEpochs)
    /\ \E bundle \in Bundles :
         FreshEvidence(bundle, s.context_root.input_manifest_root, at)

\* A clearance is backed by facts about what the worker signed, and these
\* stay true after the oracles have moved on (verify_and_settle together with
\* present_lineage and present_witness).
ClearedIsBacked ==
    \A c \in CommitIds :
        Cleared(c) => Backed(commits[c].signed, verdict[c].at)

\* Anchor a was read off clocks within their stated bounds, while the chain
\* was at height n: a node that sees the head up to MaxLag blocks away and an
\* enclave clock that, with the time since the last Drand round, is ahead by no
\* more than the tolerance.
ReadHonestly(a) ==
    \E n \in 0..LastCommit, drift \in Drifts :
        /\ a = ReadClocks(a.block_height, BaseGenesis + n * BlockPeriod, drift)
        /\ a.block_height <= n + MaxLag /\ n <= a.block_height + MaxLag
        /\ drift + DrandPeriod - 1 <= TeeSkewSecs + DrandSkew * DrandPeriod

\* Such a worker is never accused of a tampered clock, although Drand rounds
\* are quantised and nodes disagree on the head (internally_consistent in
\* verify_and_settle).
HonestClocksNeverBlamed ==
    MaxLag <= BlockSkew /\ 1 <= DrandSkew =>
        \A c \in CommitIds :
            verdict[c] # NoVerdict /\ ReadHonestly(commits[c].signed.anchor) =>
                "Computational" \notin verdict[c].violations

\* Time and growth of the lineage only ever take freshness away: with no new
\* input evidence, an axis the gate finds stale stays stale on every later
\* block and under every lineage that extends the adopted one, whatever models
\* it activates, unless it returns to the very model (what the gate says then
\* is the matter of CurrentModelIsFresh). Models the lineage does not know
\* yet, and heights before its first activation, are stale for want of an
\* answer instead (verify_and_settle, model_epoch_distance, input_lag_blocks).
TimeNeverFreshens ==
    [][\A c \in CommitIds :
         LET f     == commits[c]
             model == f.context_root.weights_hash
         IN (/\ f # NoCommit /\ commits'[c] = f
             /\ block >= f.anchor.block_height /\ block' >= block
             /\ witnesses' = witnesses
             /\ lineage # NoLineage /\ IsPrefix(lineage, lineage')
             /\ Positions(lineage, model) # {} /\ Active(lineage, block) # {}
             /\ Cardinality(Positions(lineage', model)) = 1)
            => Violations(f, f.context_root, block)
                 \subseteq Violations(f, f.context_root, block)']_vars

\* The renewal policy and the gate agree on when a window is over: once a
\* worker was told that the window of its commitment has closed, the gate
\* clears it at no height from there on, though the chain may roll back and
\* grow again in between (WindowedRenewal::evaluate and verify_and_settle
\* compute the window each on its own).
ToldClosed(c) == /\ renewal[c] # NoRenewal
                 /\ renewal[c].outcome = "ExpiredRequireRecommit"
                 /\ renewal[c].at >= commits[c].anchor.block_height
ClosedWindowStaysClosed ==
    [][\A c \in CommitIds :
         /\ ToldClosed(c)
         /\ verdict'[c] # verdict[c] /\ verdict'[c].at >= renewal[c].at
         => ~Cleared(c)']_vars

\* The protocol implements its contract: a commitment lives until its signed
\* window is over, and only a rollback brings it back.
WindowEnd(c) == commits[c].signed.anchor.block_height + MaxFsBlocks
Contract == INSTANCE SettlementContract WITH
    Rollbacks <- MaxReorg # 0,
    life <- [c \in CommitIds |-> IF commits[c] = NoCommit THEN "none"
                                 ELSE IF block <= WindowEnd(c) THEN "open"
                                 ELSE "closed"],
    answer <- [c \in CommitIds |-> IF verdict[c] = NoVerdict THEN "none"
                                   ELSE verdict[c].result]
ImplementsContract == Contract!Spec

\* No commitment stays settleable forever, whatever evidence is presented: once
\* the chain has stopped rolling back, from some height on the gate refuses it
\* each time (verify_and_settle).
EventuallyRefused ==
    <>[][block' >= block]_block =>
        \A c \in CommitIds :
            commits[c] # NoCommit ~>
                [](/\ commits[c] # NoCommit
                   /\ Result(commits[c], commits[c].context_root, block) # "Clear")

-----------------------------------------------------------------------------
\* What the documentation says of bumps. A bump does not invalidate what was
\* committed before it: a commitment the renewal policy protects, made with
\* the model that was canonical at its height, is not stale for its model
\* (renewal.rs:3-7, renewal.rs:26-28).
UsedCanonicalModel(f) ==
    /\ Active(lineage, f.anchor.block_height) # {}
    /\ f.context_root.weights_hash =
         lineage[CanonicalPositionAt(lineage, f.anchor.block_height)].weights_hash
BumpIsProspectiveOnly ==
    \A c \in CommitIds, current \in ExecutionContextRoot :
        LET f == commits[c] IN
        /\ f # NoCommit
        /\ IsCanonicalRoot(current)
        /\ UsedCanonicalModel(f)
        /\ Evaluate(f, current, block) = "ProtectedByProspectiveOnly"
        => "Model" \notin Violations(f, f.context_root, block)

\* And what it says of the current model: a distance of 0, "the committed model
\* is current" (oracle.rs:29-30, freshness.rs:51), so that a commitment to the
\* canonical model of the moment is never stale for its model.
CurrentModelIsFresh ==
    \A c \in CommitIds :
        LET f == commits[c] IN
        f # NoCommit /\ IsCanonicalRoot(f.context_root) =>
            "Model" \notin Violations(f, f.context_root, block)
=============================================================================

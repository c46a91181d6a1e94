--------------------------- MODULE ModelRegistry ---------------------------
(***************************************************************************)
(* The f_m oracle (src/model_registry.rs). Publishers sign snapshots of    *)
(* the canonical model lineage; anyone may present a snapshot with a list  *)
(* of signatures; the oracle adopts it when Threshold distinct registered  *)
(* publishers signed that very snapshot, and then measures how many        *)
(* lineage positions a model is behind the canonical one.                  *)
(***************************************************************************)
EXTENDS Oracle, SequencesExt

CONSTANTS
    Keys,       \* every public key that may sign
    Publishers, \* the registered publishers
    Faulty,     \* the registered publishers that may sign diverging histories
    Weights,    \* the weights hashes of models
    Threshold,  \* M of the M-of-N quorum
    Drafts,     \* the lists of epochs a lineage may be built from
    MaxSigs,    \* bound: the longest list of signatures presented
    NoLineage   \* the oracle has adopted nothing yet

ModelEpoch == [weights_hash : Weights, epoch : Nat, activation_block : Nat]

ASSUME RegistryAssumption ==
    /\ IsFiniteSet(Publishers)
    /\ Publishers \subseteq Keys
    /\ Faulty \subseteq Publishers
    /\ Threshold \in Nat
    /\ MaxSigs \in Nat
    /\ Drafts \subseteq Seq(ModelEpoch)
    /\ NoLineage \notin Seq(ModelEpoch)

VARIABLES
    signatures, \* environment: every signature a key has made so far
    lineage     \* QuorumModelOracle.lineage

registryVars == <<signatures, lineage>>

-----------------------------------------------------------------------------
\* ModelLineage::new sorts by epoch number; equal epochs keep their order.
EarlierEpoch(d, e) == d.epoch < e.epoch
ModelLineage(draft) == StableSort(draft, EarlierEpoch)

Lineages == {ModelLineage(d) : d \in Drafts}
Signature == [public_key : Keys, over : Lineages]

Positions(l, w) == {i \in DOMAIN l : l[i].weights_hash = w}

\* The first position that holds the weights (Iterator::position).
PositionOf(l, w) == CHOOSE i \in Positions(l, w) :
                        \A j \in Positions(l, w) : i <= j

\* The highest position that is active at block b.
Active(l, b) == {i \in DOMAIN l : l[i].activation_block <= b}
CanonicalPositionAt(l, b) == CHOOSE i \in Active(l, b) :
                                \A j \in Active(l, b) : j <= i

\* Wrong form: measures against the newest epoch, active or not.
ModelEpochDistanceToNewest(l, w, b) ==
    IF l = NoLineage \/ Positions(l, w) = {} \/ Active(l, b) = {}
    THEN Unavailable
    ELSE SaturatingSub(Len(l), PositionOf(l, w))

\* Err for an unknown model, and before the first activation.
ModelEpochDistance(l, w, b) ==
    IF l = NoLineage \/ Positions(l, w) = {} \/ Active(l, b) = {}
    THEN Unavailable
    ELSE SaturatingSub(CanonicalPositionAt(l, b), PositionOf(l, w))

-----------------------------------------------------------------------------
\* Wrong form: counts entries of the list, not signers.
DistinctValidByEntry(l, sigs) ==
    {i \in DOMAIN sigs : sigs[i].public_key \in Publishers /\ sigs[i].over = l}

\* A signature verifies exactly when it was made over this snapshot: the
\* canonical JSON the publishers sign determines the lineage.
DistinctValid(l, sigs) ==
    {k \in Publishers : \E i \in DOMAIN sigs : /\ sigs[i].public_key = k
                                               /\ sigs[i].over = l}

RegistryInit == /\ signatures = {}
                /\ lineage = NoLineage

\* One of two histories continues the other.
Compatible(l, m) == IsPrefix(l, m) \/ IsPrefix(m, l)

\* Environment: a key signs a snapshot. A publisher that is not faulty only
\* ever signs snapshots of one growing history, in any order.
Sign(k, l) ==
    /\ k \in Publishers \ Faulty =>
         \A s \in signatures : s.public_key = k => Compatible(s.over, l)
    /\ signatures' = signatures \cup {[public_key |-> k, over |-> l]}
    /\ UNCHANGED lineage

\* Wrong form: one signature short of the quorum.
PresentLineageOneShort(l, sigs) ==
    /\ Threshold # 0
    /\ Cardinality(DistinctValid(l, sigs)) + 1 >= Threshold
    /\ lineage' = l
    /\ UNCHANGED signatures

\* present_lineage, the call that succeeds. One that fails returns an error
\* and leaves the oracle as it was, so it is a stuttering step. The list may
\* repeat a signature, hold signatures of unregistered keys, or of another
\* snapshot, and may replace a longer lineage by a shorter one.
PresentLineage(l, sigs) ==
    /\ Threshold # 0
    /\ Cardinality(DistinctValid(l, sigs)) >= Threshold
    /\ lineage' = l
    /\ UNCHANGED signatures

RegistryNext ==
    \/ \E k \in Keys, l \in Lineages : Sign(k, l)
    \/ \E l \in Lineages, sigs \in SeqOf(signatures, MaxSigs) :
          PresentLineage(l, sigs)

RegistrySpec == RegistryInit /\ [][RegistryNext]_registryVars

-----------------------------------------------------------------------------
RegistryTypeOK == /\ signatures \subseteq Signature
                  /\ lineage \in Lineages \cup {NoLineage}

\* The registered publishers that ever signed l.
Signers(l) == {k \in Publishers : [public_key |-> k, over |-> l] \in signatures}
Endorsed(l) == Cardinality(Signers(l)) >= Threshold

\* Two quorums overlap in a publisher that is not faulty.
QuorumsOverlap ==
    2 * Threshold > Cardinality(Publishers) + Cardinality(Faulty)

\* The adopted lineage was signed by a quorum of distinct registered
\* publishers, whatever list it was presented with: repeated, unregistered
\* and foreign signatures add nothing (present_lineage).
AdoptedIsEndorsed == lineage # NoLineage => /\ Threshold # 0
                                            /\ Endorsed(lineage)

\* A lineage only ever replaces one it is compatible with: when quorums
\* overlap, present_lineage cannot fork the canonical history, although the
\* code compares the new lineage with the old one nowhere.
NeverForks ==
    [][(QuorumsOverlap /\ lineage # NoLineage) =>
          Compatible(lineage, lineage')]_lineage

\* The answer never flatters a model: whichever epoch of the adopted lineage
\* the model was taken from, the canonical epoch is at most that many epochs
\* on; and for a model that holds one epoch only the answer is exact. (For a
\* model the lineage returned to, the answer counts from its first epoch, so
\* that it may blame the canonical model itself: see CurrentModelIsFresh.)
\* (model_epoch_distance, position_of, canonical_position_at)
DistanceNeverFlatters ==
    lineage # NoLineage =>
        \A w \in Weights, j \in DOMAIN lineage :
            LET b         == lineage[j].activation_block
                canonical == CanonicalPositionAt(lineage, b)
                distance  == ModelEpochDistance(lineage, w, b)
            IN  distance # Unavailable =>
                    /\ \A i \in Positions(lineage, w) : canonical <= i + distance
                    /\ \A i \in Positions(lineage, w) :
                          Positions(lineage, w) = {i} =>
                              distance = SaturatingSub(canonical, i)
=============================================================================

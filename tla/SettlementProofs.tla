-------------------------- MODULE SettlementProofs --------------------------
(***************************************************************************)
(* The two oracles and the settlement protocol that reads them, for every  *)
(* choice of committee, thresholds, bundles and clock parameters and in    *)
(* every interleaving of commits, adoptions, presentations, blocks,        *)
(* rollbacks and judgements.                                               *)
(*   The model oracle adopts only endorsed lineages and never forks.       *)
(*   The input oracle answers only from verified evidence, and its answer  *)
(* bounds the age of every input behind the root.                          *)
(*   The gate clears only what signed facts back. It never blames an       *)
(* honest worker, never clears what a worker was told is over, and         *)
(* implements its contract; time alone never freshens what it found stale. *)
(***************************************************************************)
EXTENDS Settlement, FiniteSetTheorems, Arithmetic

-----------------------------------------------------------------------------
(* Sorting *)

\* B holds the pairs of places, out of n, the first of which precedes the
\* second; every two places are in order.
Orders(B, n) ==
    /\ \A i \in 1..n : <<i, i>> \notin B
    /\ \A i, j, k \in 1..n : <<i, j>> \in B /\ <<j, k>> \in B => <<i, k>> \in B
    /\ \A i, j \in 1..n : i # j => <<i, j>> \in B \/ <<j, i>> \in B
Place(B, n, i) == 1 + Cardinality({j \in 1..n : <<j, i>> \in B})

\* Counting what precedes a place numbers the places from 1 to n.
LEMMA RanksReachAll ==
    ASSUME NEW n \in Nat, NEW B, Orders(B, n)
    PROVE  \A k \in 1..n : \E i \in 1..n : Place(B, n, i) = k
<1> DEFINE before(i) == {j \in 1..n : <<j, i>> \in B}
           rank == [i \in 1..n |-> 1 + Cardinality(before(i))]
<1>1. IsFiniteSet(1..n) /\ Cardinality(1..n) = n
  BY FS_Interval
<1>2. ASSUME NEW i \in 1..n
      PROVE  /\ IsFiniteSet(before(i)) /\ Cardinality(before(i)) \in Nat
             /\ Cardinality(before(i)) < n
  <2>1. before(i) \in SUBSET (1..n) /\ before(i) # 1..n
    BY DEF Orders
  <2>2. IsFiniteSet(before(i)) /\ Cardinality(before(i)) \in Nat
    BY <1>1, <2>1, FS_Subset, FS_CardinalityType
  <2> HIDE DEF before
  <2>3. /\ Cardinality(before(i)) <= Cardinality(1..n)
        /\ Cardinality(before(i)) # Cardinality(1..n)
    BY <1>1, <2>1, FS_Subset
  <2> QED BY <1>1, <2>2, <2>3
<1>3. ASSUME NEW i \in 1..n, NEW j \in 1..n, <<i, j>> \in B
      PROVE  Cardinality(before(i)) < Cardinality(before(j))
  <2>1. before(i) \in SUBSET before(j) /\ before(i) # before(j)
    BY <1>3 DEF Orders
  <2> HIDE DEF before
  <2>2. /\ Cardinality(before(i)) <= Cardinality(before(j))
        /\ Cardinality(before(i)) # Cardinality(before(j))
    BY <1>2, <2>1, FS_Subset
  <2> QED BY <1>2, <2>2
<1>4. rank \in Injection(1..n, 1..n)
  <2> HIDE DEF before
  <2>1. \A i \in 1..n : 1 + Cardinality(before(i)) \in 1..n
    BY <1>2
  <2>2. ASSUME NEW i \in 1..n, NEW j \in 1..n, i # j
        PROVE  1 + Cardinality(before(i)) # 1 + Cardinality(before(j))
    <3>1. \/ Cardinality(before(i)) < Cardinality(before(j))
          \/ Cardinality(before(j)) < Cardinality(before(i))
      BY <1>3, <2>2 DEF Orders
    <3> QED BY <1>2, <3>1
  <2> QED BY <2>1, <2>2 DEF Injection, IsInjective
<1>5. rank \in Surjection(1..n, 1..n)
  BY <1>1, <1>4, FS_Injection
<1> QED BY <1>5 DEF Surjection, Place

-----------------------------------------------------------------------------
(* Quorums *)

\* Counting: two subsets of P whose sizes add up to more than |P| + |F| have
\* an element in common that is not in F.
LEMMA QuorumIntersection ==
    ASSUME NEW P, IsFiniteSet(P),
           NEW F \in SUBSET P, NEW S \in SUBSET P, NEW T \in SUBSET P,
           Cardinality(S) + Cardinality(T) > Cardinality(P) + Cardinality(F)
    PROVE  \E k \in S \cap T : k \notin F
<1>1. /\ IsFiniteSet(F) /\ IsFiniteSet(S) /\ IsFiniteSet(T)
      /\ IsFiniteSet(S \cup T) /\ IsFiniteSet(S \cap T)
  <2>1. /\ S \cup T \in SUBSET P /\ S \cap T \in SUBSET P
    OBVIOUS
  <2> QED BY <2>1, FS_Subset
<1>2. Cardinality(S \cup T) = Cardinality(S) + Cardinality(T) - Cardinality(S \cap T)
  BY <1>1, FS_Union
<1>3. Cardinality(S \cup T) <= Cardinality(P)
  <2>1. S \cup T \in SUBSET P
    OBVIOUS
  <2> QED BY <2>1, FS_Subset
<1>4. /\ Cardinality(P) \in Nat /\ Cardinality(F) \in Nat
      /\ Cardinality(S) \in Nat /\ Cardinality(T) \in Nat
      /\ Cardinality(S \cap T) \in Nat
  BY <1>1, FS_CardinalityType
<1>5. Cardinality(S \cap T) > Cardinality(F)
  BY <1>2, <1>3, <1>4
<1>6. ~(S \cap T \subseteq F)
  <2>1. SUFFICES ASSUME S \cap T \in SUBSET F PROVE FALSE
    OBVIOUS
  <2>2. Cardinality(S \cap T) <= Cardinality(F)
    BY <2>1, <1>1, FS_Subset
  <2> QED BY <2>2, <1>4, <1>5
<1> QED BY <1>6

\* What the oracle counts at one call is part of what was ever signed.
LEMMA CountedAreSigners ==
    ASSUME NEW l, NEW sigs \in SeqOf(signatures, MaxSigs),
           signatures \subseteq Signature,
           Cardinality(DistinctValid(l, sigs)) >= Threshold
    PROVE  Endorsed(l)
<1>1. DistinctValid(l, sigs) \in SUBSET Signers(l)
  <2>1. PICK n \in 0..MaxSigs : sigs \in [1..n -> signatures]
    BY DEF SeqOf
  <2>2. \A i \in DOMAIN sigs : /\ sigs[i] \in signatures
                               /\ sigs[i] = [public_key |-> sigs[i].public_key,
                                             over |-> sigs[i].over]
    BY <2>1 DEF Signature
  <2> QED BY <2>2 DEF DistinctValid, Signers
<1>2. IsFiniteSet(Signers(l))
  BY RegistryAssumption, FS_Subset DEF Signers
<1>3. Cardinality(DistinctValid(l, sigs)) <= Cardinality(Signers(l))
  BY <1>1, <1>2, FS_Subset
<1>4. /\ Cardinality(Signers(l)) \in Nat
      /\ Cardinality(DistinctValid(l, sigs)) \in Nat
  BY <1>1, <1>2, FS_Subset, FS_CardinalityType
<1> QED BY <1>3, <1>4, RegistryAssumption DEF Endorsed

\* More signatures never take an endorsement away.
LEMMA EndorsementPersists ==
    ASSUME NEW l, signatures \subseteq signatures', Endorsed(l)
    PROVE  Endorsed(l)'
<1>1. Signers(l) \in SUBSET Signers(l)'
  BY DEF Signers
<1>2. IsFiniteSet(Signers(l)')
  BY RegistryAssumption, FS_Subset DEF Signers
<1>3. Cardinality(Signers(l)) <= Cardinality(Signers(l)')
  BY <1>1, <1>2, FS_Subset
<1>4. /\ Cardinality(Signers(l)) \in Nat
      /\ Cardinality(Signers(l)') \in Nat
  BY <1>1, <1>2, FS_Subset, FS_CardinalityType
<1> QED BY <1>3, <1>4, RegistryAssumption DEF Endorsed

-----------------------------------------------------------------------------
(* Lineages *)

\* The sort of a draft of a lineage puts every one of its epochs somewhere.
EpochIsBefore(d, i, j) == \/ EarlierEpoch(d[i], d[j])
                          \/ ~EarlierEpoch(d[j], d[i]) /\ i < j
EpochRank(d, i) == 1 + Cardinality({j \in DOMAIN d : EpochIsBefore(d, j, i)})

LEMMA LineageIsSorted ==
    ASSUME NEW d \in Seq(ModelEpoch)
    PROVE  /\ DOMAIN ModelLineage(d) = DOMAIN d
           /\ \A k \in DOMAIN d : \E i \in DOMAIN d :
                 EpochRank(d, i) = k /\ ModelLineage(d)[k] = d[i]
<1> DEFINE n == Len(d)
           B == {p \in (1..n) \X (1..n) : EpochIsBefore(d, p[1], p[2])}
<1>1. n \in Nat /\ DOMAIN d = 1..n /\ (\A i \in 1..n : d[i].epoch \in Nat)
  <2>1. n \in Nat /\ DOMAIN d = 1..n
    OBVIOUS
  <2>2. \A i \in 1..n : d[i] \in ModelEpoch
    OBVIOUS
  <2> QED BY <2>1, <2>2 DEF ModelEpoch
<1>2. \A i, j \in 1..n : <<i, j>> \in B <=> EpochIsBefore(d, i, j)
  OBVIOUS
<1> HIDE DEF B, n
<1>3. /\ \A i \in 1..n : <<i, i>> \notin B
      /\ \A i, j \in 1..n : i # j => <<i, j>> \in B \/ <<j, i>> \in B
  BY <1>1, <1>2 DEF EpochIsBefore, EarlierEpoch
<1>4. \A i, j, k \in 1..n : <<i, j>> \in B /\ <<j, k>> \in B => <<i, k>> \in B
  BY <1>1, <1>2 DEF EpochIsBefore, EarlierEpoch
<1>5. \A i \in 1..n : Place(B, n, i) = EpochRank(d, i)
  <2>1. \A i \in 1..n : {j \in 1..n : <<j, i>> \in B}
                             = {j \in DOMAIN d : EpochIsBefore(d, j, i)}
    BY <1>1, <1>2
  <2> QED BY <2>1 DEF Place, EpochRank
<1>6. \A k \in DOMAIN d : \E i \in DOMAIN d : EpochRank(d, i) = k
  <2>1. Orders(B, n)
    BY <1>3, <1>4 DEF Orders
  <2>2. \A k \in 1..n : \E i \in 1..n : Place(B, n, i) = k
    BY <1>1, <2>1, RanksReachAll
  <2> QED BY <1>1, <1>5, <2>2
<1>7. ModelLineage(d) =
         [k \in DOMAIN d |-> d[CHOOSE i \in DOMAIN d : EpochRank(d, i) = k]]
  BY DEF ModelLineage, StableSort, EpochRank, EpochIsBefore
<1> QED BY <1>6, <1>7

\* A lineage is a sequence of epochs, each of them one of its draft.
LEMMA LineageType ==
    ASSUME NEW l \in Lineages
    PROVE  l \in Seq(ModelEpoch)
<1>1. PICK d \in Drafts : l = ModelLineage(d)
  BY DEF Lineages
<1>2. d \in Seq(ModelEpoch)
  BY RegistryAssumption
<1>3. DOMAIN d = 1..Len(d) /\ Len(d) \in Nat
  BY <1>2
<1>4. l = [k \in 1..Len(d) |-> l[k]]
  BY <1>1, <1>3 DEF ModelLineage, StableSort
<1>5. \A k \in 1..Len(d) : l[k] \in ModelEpoch
  BY <1>1, <1>2, <1>3, LineageIsSorted
<1> QED BY <1>3, <1>4, <1>5

\* The canonical position is the last active one.
LEMMA CanonicalIsLast ==
    ASSUME NEW l \in Seq(ModelEpoch), NEW b, Active(l, b) # {}
    PROVE  /\ CanonicalPositionAt(l, b) \in Active(l, b)
           /\ \A j \in Active(l, b) : j <= CanonicalPositionAt(l, b)
<1>1. Len(l) \in Nat /\ Active(l, b) \in SUBSET (0..Len(l))
  BY DEF Active
<1>2. \E i \in Active(l, b) : \A j \in Active(l, b) : j <= i
  BY <1>1, GreatestElement
<1> QED BY <1>2 DEF CanonicalPositionAt

\* The position of a model is its first one.
LEMMA PositionIsFirst ==
    ASSUME NEW l \in Seq(ModelEpoch), NEW w, Positions(l, w) # {}
    PROVE  /\ PositionOf(l, w) \in Positions(l, w)
           /\ \A j \in Positions(l, w) : PositionOf(l, w) <= j
<1>1. Positions(l, w) \in SUBSET Nat
  BY DEF Positions
<1>2. \E i \in Positions(l, w) : \A j \in Positions(l, w) : i <= j
  BY <1>1, LeastElement
<1> QED BY <1>2 DEF PositionOf

\* A publisher may sign a snapshot again.
LEMMA CompatibleReflexive ==
    ASSUME NEW l \in Lineages
    PROVE  Compatible(l, l)
BY LineageType DEF Compatible, IsPrefix

-----------------------------------------------------------------------------
(* The inductive invariant of the model oracle *)

\* A publisher that is not faulty signed snapshots of one history only.
HonestHistories ==
    \A s, t \in signatures :
        /\ s.public_key = t.public_key
        /\ s.public_key \in Publishers \ Faulty
        => Compatible(s.over, t.over)

RegistryInv == RegistryTypeOK /\ AdoptedIsEndorsed /\ HonestHistories

\* Nothing is signed or adopted at first.
LEMMA RegistryInvInit == RegistryInit => RegistryInv
BY DEF RegistryInit, RegistryInv, RegistryTypeOK, AdoptedIsEndorsed,
       HonestHistories

\* No signature and no presentation breaks the invariant.
LEMMA RegistryInvStep == RegistryInv /\ [RegistryNext]_registryVars => RegistryInv'
<1> SUFFICES ASSUME RegistryInv, [RegistryNext]_registryVars
             PROVE  RegistryInv'
  OBVIOUS
<1>1. ASSUME NEW k \in Keys, NEW l \in Lineages, Sign(k, l)
      PROVE  RegistryInv'
  <2> DEFINE sig == [public_key |-> k, over |-> l]
  <2>1. signatures' = signatures \cup {sig} /\ lineage' = lineage
    BY <1>1 DEF Sign
  <2>2. RegistryTypeOK'
    <3>1. sig \in Signature
      BY DEF Signature
    <3> QED BY <2>1, <3>1 DEF RegistryInv, RegistryTypeOK
  <2>3. AdoptedIsEndorsed'
    BY <2>1, EndorsementPersists DEF RegistryInv, AdoptedIsEndorsed, Endorsed, Signers
  <2>4. HonestHistories'
    <3> SUFFICES ASSUME NEW s \in signatures', NEW t \in signatures',
                        s.public_key = t.public_key,
                        s.public_key \in Publishers \ Faulty
                 PROVE  Compatible(s.over, t.over)
      BY DEF HonestHistories
    <3>1. CASE s \in signatures /\ t \in signatures
      BY <3>1 DEF RegistryInv, HonestHistories
    <3>2. CASE s \in signatures /\ t = sig
      BY <1>1, <3>2 DEF Sign
    <3>3. CASE s = sig /\ t \in signatures
      <4>1. Compatible(t.over, l)
        BY <1>1, <3>3 DEF Sign
      <4> QED BY <3>3, <4>1 DEF Compatible
    <3>4. CASE s = sig /\ t = sig
      BY <3>4, CompatibleReflexive
    <3> QED BY <2>1, <3>1, <3>2, <3>3, <3>4
  <2> QED BY <2>2, <2>3, <2>4 DEF RegistryInv
<1>2. ASSUME NEW l \in Lineages, NEW sigs \in SeqOf(signatures, MaxSigs),
             PresentLineage(l, sigs)
      PROVE  RegistryInv'
  <2>1. /\ signatures' = signatures /\ lineage' = l
        /\ Threshold # 0 /\ Cardinality(DistinctValid(l, sigs)) >= Threshold
    BY <1>2 DEF PresentLineage
  <2>2. Endorsed(l)
    BY <2>1, CountedAreSigners DEF RegistryInv, RegistryTypeOK
  <2> QED BY <2>1, <2>2 DEF RegistryInv, RegistryTypeOK, AdoptedIsEndorsed,
                            HonestHistories, Endorsed, Signers
<1>3. CASE UNCHANGED registryVars
  BY <1>3 DEF registryVars, RegistryInv, RegistryTypeOK, AdoptedIsEndorsed,
              HonestHistories, Endorsed, Signers
<1> QED BY <1>1, <1>2, <1>3 DEF RegistryNext

\* The reachable states of the committee oracle satisfy RegistryInv.
THEOREM RegistryInvariant == RegistrySpec => []RegistryInv
BY RegistryInvInit, RegistryInvStep, PTL DEF RegistrySpec

\* Whatever lists of signatures are presented, the adopted lineage was signed
\* by Threshold distinct registered publishers.
THEOREM AdoptionNeedsQuorum == RegistrySpec => []AdoptedIsEndorsed
<1>1. RegistryInv => AdoptedIsEndorsed
  BY DEF RegistryInv
<1> QED BY <1>1, RegistryInvariant, PTL

\* The first position of a model is the one the distance is counted from.
LEMMA DistanceFromFirst ==
    ASSUME NEW l \in Seq(ModelEpoch), l # NoLineage, NEW w, NEW b,
           ModelEpochDistance(l, w, b) # Unavailable
    PROVE  LET canonical == CanonicalPositionAt(l, b)
               distance  == ModelEpochDistance(l, w, b)
           IN  \A i \in Positions(l, w) :
                  /\ canonical <= i + distance
                  /\ Positions(l, w) = {i} => distance = SaturatingSub(canonical, i)
<1> DEFINE c == CanonicalPositionAt(l, b)
           first == PositionOf(l, w)
<1>1. Positions(l, w) # {} /\ Active(l, b) # {}
  BY DEF ModelEpochDistance
<1>2. ModelEpochDistance(l, w, b) = SaturatingSub(c, first)
  BY <1>1 DEF ModelEpochDistance
<1>3. c \in Nat /\ Positions(l, w) \in SUBSET Nat
  BY <1>1, CanonicalIsLast DEF Active, Positions
<1>4. /\ first \in Positions(l, w)
      /\ \A i \in Positions(l, w) : first <= i
  BY <1>1, PositionIsFirst
<1> HIDE DEF c, first
<1>5. ASSUME NEW i \in Positions(l, w)
      PROVE  c <= i + SaturatingSub(c, first)
  BY <1>3, <1>4 DEF SaturatingSub
<1>6. ASSUME NEW i \in Positions(l, w), Positions(l, w) = {i}
      PROVE  first = i
  BY <1>4, <1>6
<1> QED BY <1>2, <1>5, <1>6 DEF c

\* The distance never flatters a model, for every committee and any drafts, in
\* any order, those that return to a model included (model_epoch_distance).
THEOREM DistanceIsCautious == RegistrySpec => []DistanceNeverFlatters
<1>1. RegistryInv => DistanceNeverFlatters
  <2> SUFFICES ASSUME RegistryTypeOK
               PROVE  DistanceNeverFlatters
    BY DEF RegistryInv
  <2>1. lineage # NoLineage => lineage \in Seq(ModelEpoch)
    BY LineageType DEF RegistryTypeOK
  <2> QED BY <2>1, DistanceFromFirst DEF DistanceNeverFlatters
<1> QED BY <1>1, RegistryInvariant, PTL

\* Any two endorsed lineages are compatible when quorums overlap.
LEMMA EndorsedCompatible ==
    ASSUME RegistryInv, QuorumsOverlap, NEW l, NEW m, Endorsed(l), Endorsed(m)
    PROVE  Compatible(l, m)
<1>1. /\ Signers(l) \in SUBSET Publishers /\ Signers(m) \in SUBSET Publishers
      /\ Faulty \in SUBSET Publishers /\ IsFiniteSet(Publishers)
  BY RegistryAssumption DEF Signers
<1>2. /\ Cardinality(Signers(l)) \in Nat /\ Cardinality(Signers(m)) \in Nat
      /\ Cardinality(Publishers) \in Nat /\ Cardinality(Faulty) \in Nat
  BY <1>1, FS_Subset, FS_CardinalityType
<1>3. Cardinality(Signers(l)) + Cardinality(Signers(m))
        > Cardinality(Publishers) + Cardinality(Faulty)
  BY <1>2, RegistryAssumption DEF QuorumsOverlap, Endorsed
<1>4. PICK k \in Signers(l) \cap Signers(m) : k \notin Faulty
  BY <1>1, <1>3, QuorumIntersection
<1> QED BY <1>4 DEF RegistryInv, HonestHistories, Signers

\* When quorums overlap, a presented lineage that replaces another one is
\* compatible with it.
THEOREM RegistryNeverForks == RegistrySpec => NeverForks
<1>1. /\ RegistryInv /\ RegistryInv'
      /\ [RegistryNext]_registryVars
      => [(QuorumsOverlap /\ lineage # NoLineage) =>
             Compatible(lineage, lineage')]_lineage
  <2> SUFFICES ASSUME RegistryInv, RegistryInv', [RegistryNext]_registryVars,
                      lineage' # lineage, QuorumsOverlap, lineage # NoLineage
               PROVE  Compatible(lineage, lineage')
    OBVIOUS
  <2>1. PICK l \in Lineages, sigs \in SeqOf(signatures, MaxSigs) :
           PresentLineage(l, sigs)
    BY DEF RegistryNext, registryVars, Sign
  <2>2. lineage' = l /\ Cardinality(DistinctValid(l, sigs)) >= Threshold
    BY <2>1 DEF PresentLineage
  <2>3. Endorsed(l)
    BY <2>2, CountedAreSigners DEF RegistryInv, RegistryTypeOK
  <2>4. Endorsed(lineage)
    BY DEF RegistryInv, AdoptedIsEndorsed
  <2> QED BY <2>2, <2>3, <2>4, EndorsedCompatible
<1> QED BY <1>1, RegistryInvariant, PTL DEF RegistrySpec, NeverForks

-----------------------------------------------------------------------------
(* Attestations and bundles *)

\* The members of a bundle are attestations.
LEMMA BundleMembers ==
    ASSUME NEW bundle \in Bundles
    PROVE  /\ bundle \in Seq(InputAttestation)
           /\ \A i \in DOMAIN bundle : bundle[i] \in InputAttestation
BY InputAssumption

\* The block of an attestation, when it has one, is a natural number.
LEMMA AsOfBlockType ==
    ASSUME NEW a \in InputAttestation
    PROVE  AttestationAsOfBlock(a) \in Answer
<1>1. CASE a.anchor_block_height # NoBlock
  BY <1>1 DEF AttestationAsOfBlock, InputAttestation, Answer
<1>2. CASE a.anchor_block_height = NoBlock /\ RealAnchors /\ a.timestamp >= BaseGenesis
  <2>1. a.timestamp - BaseGenesis \in Nat
    BY <1>2, AnchorAssumption DEF InputAttestation
  <2>2. (a.timestamp - BaseGenesis) \div BlockPeriod \in Nat
    BY <2>1, AnchorAssumption, FloorOfQuotient
  <2> QED BY <1>2, <2>2 DEF AttestationAsOfBlock, Answer
<1>3. CASE a.anchor_block_height = NoBlock /\ ~(RealAnchors /\ a.timestamp >= BaseGenesis)
  BY <1>3 DEF AttestationAsOfBlock, Answer
<1> QED BY <1>1, <1>2, <1>3

\* A usable witness answers with a lower bound of the blocks of its members,
\* none of which is past its horizon.
LEMMA WitnessAsOfBlockBound ==
    ASSUME NEW bundle \in Bundles, bundle # <<>>, NEW now \in Nat,
           WitnessAsOfBlock(bundle, now) # Unavailable
    PROVE  /\ WitnessAsOfBlock(bundle, now) \in Nat
           /\ \A i \in DOMAIN bundle :
                /\ AttestationAsOfBlock(bundle[i]) \in Nat
                /\ WitnessAsOfBlock(bundle, now) <= AttestationAsOfBlock(bundle[i])
                /\ ~Expired(bundle[i], now)
<1> DEFINE blocks == {AttestationAsOfBlock(bundle[i]) : i \in DOMAIN bundle}
<1>1. /\ Unavailable \notin blocks
      /\ \A i \in DOMAIN bundle : ~Expired(bundle[i], now)
      /\ WitnessAsOfBlock(bundle, now) =
            CHOOSE b \in blocks : \A c \in blocks : b <= c
  BY DEF WitnessAsOfBlock
<1>2. blocks \subseteq Answer
  BY BundleMembers, AsOfBlockType
<1>3. blocks \subseteq Nat
  BY <1>1, <1>2 DEF Answer
<1>4. blocks # {}
  <2>1. 1 \in DOMAIN bundle
    BY BundleMembers
  <2> QED BY <2>1
<1>5. \E b \in blocks : \A c \in blocks : b <= c
  BY <1>3, <1>4, LeastElement
<1> HIDE DEF blocks
<1>6. /\ WitnessAsOfBlock(bundle, now) \in blocks
      /\ \A c \in blocks : WitnessAsOfBlock(bundle, now) <= c
  BY <1>1, <1>5
<1> QED BY <1>1, <1>3, <1>6 DEF blocks

\* An answered lag covers every attestation of the witness.
LEMMA LagCoversMember ==
    ASSUME NEW r \in ManifestRoots, NEW now \in Nat,
           OracleTypeOK, WitnessesAreVerified,
           InputLagBlocks(r, now) # Unavailable,
           NEW i \in DOMAIN witnesses[r]
    PROVE  LET a == witnesses[r][i] IN
           /\ InputLagBlocks(r, now) \in Nat
           /\ AttestationAsOfBlock(a) \in Nat
           /\ now <= AttestationAsOfBlock(a) + InputLagBlocks(r, now)
           /\ EnforceHorizon =>
                BlockPeriod * (now - AttestationAsOfBlock(a))
                   <= a.freshness_horizon_secs
<1> DEFINE a == witnesses[r][i]
           at == AttestationAsOfBlock(a)
           least == WitnessAsOfBlock(witnesses[r], now)
<1>1. /\ witnesses[r] # NoWitness /\ least # Unavailable
      /\ InputLagBlocks(r, now) = SaturatingSub(now, least)
  BY DEF InputLagBlocks
<1>2. witnesses[r] \in Bundles /\ witnesses[r] # <<>>
  BY <1>1 DEF OracleTypeOK, WitnessesAreVerified
<1>3. a \in InputAttestation
  BY <1>2, BundleMembers
<1>4. least \in Nat /\ at \in Nat /\ least <= at /\ ~Expired(a, now)
  BY <1>1, <1>2, WitnessAsOfBlockBound
<1>5. a.freshness_horizon_secs \in Nat /\ BlockPeriod \in Nat \ {0}
  BY <1>3, AnchorAssumption DEF InputAttestation
<1> HIDE DEF a, at, least
<1>6. InputLagBlocks(r, now) \in Nat /\ now <= at + InputLagBlocks(r, now)
  BY <1>1, <1>4 DEF SaturatingSub
<1>7. ASSUME EnforceHorizon
      PROVE  BlockPeriod * (now - at) <= a.freshness_horizon_secs
  <2>1. ~(SaturatingSub(now, at) > a.freshness_horizon_secs \div BlockPeriod)
    BY <1>4, <1>7 DEF Expired, at
  <2>2. /\ SaturatingSub(now, at) \in Nat
        /\ now - at <= SaturatingSub(now, at)
        /\ now - at \in Int
    BY <1>4 DEF SaturatingSub
  <2>3. a.freshness_horizon_secs \div BlockPeriod \in Nat
    BY <1>5, FloorOfQuotient
  <2>4. SaturatingSub(now, at) <= a.freshness_horizon_secs \div BlockPeriod
    BY <2>1, <2>2, <2>3
  <2>5. BlockPeriod * SaturatingSub(now, at) <= a.freshness_horizon_secs
    BY <1>5, <2>2, <2>4, ScaleByPeriod
  <2>6. BlockPeriod * (now - at) <= BlockPeriod * SaturatingSub(now, at)
    BY <1>5, <2>2
  <2> QED BY <1>5, <2>2, <2>5, <2>6
<1> QED BY <1>4, <1>6, <1>7 DEF a, at

-----------------------------------------------------------------------------
(* The invariants of the input oracle *)

OracleInv == OracleTypeOK /\ WitnessesAreVerified

\* No bundle is filed at first.
LEMMA OracleInvInit == OracleInit => OracleInv
BY DEF OracleInit, OracleInv, OracleTypeOK, WitnessesAreVerified

\* A presentation files a verified bundle under its own root, or nothing.
LEMMA OracleInvStep ==
    ASSUME OracleInv, NEW bundle \in Bundles, PresentWitness(bundle)
    PROVE  OracleInv'
<1>1. /\ Accepted(bundle)
      /\ witnesses' = [witnesses EXCEPT ![InputManifestRoot(bundle)] = bundle]
  BY DEF PresentWitness
<1>2. OracleTypeOK'
  BY <1>1 DEF OracleInv, OracleTypeOK
<1>3. /\ bundle # <<>>
      /\ \A a \in ToSet(bundle) :
            /\ a.signed = SigningMessage(a) /\ a.public_key # NoKey
            /\ a.freshness_type = "f_i"
            /\ ExpectedPubkey \in {NoKey, a.public_key}
  BY <1>1 DEF Accepted, SignatureVerifies, ToSet
<1>4. ASSUME NEW r \in ManifestRoots, witnesses'[r] # NoWitness
      PROVE  /\ InputManifestRoot(witnesses'[r]) = r
             /\ witnesses'[r] # <<>>
             /\ \A a \in ToSet(witnesses'[r]) :
                   /\ a.signed = SigningMessage(a) /\ a.public_key # NoKey
                   /\ a.freshness_type = "f_i"
                   /\ ExpectedPubkey \in {NoKey, a.public_key}
  <2>1. CASE r = InputManifestRoot(bundle)
    <3>1. witnesses'[r] = bundle
      BY <1>1, <2>1 DEF OracleInv, OracleTypeOK
    <3> QED BY <1>3, <2>1, <3>1
  <2>2. CASE r # InputManifestRoot(bundle)
    <3>1. witnesses'[r] = witnesses[r]
      BY <1>1, <2>2 DEF OracleInv, OracleTypeOK
    <3> QED BY <1>4, <3>1 DEF OracleInv, WitnessesAreVerified
  <2> QED BY <2>1, <2>2
<1>5. WitnessesAreVerified'
  BY <1>4 DEF WitnessesAreVerified
<1> QED BY <1>2, <1>5 DEF OracleInv

\* The oracle files only signed f_i evidence of the pinned operator, and only
\* under the root it belongs to.
THEOREM OracleFilesVerified == OracleSpec => []OracleInv
<1>1. OracleInv /\ [OracleNext]_witnesses => OracleInv'
  <2>1. CASE OracleNext
    BY <2>1, OracleInvStep DEF OracleNext
  <2>2. CASE UNCHANGED witnesses
    BY <2>2 DEF OracleInv, OracleTypeOK, WitnessesAreVerified
  <2> QED BY <2>1, <2>2
<1> QED BY <1>1, OracleInvInit, PTL DEF OracleSpec

\* Every witness on file is verified evidence for its own root.
THEOREM OracleWitnessesVerified == OracleSpec => []WitnessesAreVerified
<1>1. OracleInv => WitnessesAreVerified
  BY DEF OracleInv
<1> QED BY <1>1, OracleFilesVerified, PTL

\* The answer of the oracle is sound for every source at every height.
THEOREM OracleLagIsSound == OracleSpec => []LagCoversEverySource
<1>1. OracleInv => LagCoversEverySource
  <2> SUFFICES ASSUME OracleInv, NEW r \in ManifestRoots,
                      NEW now \in 0..MaxBlock,
                      InputLagBlocks(r, now) # Unavailable,
                      NEW i \in DOMAIN witnesses[r]
               PROVE  LET a == witnesses[r][i] IN
                      /\ AttestationAsOfBlock(a) # Unavailable
                      /\ now <= AttestationAsOfBlock(a) + InputLagBlocks(r, now)
                      /\ EnforceHorizon =>
                           BlockPeriod * (now - AttestationAsOfBlock(a))
                              <= a.freshness_horizon_secs
    BY DEF LagCoversEverySource, ToSet
  <2>1. now \in Nat
    OBVIOUS
  <2> QED BY <2>1, LagCoversMember, UnavailableAssumption DEF OracleInv
<1> QED BY <1>1, OracleFilesVerified, PTL

-----------------------------------------------------------------------------
(* The order of presentation *)

\* The sort of a bundle puts every one of its attestations somewhere.
PrecedesInManifest(c, i, j) ==
    \/ ManifestOrder(c[i], c[j])
    \/ ~ManifestOrder(c[j], c[i]) /\ i < j
ManifestRank(c, i) ==
    1 + Cardinality({j \in DOMAIN c : PrecedesInManifest(c, j, i)})

LEMMA ManifestIsSorted ==
    ASSUME NEW c \in Seq(InputAttestation)
    PROVE  /\ DOMAIN InputManifestRoot(c) = DOMAIN c
           /\ \A k \in DOMAIN c : \E i \in DOMAIN c :
                 /\ ManifestRank(c, i) = k
                 /\ InputManifestRoot(c)[k] = Descriptor(c[i])
<1> DEFINE n == Len(c)
           B == {p \in (1..n) \X (1..n) : PrecedesInManifest(c, p[1], p[2])}
<1>1. /\ n \in Nat /\ DOMAIN c = 1..n
      /\ (\A i \in 1..n : c[i].endpoint \in Nat /\ c[i].payload_hash \in Nat)
  <2>1. n \in Nat /\ DOMAIN c = 1..n
    OBVIOUS
  <2>2. \A i \in 1..n : c[i] \in InputAttestation
    OBVIOUS
  <2> QED BY <2>1, <2>2 DEF InputAttestation
<1>2. \A i, j \in 1..n : <<i, j>> \in B <=> PrecedesInManifest(c, i, j)
  OBVIOUS
<1> HIDE DEF B, n
<1>3. /\ \A i \in 1..n : <<i, i>> \notin B
      /\ \A i, j \in 1..n : i # j => <<i, j>> \in B \/ <<j, i>> \in B
  BY <1>1, <1>2 DEF PrecedesInManifest, ManifestOrder
<1>4. ASSUME NEW i \in 1..n, NEW j \in 1..n, NEW k \in 1..n,
             <<i, j>> \in B, <<j, k>> \in B
      PROVE  <<i, k>> \in B
  <2>1. /\ ManifestOrder(c[k], c[i]) => ManifestOrder(c[k], c[j]) \/ ManifestOrder(c[j], c[i])
        /\ ManifestOrder(c[i], c[j]) /\ ~ManifestOrder(c[k], c[j])
              => ManifestOrder(c[i], c[k])
        /\ ~ManifestOrder(c[j], c[i]) /\ ManifestOrder(c[j], c[k])
              => ManifestOrder(c[i], c[k])
    BY <1>1 DEF ManifestOrder
  <2>2. /\ ManifestOrder(c[i], c[j]) => ~ManifestOrder(c[j], c[i])
        /\ ManifestOrder(c[j], c[k]) => ~ManifestOrder(c[k], c[j])
    BY <1>1 DEF ManifestOrder
  <2>3. i < j /\ j < k => i < k
    BY <1>1
  <2> QED BY <1>2, <1>4, <2>1, <2>2, <2>3 DEF PrecedesInManifest
<1>5. \A i \in 1..n : Place(B, n, i) = ManifestRank(c, i)
  <2>1. \A i \in 1..n : {j \in 1..n : <<j, i>> \in B}
                             = {j \in DOMAIN c : PrecedesInManifest(c, j, i)}
    BY <1>1, <1>2
  <2> QED BY <2>1 DEF Place, ManifestRank
<1>6. \A k \in DOMAIN c : \E i \in DOMAIN c : ManifestRank(c, i) = k
  <2>1. Orders(B, n)
    BY <1>3, <1>4 DEF Orders
  <2>2. \A k \in 1..n : \E i \in 1..n : Place(B, n, i) = k
    BY <1>1, <2>1, RanksReachAll
  <2> QED BY <1>1, <1>5, <2>2
<1>7. InputManifestRoot(c) =
         [k \in DOMAIN c |->
            Descriptor([m \in DOMAIN c |->
               c[CHOOSE i \in DOMAIN c : ManifestRank(c, i) = m]][k])]
  BY DEF InputManifestRoot, StableSort, ManifestRank, PrecedesInManifest
<1> QED BY <1>6, <1>7

\* Two bundles of the same attestations hold equally many of any kind.
LEMMA CountsAgree ==
    ASSUME NEW c \in Seq(InputAttestation), NEW w \in Seq(InputAttestation),
           ToBag(c) = ToBag(w), NEW S
    PROVE  /\ IsFiniteSet({j \in DOMAIN c : c[j] \in S})
           /\ IsFiniteSet({j \in DOMAIN w : w[j] \in S})
           /\ Cardinality({j \in DOMAIN c : c[j] \in S})
                 <= Cardinality({j \in DOMAIN w : w[j] \in S})
<1> DEFINE at(s, x) == {i \in DOMAIN s : s[i] = x}
           match(x) == CHOOSE g \in Bijection(at(c, x), at(w, x)) : TRUE
           from == {j \in DOMAIN c : c[j] \in S}
           to == {j \in DOMAIN w : w[j] \in S}
           f == [j \in from |-> match(c[j])[j]]
<1>1. /\ IsFiniteSet(DOMAIN c) /\ IsFiniteSet(DOMAIN w)
  <2>1. /\ Len(c) \in Nat /\ DOMAIN c = 1..Len(c)
        /\ Len(w) \in Nat /\ DOMAIN w = 1..Len(w)
    OBVIOUS
  <2> QED BY <2>1, FS_Interval
<1>2. IsFiniteSet(from) /\ IsFiniteSet(to)
  <2>1. from \in SUBSET DOMAIN c /\ to \in SUBSET DOMAIN w
    OBVIOUS
  <2> QED BY <1>1, <2>1, FS_Subset
<1>3. ASSUME NEW i \in DOMAIN c
      PROVE  match(c[i]) \in Bijection(at(c, c[i]), at(w, c[i]))
  <2>1. c[i] \in DOMAIN ToBag(c)
    BY DEF ToBag, Range
  <2>2. c[i] \in DOMAIN ToBag(w) /\ ToBag(c)[c[i]] = ToBag(w)[c[i]]
    BY <2>1
  <2>3. Cardinality(at(c, c[i])) = Cardinality(at(w, c[i]))
    BY <2>1, <2>2 DEF ToBag
  <2>4. IsFiniteSet(at(c, c[i])) /\ IsFiniteSet(at(w, c[i]))
    <3>1. at(c, c[i]) \in SUBSET DOMAIN c /\ at(w, c[i]) \in SUBSET DOMAIN w
      OBVIOUS
    <3> QED BY <1>1, <3>1, FS_Subset
  <2> HIDE DEF at
  <2>5. ExistsBijection(at(c, c[i]), at(w, c[i]))
    BY <2>3, <2>4, FS_SameCardinalityBij
  <2> QED BY <2>5 DEF ExistsBijection
<1> HIDE DEF match
<1>4. ASSUME NEW i \in from
      PROVE  f[i] \in DOMAIN w /\ w[f[i]] = c[i]
  <2>1. match(c[i]) \in [at(c, c[i]) -> at(w, c[i])] /\ i \in at(c, c[i])
    BY <1>3 DEF Bijection, Injection
  <2> QED BY <2>1
<1>5. f \in Injection(from, to)
  <2>1. f \in [from -> to]
    BY <1>4
  <2>2. ASSUME NEW i \in from, NEW j \in from, f[i] = f[j]
        PROVE  i = j
    <3>1. c[i] = c[j]
      BY <1>4, <2>2
    <3>2. /\ match(c[i])[i] = match(c[i])[j]
          /\ match(c[i]) \in Injection(at(c, c[i]), at(w, c[i]))
          /\ i \in at(c, c[i]) /\ j \in at(c, c[i])
      BY <1>3, <2>2, <3>1 DEF Bijection
    <3> QED BY <3>2 DEF Injection, IsInjective
  <2> HIDE DEF f
  <2> QED BY <2>1, <2>2 DEF Injection, IsInjective
<1> HIDE DEF from, to, f
<1>6. Cardinality(from) <= Cardinality(to)
  BY <1>2, <1>5, FS_Injection
<1> QED BY <1>2, <1>6 DEF from, to

\* What a bundle lists at a place does not come before what another order of
\* the same attestations lists there: everything up to the place in the one
\* would come before the place in the other.
LEMMA NothingComesEarlier ==
    ASSUME NEW c \in Seq(InputAttestation), NEW w \in Seq(InputAttestation),
           ToBag(c) = ToBag(w),
           NEW i \in DOMAIN c, NEW j \in DOMAIN w,
           ManifestRank(c, i) = ManifestRank(w, j)
    PROVE  ~ManifestOrder(c[i], w[j])
<1> SUFFICES ASSUME ManifestOrder(c[i], w[j]) PROVE FALSE
  OBVIOUS
<1> DEFINE S == {z \in InputAttestation : ~ManifestOrder(c[i], z)}
           upto == {k \in DOMAIN c : c[k] \in S}
           same == {k \in DOMAIN w : w[k] \in S}
           earlier == {k \in DOMAIN c : PrecedesInManifest(c, k, i)}
           before == {k \in DOMAIN w : PrecedesInManifest(w, k, j)}
<1>1. /\ \A k \in DOMAIN c : c[k] \in InputAttestation
      /\ \A k \in DOMAIN w : w[k] \in InputAttestation
  OBVIOUS
<1>2. \A a \in InputAttestation : a.endpoint \in Nat /\ a.payload_hash \in Nat
  BY DEF InputAttestation
<1>3. /\ IsFiniteSet(upto) /\ IsFiniteSet(same)
      /\ Cardinality(upto) <= Cardinality(same)
  BY CountsAgree
<1>4. IsFiniteSet(before)
  <2>1. Len(w) \in Nat /\ DOMAIN w = 1..Len(w)
    OBVIOUS
  <2>2. IsFiniteSet(DOMAIN w) /\ before \in SUBSET DOMAIN w
    BY <2>1, FS_Interval
  <2> QED BY <2>2, FS_Subset
<1>5. i \in upto /\ i \notin earlier /\ earlier \in SUBSET upto
  <2>1. DOMAIN c \in SUBSET Nat
    OBVIOUS
  <2>2. ~ManifestOrder(c[i], c[i])
    BY <1>1, <1>2 DEF ManifestOrder
  <2>3. \A k \in DOMAIN c : ManifestOrder(c[k], c[i]) => ~ManifestOrder(c[i], c[k])
    BY <1>1, <1>2 DEF ManifestOrder
  <2> QED BY <1>1, <2>1, <2>2, <2>3 DEF PrecedesInManifest
<1>6. same \in SUBSET before
  <2>1. \A k \in DOMAIN w :
           ~ManifestOrder(c[i], w[k]) => ManifestOrder(w[k], w[j])
    BY <1>1, <1>2 DEF ManifestOrder
  <2> QED BY <2>1 DEF PrecedesInManifest
<1>7. Cardinality(earlier) = Cardinality(before)
  <2>1. IsFiniteSet(earlier)
    BY <1>3, <1>5, FS_Subset
  <2>2. Cardinality(earlier) \in Nat /\ Cardinality(before) \in Nat
    BY <1>4, <2>1, FS_CardinalityType
  <2>3. 1 + Cardinality(earlier) = 1 + Cardinality(before)
    BY DEF ManifestRank
  <2> HIDE DEF earlier, before
  <2> QED BY <2>2, <2>3
<1> HIDE DEF upto, same, earlier, before
<1>8. IsFiniteSet(earlier) /\ Cardinality(earlier) <= Cardinality(upto)
      /\ Cardinality(earlier) # Cardinality(upto)
  BY <1>3, <1>5, FS_Subset
<1>9. Cardinality(same) <= Cardinality(before)
  BY <1>4, <1>6, FS_Subset
<1>10. /\ Cardinality(upto) \in Nat /\ Cardinality(same) \in Nat
       /\ Cardinality(earlier) \in Nat /\ Cardinality(before) \in Nat
  BY <1>3, <1>4, <1>8, FS_CardinalityType
<1> QED BY <1>3, <1>7, <1>8, <1>9, <1>10

\* Two orders of the same attestations have one manifest, unless the sort key
\* cannot tell two different descriptors apart.
LEMMA OneManifest ==
    ASSUME NEW c \in Seq(InputAttestation), NEW w \in Seq(InputAttestation),
           ToBag(c) = ToBag(w), ~Twins(c)
    PROVE  InputManifestRoot(c) = InputManifestRoot(w)
<1>1. DOMAIN c = DOMAIN w
  <2>1. /\ Len(c) \in Nat /\ DOMAIN c = 1..Len(c)
        /\ Len(w) \in Nat /\ DOMAIN w = 1..Len(w)
    OBVIOUS
  <2>2. /\ \A k \in DOMAIN c : c[k] \in InputAttestation
        /\ \A k \in DOMAIN w : w[k] \in InputAttestation
    OBVIOUS
  <2>3. /\ {k \in DOMAIN c : c[k] \in InputAttestation} = 1..Len(c)
        /\ {k \in DOMAIN w : w[k] \in InputAttestation} = 1..Len(w)
    BY <2>1, <2>2
  <2>4. /\ Cardinality(1..Len(c)) <= Cardinality(1..Len(w))
        /\ Cardinality(1..Len(w)) <= Cardinality(1..Len(c))
    <3>1. ToBag(w) = ToBag(c)
      OBVIOUS
    <3> QED BY <2>3, <3>1, CountsAgree
  <2>5. PICK m \in Nat, p \in Nat : m = Len(c) /\ p = Len(w)
    BY <2>1
  <2>6. Cardinality(1..m) = m /\ Cardinality(1..p) = p
    BY FS_Interval
  <2>7. m <= p /\ p <= m
    BY <2>4, <2>5, <2>6
  <2>8. m = p
    BY <2>7
  <2> QED BY <2>1, <2>5, <2>8
<1>2. ASSUME NEW k \in DOMAIN c
      PROVE  InputManifestRoot(c)[k] = InputManifestRoot(w)[k]
  <2>1. PICK i \in DOMAIN c : /\ ManifestRank(c, i) = k
                              /\ InputManifestRoot(c)[k] = Descriptor(c[i])
    BY ManifestIsSorted
  <2>2. PICK j \in DOMAIN w : /\ ManifestRank(w, j) = k
                              /\ InputManifestRoot(w)[k] = Descriptor(w[j])
    BY <1>1, ManifestIsSorted
  <2>3. ~ManifestOrder(c[i], w[j]) /\ ~ManifestOrder(w[j], c[i])
    BY <2>1, <2>2, NothingComesEarlier
  <2>4. PICK m \in DOMAIN c : c[m] = w[j]
    <3>1. w[j] \in DOMAIN ToBag(w)
      BY DEF ToBag, Range
    <3>2. w[j] \in DOMAIN ToBag(c)
      BY <3>1
    <3> QED BY <3>2 DEF ToBag, Range
  <2> QED BY <2>1, <2>2, <2>3, <2>4 DEF Twins
<1>3. /\ InputManifestRoot(c) = [k \in DOMAIN c |-> InputManifestRoot(c)[k]]
      /\ InputManifestRoot(w) = [k \in DOMAIN w |-> InputManifestRoot(w)[k]]
  BY DEF InputManifestRoot
<1> QED BY <1>1, <1>2, <1>3

\* A bundle is filed under the root of its inputs, in whatever order they are
\* presented: all bundles of the same attestations have that root, but for
\* sources that serve the same payload under one endpoint
\* (input_manifest_root).
THEOREM RootIgnoresOrder == OracleSpec => []RootIndependentOfOrder
<1>1. ASSUME OracleInv
      PROVE  RootIndependentOfOrder
  <2> SUFFICES ASSUME NEW r \in ManifestRoots, witnesses[r] # NoWitness,
                      NEW c \in Bundles, ToBag(c) = ToBag(witnesses[r]), ~Twins(c)
               PROVE  InputManifestRoot(c) = r
    BY DEF RootIndependentOfOrder
  <2>1. /\ witnesses[r] \in Bundles
        /\ InputManifestRoot(witnesses[r]) = r
    BY <1>1 DEF OracleInv, OracleTypeOK, WitnessesAreVerified
  <2>2. c \in Seq(InputAttestation) /\ witnesses[r] \in Seq(InputAttestation)
    BY <2>1, InputAssumption
  <2> QED BY <2>1, <2>2, OneManifest
<1> QED BY <1>1, OracleFilesVerified, PTL

-----------------------------------------------------------------------------
(* Type correctness *)

\* The clocks of a worker can be read at every height.
LEMMA AnchorType ==
    ASSUME block \in Nat, NEW b \in Nat, NEW drift \in Nat
    PROVE  AnchorAt(b, drift) \in TripleAnchor
<1> DEFINE now == BaseGenesis + block * BlockPeriod
<1>1. block * BlockPeriod \in Nat
  BY AnchorAssumption
<1>2. now \in Nat /\ now - DrandGenesis \in Nat
  BY <1>1, AnchorAssumption, SettlementAssumption
<1> HIDE DEF now
<1>3. (now + drift) * NanosPerSec \in Nat
  BY <1>2, AnchorAssumption
<1>4. (now - DrandGenesis) \div DrandPeriod \in Nat
  BY <1>2, AnchorAssumption, FloorOfQuotient
<1> QED BY <1>3, <1>4 DEF AnchorAt, ReadClocks, TripleAnchor, now

\* The first state is well typed.
LEMMA TypeOKInit == Init => TypeOK
BY DEF Init, TypeOK, RegistryInit, RegistryTypeOK, OracleInit, OracleTypeOK

\* Every step of the protocol keeps its state well typed.
LEMMA TypeOKStep == TypeOK /\ RegistryInv /\ OracleInv /\ [Next]_vars => TypeOK'
<1> SUFFICES ASSUME TypeOK, RegistryInv, OracleInv, [Next]_vars
             PROVE  TypeOK'
  OBVIOUS
<1> USE DEF TypeOK
<1>1. CASE Grow
  BY <1>1 DEF Grow, RegistryTypeOK, OracleTypeOK
<1>2. ASSUME NEW depth \in 1..MaxReorg, Reorg(depth)
      PROVE  TypeOK'
  BY <1>2, SettlementAssumption DEF Reorg, RegistryTypeOK, OracleTypeOK
<1>3. CASE RegistryStep
  <2>1. RegistryTypeOK'
    BY <1>3, RegistryInvStep DEF RegistryStep, RegistryInv
  <2> QED BY <1>3, <2>1 DEF RegistryStep, OracleTypeOK
<1>4. CASE OracleStep
  <2>1. OracleTypeOK'
    BY <1>4, OracleInvStep DEF OracleStep, OracleNext, OracleInv
  <2> QED BY <1>4, <2>1 DEF OracleStep, RegistryTypeOK
<1>5. ASSUME NEW c \in CommitIds, NEW root \in ExecutionContextRoot,
             NEW b \in 0..MaxBlock, NEW drift \in Drifts,
             NEW output \in OutputHashes, NEW vendor \in Vendors,
             Commit(c, root, b, drift, output, vendor)
      PROVE  TypeOK'
  <2> DEFINE f == Committed(root, AnchorAt(b, drift), output, vendor)
  <2>1. AnchorAt(b, drift) \in TripleAnchor
    BY AnchorType, InputAssumption, SettlementAssumption
  <2>2. f \in FreshnessCommitment
    BY <2>1 DEF FreshnessCommitment, Committed, SigningDigest
  <2>3. commits' = [commits EXCEPT ![c] = f]
    BY <1>5 DEF Commit
  <2> HIDE DEF f
  <2> QED BY <1>5, <2>2, <2>3 DEF Commit, RegistryTypeOK, OracleTypeOK
<1>6. ASSUME NEW c \in CommitIds, NEW b \in Garbled, Garble(c, b)
      PROVE  TypeOK'
  <2>1. commits[c] \in FreshnessCommitment
    BY <1>6 DEF Garble
  <2>2. [commits[c] EXCEPT !.anchor.block_height = b] \in FreshnessCommitment
    BY <2>1, SettlementAssumption DEF FreshnessCommitment, TripleAnchor
  <2>3. commits' = [commits EXCEPT ![c] = [commits[c] EXCEPT !.anchor.block_height = b]]
    BY <1>6 DEF Garble
  <2> QED BY <1>6, <2>2, <2>3 DEF Garble, RegistryTypeOK, OracleTypeOK
<1>7. ASSUME NEW c \in CommitIds, NEW root \in ExecutionContextRoot,
             Settle(c, root)
      PROVE  TypeOK'
  <2> DEFINE result == Result(commits[c], root, block)
             v == [at |-> block, result |-> result,
                   violations |-> IF result = "Err" THEN {}
                                  ELSE Violations(commits[c], root, block)]
  <2>1. result \in {"Clear", "Rejected", "Err"}
    BY DEF Result
  <2>2. v \in Verdict
    BY <2>1 DEF Verdict, Violations
  <2>3. verdict' = [verdict EXCEPT ![c] = v]
    BY <1>7 DEF Settle
  <2> HIDE DEF v
  <2> QED BY <1>7, <2>2, <2>3 DEF Settle, RegistryTypeOK, OracleTypeOK
<1>8. ASSUME NEW c \in Renewers, NEW root \in ExecutionContextRoot,
             Renew(c, root)
      PROVE  TypeOK'
  <2> DEFINE r == [at |-> block, outcome |-> Evaluate(commits[c], root, block)]
  <2>1. r \in RenewalAnswer
    BY DEF RenewalAnswer, RenewalOutcome, Evaluate
  <2>2. renewal' = [renewal EXCEPT ![c] = r]
    BY <1>8 DEF Renew
  <2> HIDE DEF r
  <2> QED BY <1>8, <2>1, <2>2 DEF Renew, RegistryTypeOK, OracleTypeOK
<1>9. CASE UNCHANGED vars
  BY <1>9 DEF vars, RegistryTypeOK, OracleTypeOK
<1> QED BY <1>1, <1>2, <1>3, <1>4, <1>5, <1>6, <1>7, <1>8, <1>9 DEF Next

-----------------------------------------------------------------------------
(* The components keep their invariants inside the composition *)

\* Steps of the gate, the workers and the chain do not touch the oracles.
LEMMA ComponentStep ==
    RegistryInv /\ OracleInv /\ [Next]_vars =>
        /\ RegistryInv' /\ OracleInv'
        /\ [RegistryNext]_registryVars
<1> SUFFICES ASSUME RegistryInv, OracleInv, [Next]_vars
             PROVE  /\ RegistryInv' /\ OracleInv'
                    /\ [RegistryNext]_registryVars
  OBVIOUS
<1>1. [RegistryNext]_registryVars
  BY DEF Next, vars, registryVars, Grow, Reorg, RegistryStep, OracleStep,
         Commit, Garble, Settle, Renew
<1>2. RegistryInv'
  BY <1>1, RegistryInvStep
<1>3. CASE OracleStep
  BY <1>1, <1>2, <1>3, OracleInvStep DEF OracleStep, OracleNext
<1>4. CASE ~OracleStep
  <2>1. witnesses' = witnesses
    BY <1>4 DEF Next, vars, Grow, Reorg, RegistryStep, Commit, Garble, Settle,
                Renew
  <2> QED BY <1>1, <1>2, <2>1 DEF OracleInv, OracleTypeOK, WitnessesAreVerified
<1> QED BY <1>3, <1>4

\* Seen by themselves, the oracles behave in the protocol as they do alone.
LEMMA ComponentsInside == Spec => RegistrySpec /\ OracleSpec
<1>1. Init => RegistryInit /\ OracleInit
  BY DEF Init
<1>2. [Next]_vars => [RegistryNext]_registryVars
  BY DEF Next, vars, registryVars, Grow, Reorg, RegistryStep, OracleStep,
         Commit, Garble, Settle, Renew
<1>3. [Next]_vars => [OracleNext]_witnesses
  BY DEF Next, vars, OracleNext, Grow, Reorg, RegistryStep, OracleStep,
         Commit, Garble, Settle, Renew
<1> QED BY <1>1, <1>2, <1>3, PTL DEF Spec, RegistrySpec, OracleSpec

\* What holds of the oracles alone holds of the oracles the gate reads,
\* whatever workers, gate and chain do in between: the adopted lineage never
\* forks, and the lag the gate compares covers every source of the inputs
\* (SplitOracle in verify_and_settle).
THEOREM OraclesInTheProtocol ==
    Spec => NeverForks /\ []LagCoversEverySource
BY ComponentsInside, RegistryNeverForks, OracleLagIsSound, PTL

\* No step takes a signature back.
LEMMA SignaturesGrow ==
    ASSUME [RegistryNext]_registryVars
    PROVE  signatures \subseteq signatures'
BY DEF RegistryNext, registryVars, Sign, PresentLineage

-----------------------------------------------------------------------------
(* What the gate clears is backed *)

\* The core of the argument: at the moment it clears, the gate has seen facts
\* that back the clearance.
LEMMA ClearIsBacked ==
    ASSUME TypeOK, RegistryInv, OracleInv,
           NEW c \in CommitIds, NEW root \in ExecutionContextRoot,
           commits[c] # NoCommit,
           Result(commits[c], root, block) = "Clear"
    PROVE  Backed(commits[c].signed, block)
<1> DEFINE f == commits[c]
           s == commits[c].signed
<1>1. f \in FreshnessCommitment /\ block \in Nat
  BY DEF TypeOK
<1>2. Verifies(f) /\ root = f.context_root /\ Violations(f, root, block) = {}
  BY DEF Result
<1>3. s.anchor = f.anchor /\ s.context_root = root
  BY <1>2 DEF Verifies, SignatureHolds, SigningDigest
<1>4. /\ ~(block < f.anchor.block_height)
      /\ ~(block - f.anchor.block_height > MaxFsBlocks)
      /\ ~ModelStale(root, block)
      /\ ~InputStale(root, block)
  BY <1>2 DEF Violations, Axes
<1>5. block \in s.anchor.block_height .. s.anchor.block_height + MaxFsBlocks
  BY <1>1, <1>3, <1>4, RenewalAssumption DEF FreshnessCommitment, TripleAnchor
<1>6. \E l \in Lineages :
         /\ Endorsed(l)
         /\ ~Stale(ModelEpochDistance(l, s.context_root.weights_hash, block),
                   MaxFmEpochs)
  <2>1. lineage # NoLineage
    BY <1>4 DEF ModelStale, Stale, ModelEpochDistance
  <2>2. lineage \in Lineages /\ Endorsed(lineage)
    BY <2>1 DEF RegistryInv, RegistryTypeOK, AdoptedIsEndorsed
  <2> QED BY <1>3, <1>4, <2>2 DEF ModelStale
<1>7. \E bundle \in Bundles :
         FreshEvidence(bundle, s.context_root.input_manifest_root, block)
  <2> DEFINE r == root.input_manifest_root
             bundle == witnesses[r]
  <2>1. r \in ManifestRoots
    BY DEF ExecutionContextRoot
  <2>2. /\ InputLagBlocks(r, block) # Unavailable
        /\ ~(InputLagBlocks(r, block) > MaxFiBlocks)
    BY <1>4 DEF InputStale, Stale
  <2>3. bundle \in Bundles /\ bundle # NoWitness
    BY <2>1, <2>2 DEF InputLagBlocks, OracleInv, OracleTypeOK
  <2>4. /\ InputManifestRoot(bundle) = r
        /\ bundle # <<>>
        /\ \A a \in ToSet(bundle) :
              /\ a.signed = SigningMessage(a) /\ a.public_key # NoKey
              /\ a.freshness_type = "f_i"
              /\ ExpectedPubkey \in {NoKey, a.public_key}
    BY <2>1, <2>3 DEF OracleInv, WitnessesAreVerified
  <2>5. ASSUME NEW i \in DOMAIN bundle
        PROVE  /\ AttestationAsOfBlock(bundle[i]) # Unavailable
               /\ block <= AttestationAsOfBlock(bundle[i]) + MaxFiBlocks
               /\ EnforceHorizon =>
                    BlockPeriod * (block - AttestationAsOfBlock(bundle[i]))
                       <= bundle[i].freshness_horizon_secs
    <3>1. /\ InputLagBlocks(r, block) \in Nat
          /\ AttestationAsOfBlock(bundle[i]) \in Nat
          /\ block <= AttestationAsOfBlock(bundle[i]) + InputLagBlocks(r, block)
          /\ EnforceHorizon =>
               BlockPeriod * (block - AttestationAsOfBlock(bundle[i]))
                  <= bundle[i].freshness_horizon_secs
      BY <1>1, <2>1, <2>2, LagCoversMember DEF OracleInv
    <3>2. block <= AttestationAsOfBlock(bundle[i]) + MaxFiBlocks
      BY <1>1, <2>2, <3>1, SettlementAssumption
    <3> QED BY <3>1, <3>2, UnavailableAssumption
  <2>6. FreshEvidence(bundle, r, block)
    BY <2>4, <2>5 DEF FreshEvidence, ToSet
  <2> QED BY <1>3, <2>3, <2>6
<1> QED BY <1>5, <1>6, <1>7 DEF Backed

\* What backs a clearance is never taken back.
LEMMA BackingPersists ==
    ASSUME NEW s, NEW at, signatures \subseteq signatures', Backed(s, at)
    PROVE  Backed(s, at)'
<1>1. PICK l \in Lineages :
         /\ Endorsed(l)
         /\ ~Stale(ModelEpochDistance(l, s.context_root.weights_hash, at),
                   MaxFmEpochs)
  BY DEF Backed
<1>2. Endorsed(l)'
  BY <1>1, EndorsementPersists
<1> QED BY <1>1, <1>2 DEF Backed

\* The gate judges only commitments it received.
JudgedIsCommitted ==
    \A c \in CommitIds : verdict[c] # NoVerdict => commits[c] # NoCommit

SettlementInv == /\ TypeOK
                 /\ RegistryInv
                 /\ OracleInv
                 /\ JudgedIsCommitted
                 /\ ClearedIsBacked

\* Steps that leave the verdicts alone keep every clearance backed: what a
\* judged worker signed never changes again.
LEMMA ClearedStaysBacked ==
    ASSUME SettlementInv, [RegistryNext]_registryVars, verdict' = verdict,
           \A c \in CommitIds : verdict[c] # NoVerdict =>
               commits'[c] # NoCommit /\ commits'[c].signed = commits[c].signed
    PROVE  JudgedIsCommitted' /\ ClearedIsBacked'
<1>1. signatures \subseteq signatures'
  BY SignaturesGrow
<1>2. ASSUME NEW c \in CommitIds, Cleared(c)'
      PROVE  Backed(commits[c].signed, verdict[c].at)'
  <2>1. Cleared(c)
    BY <1>2 DEF Cleared
  <2>2. /\ Backed(commits[c].signed, verdict[c].at)
        /\ commits'[c].signed = commits[c].signed
    BY <2>1 DEF SettlementInv, ClearedIsBacked, Cleared
  <2> DEFINE s == commits[c].signed
             at == verdict[c].at
  <2>3. Backed(s, at)
    BY <2>2
  <2> HIDE DEF s, at
  <2>4. ASSUME NEW s0, NEW at0, Backed(s0, at0)
        PROVE  Backed(s0, at0)'
    BY <1>1, <2>4, BackingPersists
  <2>5. PICK s0, at0 : s0 = s /\ at0 = at
    OBVIOUS
  <2>6. Backed(s0, at0)'
    BY <2>3, <2>4, <2>5
  <2> QED BY <2>2, <2>5, <2>6 DEF s, at, Backed
<1> QED BY <1>2 DEF JudgedIsCommitted, ClearedIsBacked

\* Nothing is judged at first.
LEMMA SettlementInvInit == Init => SettlementInv
<1> SUFFICES ASSUME Init PROVE SettlementInv
  OBVIOUS
<1>1. TypeOK
  BY TypeOKInit
<1>2. RegistryInv /\ OracleInv
  BY RegistryInvInit, OracleInvInit DEF Init
<1>3. JudgedIsCommitted /\ ClearedIsBacked
  BY DEF Init, JudgedIsCommitted, ClearedIsBacked, Cleared
<1> QED BY <1>1, <1>2, <1>3 DEF SettlementInv

\* A judgement: the commitment just judged is backed by what the gate read,
\* all the others keep what backed them.
LEMMA SettleKeepsBacked ==
    ASSUME SettlementInv, NEW c \in CommitIds, NEW root \in ExecutionContextRoot,
           Settle(c, root)
    PROVE  JudgedIsCommitted' /\ ClearedIsBacked'
<1> USE DEF SettlementInv
<1> DEFINE result == Result(commits[c], root, block)
           v == [at |-> block, result |-> result,
                 violations |-> IF result = "Err" THEN {}
                                ELSE Violations(commits[c], root, block)]
<1>1. /\ commits[c] # NoCommit
      /\ verdict' = [verdict EXCEPT ![c] = v]
      /\ commits' = commits /\ signatures' = signatures
  BY DEF Settle
<1>2. v.at = block /\ v.result = result
  OBVIOUS
<1> HIDE DEF v
<1>3. ASSUME NEW d \in CommitIds, Cleared(d)'
      PROVE  \/ /\ Backed(commits[d].signed, verdict[d].at)
                /\ verdict'[d].at = verdict[d].at
             \/ /\ Backed(commits[d].signed, block)
                /\ verdict'[d].at = block
  <2>1. CASE d = c
    <3>1. verdict'[c] = v
      BY <1>1 DEF TypeOK
    <3>2. result = "Clear"
      BY <1>2, <1>3, <2>1, <3>1 DEF Cleared
    <3>3. TypeOK /\ RegistryInv /\ OracleInv
      OBVIOUS
    <3>4. Backed(commits[c].signed, block)
      BY <1>1, <3>2, <3>3, ClearIsBacked
    <3> QED BY <1>2, <2>1, <3>1, <3>4
  <2>2. CASE d # c
    <3>1. verdict'[d] = verdict[d]
      BY <1>1, <2>2 DEF TypeOK
    <3> QED BY <1>3, <3>1 DEF Cleared, ClearedIsBacked
  <2> QED BY <2>1, <2>2
<1>4. ASSUME NEW s, NEW at, Backed(s, at)
      PROVE  Backed(s, at)'
  BY <1>1, <1>4, BackingPersists
<1>5. ASSUME NEW d \in CommitIds, Cleared(d)'
      PROVE  Backed(commits[d].signed, verdict[d].at)'
  <2>1. PICK s, at : /\ Backed(s, at)
                     /\ s = commits'[d].signed /\ at = verdict'[d].at
    BY <1>1, <1>3, <1>5
  <2>2. Backed(s, at)'
    BY <1>4, <2>1
  <2> QED BY <2>1, <2>2 DEF Backed
<1>6. ASSUME NEW d \in CommitIds, verdict'[d] # NoVerdict
      PROVE  commits'[d] # NoCommit
  BY <1>1, <1>6 DEF JudgedIsCommitted, TypeOK
<1> QED BY <1>5, <1>6 DEF JudgedIsCommitted, ClearedIsBacked

\* Every step of the protocol preserves the invariant: only judgements write
\* verdicts, and only commitments not yet judged are written.
LEMMA SettlementInvStep == SettlementInv /\ [Next]_vars => SettlementInv'
<1> SUFFICES ASSUME SettlementInv, [Next]_vars
             PROVE  SettlementInv'
  OBVIOUS
<1>1. RegistryInv' /\ OracleInv' /\ [RegistryNext]_registryVars
  BY ComponentStep DEF SettlementInv
<1>2. TypeOK'
  BY TypeOKStep DEF SettlementInv
<1>3. JudgedIsCommitted' /\ ClearedIsBacked'
  <2> DEFINE Kept == \A c \in CommitIds : verdict[c] # NoVerdict =>
                        /\ commits'[c] # NoCommit
                        /\ commits'[c].signed = commits[c].signed
  <2>1. ASSUME commits' = commits
        PROVE  Kept
    BY <2>1 DEF SettlementInv, JudgedIsCommitted
  <2>2. CASE Grow \/ RegistryStep \/ OracleStep \/ UNCHANGED vars
    <3>1. commits' = commits /\ verdict' = verdict
      BY <2>2 DEF Grow, RegistryStep, OracleStep, vars
    <3> QED BY <1>1, <2>1, <3>1, ClearedStaysBacked
  <2>3. ASSUME NEW depth \in 1..MaxReorg, Reorg(depth)
        PROVE  JudgedIsCommitted' /\ ClearedIsBacked'
    <3>1. commits' = commits /\ verdict' = verdict
      BY <2>3 DEF Reorg
    <3> QED BY <1>1, <2>1, <3>1, ClearedStaysBacked
  <2>4. ASSUME NEW c \in CommitIds, NEW root \in ExecutionContextRoot,
               NEW b \in 0..MaxBlock, NEW drift \in Drifts,
               NEW output \in OutputHashes, NEW vendor \in Vendors,
               Commit(c, root, b, drift, output, vendor)
        PROVE  JudgedIsCommitted' /\ ClearedIsBacked'
    <3>1. /\ verdict' = verdict /\ verdict[c] = NoVerdict
          /\ \A d \in CommitIds \ {c} : commits'[d] = commits[d]
      BY <2>4 DEF Commit, SettlementInv, JudgedIsCommitted, TypeOK
    <3>2. Kept
      BY <3>1 DEF SettlementInv, JudgedIsCommitted
    <3> QED BY <1>1, <3>1, <3>2, ClearedStaysBacked
  <2>5. ASSUME NEW c \in CommitIds, NEW b \in Garbled, Garble(c, b)
        PROVE  JudgedIsCommitted' /\ ClearedIsBacked'
    <3>1. /\ verdict' = verdict /\ verdict[c] = NoVerdict
          /\ \A d \in CommitIds \ {c} : commits'[d] = commits[d]
      BY <2>5 DEF Garble, SettlementInv, TypeOK
    <3>2. Kept
      BY <3>1 DEF SettlementInv, JudgedIsCommitted
    <3> QED BY <1>1, <3>1, <3>2, ClearedStaysBacked
  <2>6. ASSUME NEW c \in CommitIds, NEW root \in ExecutionContextRoot,
               Settle(c, root)
        PROVE  JudgedIsCommitted' /\ ClearedIsBacked'
    BY <2>6, SettleKeepsBacked
  <2>7. ASSUME NEW c \in Renewers, NEW root \in ExecutionContextRoot,
               Renew(c, root)
        PROVE  JudgedIsCommitted' /\ ClearedIsBacked'
    <3>1. commits' = commits /\ verdict' = verdict
      BY <2>7 DEF Renew
    <3> QED BY <1>1, <2>1, <3>1, ClearedStaysBacked
  <2> QED BY <2>2, <2>3, <2>4, <2>5, <2>6, <2>7 DEF Next
<1> QED BY <1>1, <1>2, <1>3 DEF SettlementInv

\* The protocol keeps its invariant in every behaviour.
THEOREM SettlementInvariant == Spec => []SettlementInv
BY SettlementInvInit, SettlementInvStep, PTL DEF Spec

\* The state of the protocol is well typed in every behaviour.
THEOREM TypeCorrect == Spec => []TypeOK
<1>1. SettlementInv => TypeOK
  BY DEF SettlementInv
<1> QED BY <1>1, SettlementInvariant, PTL

\* Whatever the gate clears is backed, at the height it cleared it and ever
\* after: the height is in the signed window, a quorum of registered publishers
\* signed a lineage in which the signed model is recent enough, and there is
\* verified, fresh evidence for every signed input (verify_and_settle).
THEOREM ClearancesAreBacked == Spec => []ClearedIsBacked
<1>1. SettlementInv => ClearedIsBacked
  BY DEF SettlementInv
<1> QED BY <1>1, SettlementInvariant, PTL

-----------------------------------------------------------------------------
(* Honest clocks *)

\* No clock or tolerance comes near the width of the sums while workers commit.
NoClockWraps ==
    /\ BaseGenesis + (LastCommit + MaxLag) * BlockPeriod <= U64Max
    /\ \A d \in Drifts : BaseGenesis + LastCommit * BlockPeriod + d <= U64Max
    /\ TeeSkewSecs + DrandSkew * DrandPeriod <= U64Max
    /\ BlockSkew * BlockPeriod + DrandSkew * DrandPeriod <= U64Max

\* Sums and products that stay within the width are what they look like.
LEMMA NoWrap ==
    ASSUME NEW g \in Nat, NEW n \in Nat, NEW p \in Nat, n * p \in Nat,
           g + n * p <= U64Max
    PROVE  WrappingAdd(g, SaturatingMul(n, p)) = g + n * p
<1> DEFINE x == n * p
<1>1. U64Max \in Nat
  BY AnchorAssumption
<1>2. SaturatingMul(n, p) = x
  BY <1>1 DEF SaturatingMul
<1> HIDE DEF x
<1>3. x \in Nat /\ g + x <= U64Max
  BY DEF x
<1>4. (g + x) % (U64Max + 1) = g + x
  BY <1>1, <1>3, SmallRemainder
<1> QED BY <1>2, <1>4 DEF WrappingAdd, x

\* The Drand clock shows the second its last round was emitted: at most a
\* period ago (drand_wall_time_secs of the last round).
LEMMA DrandClock ==
    ASSUME NEW now \in Nat, NEW a, DrandGenesis <= now, now <= U64Max,
           a.drand_round = (now - DrandGenesis) \div DrandPeriod
    PROVE  /\ DrandWallTimeSecs(a) \in Nat
           /\ DrandWallTimeSecs(a) <= now
           /\ now <= DrandWallTimeSecs(a) + DrandPeriod - 1
<1> DEFINE n == now - DrandGenesis
           r == n \div DrandPeriod
           x == r * DrandPeriod
<1>1. DrandGenesis \in Nat /\ DrandPeriod \in Nat \ {0} /\ U64Max \in Nat
  BY AnchorAssumption
<1>2. n \in Nat
  BY <1>1
<1> HIDE DEF n
<1>3. r \in Nat /\ x \in Nat /\ x <= n /\ n <= x + DrandPeriod - 1
  BY <1>1, <1>2
<1>4. DrandGenesis + x <= now /\ now <= DrandGenesis + x + DrandPeriod - 1
  BY <1>1, <1>3 DEF n
<1> HIDE DEF r
<1>5. DrandGenesis + r * DrandPeriod <= U64Max
  BY <1>1, <1>3, <1>4
<1>6. DrandWallTimeSecs(a) = DrandGenesis + x
  <2>1. a.drand_round = r
    BY DEF r, n
  <2> QED BY <1>1, <1>3, <1>5, <2>1, NoWrap DEF DrandWallTimeSecs
<1> HIDE DEF x
<1> QED BY <1>1, <1>3, <1>4, <1>6

\* What is read off clocks within their bounds is consistent.
LEMMA HonestAnchor ==
    ASSUME MaxLag <= BlockSkew, 1 <= DrandSkew, NoClockWraps,
           NEW n \in 0..LastCommit, NEW drift \in Drifts,
           drift + DrandPeriod - 1 <= TeeSkewSecs + DrandSkew * DrandPeriod,
           NEW b \in Nat, b <= n + MaxLag, n <= b + MaxLag
    PROVE  InternallyConsistent(ReadClocks(b, BaseGenesis + n * BlockPeriod, drift))
<1> DEFINE a == ReadClocks(b, BaseGenesis + n * BlockPeriod, drift)
           here == n * BlockPeriod
           there == b * BlockPeriod
           lag == MaxLag * BlockPeriod
           skew == BlockSkew * BlockPeriod
           slack == DrandSkew * DrandPeriod
           now == BaseGenesis + here
           w == DrandWallTimeSecs(a)
<1>1. /\ BaseGenesis \in Nat /\ DrandGenesis \in Nat /\ DrandGenesis <= BaseGenesis
      /\ BlockPeriod \in Nat \ {0} /\ DrandPeriod \in Nat \ {0}
      /\ NanosPerSec \in Nat \ {0} /\ U64Max \in Nat
      /\ BlockSkew \in Nat /\ DrandSkew \in Nat /\ TeeSkewSecs \in Nat
      /\ LastCommit \in Nat /\ MaxLag \in Nat /\ drift \in Nat
      /\ n \in Nat /\ n <= LastCommit
  BY AnchorAssumption, SettlementAssumption
<1>2. /\ here \in Nat /\ here <= LastCommit * BlockPeriod
      /\ LastCommit * BlockPeriod \in Nat
  BY <1>1, ProductsKeepOrder
<1>3. there \in Nat /\ there <= (LastCommit + MaxLag) * BlockPeriod
  <2>1. LastCommit + MaxLag \in Nat /\ b <= LastCommit + MaxLag
    BY <1>1
  <2> QED BY <1>1, <2>1, ProductsKeepOrder
<1>4. lag \in Nat /\ skew \in Nat /\ lag <= skew
  BY <1>1, ProductsKeepOrder
<1>5. slack \in Nat /\ DrandPeriod <= slack
  <2>1. 1 * DrandPeriod <= DrandSkew * DrandPeriod /\ DrandSkew * DrandPeriod \in Nat
    BY <1>1, ProductsKeepOrder
  <2> QED BY <1>1, <2>1
<1>6. there <= here + lag /\ here <= there + lag
  <2>1. (n + MaxLag) * BlockPeriod = here + lag
        /\ (b + MaxLag) * BlockPeriod = there + lag
    BY <1>1
  <2>2. there <= (n + MaxLag) * BlockPeriod /\ here <= (b + MaxLag) * BlockPeriod
    BY <1>1, ProductsKeepOrder
  <2> QED BY <2>1, <2>2
<1>7. /\ now \in Nat /\ DrandGenesis <= now /\ now <= U64Max
      /\ now + drift \in Nat /\ now + drift <= U64Max
  <2> HIDE DEF here
  <2>1. now + drift <= BaseGenesis + LastCommit * BlockPeriod + drift
    BY <1>1, <1>2
  <2>2. BaseGenesis + LastCommit * BlockPeriod + drift <= U64Max
    BY DEF NoClockWraps
  <2> QED BY <1>1, <1>2, <2>1, <2>2
<1>8. BaseGenesis + there <= U64Max
  <2>1. BaseGenesis + (LastCommit + MaxLag) * BlockPeriod <= U64Max
    BY DEF NoClockWraps
  <2>2. (LastCommit + MaxLag) * BlockPeriod \in Nat
    BY <1>1
  <2> HIDE DEF there
  <2> QED BY <1>1, <1>3, <2>1, <2>2
<1>9. /\ a.block_height = b /\ a.tee_timestamp = (now + drift) * NanosPerSec
      /\ a.drand_round = (now - DrandGenesis) \div DrandPeriod
  BY DEF ReadClocks
<1> HIDE DEF now
<1>10. w \in Nat /\ w <= now /\ now <= w + DrandPeriod - 1
  BY <1>7, <1>9, DrandClock
<1>11. TeeWallTimeSecs(a) = now + drift
  <2>1. ((now + drift) * NanosPerSec) \div NanosPerSec = now + drift
    BY <1>1, <1>7, QuotientOfProduct
  <2>2. (now + drift) % (U64Max + 1) = now + drift
    BY <1>1, <1>7, SmallRemainder
  <2> QED BY <1>9, <2>1, <2>2 DEF TeeWallTimeSecs
<1>12. BlockWallTimeSecs(a) = BaseGenesis + there
  BY <1>1, <1>3, <1>8, <1>9, NoWrap DEF BlockWallTimeSecs
<1>13. TeeDrandTolerance = TeeSkewSecs + slack
  BY <1>1, <1>5, NoWrap DEF TeeDrandTolerance, NoClockWraps
<1>14. BlockTolerance = skew + slack
  <2>1. skew + slack <= U64Max
    BY DEF NoClockWraps
  <2>2. SaturatingMul(BlockSkew, BlockPeriod) = skew
    BY <1>1, <1>4, <1>5, <2>1 DEF SaturatingMul
  <2>3. WrappingAdd(skew, SaturatingMul(DrandSkew, DrandPeriod)) = skew + slack
    BY <1>1, <1>4, <1>5, <2>1, NoWrap
  <2> QED BY <2>2, <2>3 DEF BlockTolerance
<1>15. drift + DrandPeriod - 1 <= TeeSkewSecs + slack
  OBVIOUS
<1> HIDE DEF w, there, lag, skew, slack
<1>16. TeeDrandConsistent(a)
  <2>1. AbsDiff(now + drift, w) <= TeeSkewSecs + slack
    BY <1>1, <1>5, <1>7, <1>10, <1>15 DEF AbsDiff
  <2> QED BY <1>11, <1>13, <2>1 DEF TeeDrandConsistent, w
<1>17. AbsDiff(BlockWallTimeSecs(a), DrandWallTimeSecs(a)) <= BlockTolerance
  <2>1. AbsDiff(BaseGenesis + there, w) <= skew + slack
    <3> HIDE DEF here
    <3>1. now = BaseGenesis + here
      BY DEF now
    <3> QED BY <1>1, <1>2, <1>3, <1>4, <1>5, <1>6, <1>7, <1>10, <3>1 DEF AbsDiff
  <2> QED BY <1>12, <1>14, <2>1 DEF w
<1> QED BY <1>16, <1>17 DEF InternallyConsistent

\* Whoever is blamed signed an anchor that is not consistent.
BlamedInv ==
    \A c \in CommitIds :
        verdict[c] # NoVerdict /\ "Computational" \in verdict[c].violations =>
            ~InternallyConsistent(commits[c].signed.anchor)

\* Nobody is blamed at first.
LEMMA BlamedInvInit == Init => BlamedInv
BY DEF Init, BlamedInv

\* Commitments do not change once they were judged, and a judgement looks at
\* the anchor only when it is the signed one.
LEMMA BlamedInvStep == SettlementInv /\ BlamedInv /\ [Next]_vars => BlamedInv'
<1> SUFFICES ASSUME SettlementInv, BlamedInv, [Next]_vars
             PROVE  BlamedInv'
  OBVIOUS
<1>1. TypeOK /\ JudgedIsCommitted
  BY DEF SettlementInv
<1> DEFINE Kept == \A c \in CommitIds : verdict[c] # NoVerdict =>
                      commits'[c] = commits[c]
<1>2. ASSUME verdict' = verdict, Kept
      PROVE  BlamedInv'
  BY <1>2 DEF BlamedInv, InternallyConsistent, TeeDrandConsistent
<1>3. ASSUME NEW c \in CommitIds, NEW root \in ExecutionContextRoot,
             NEW b \in 0..MaxBlock, NEW drift \in Drifts,
             NEW output \in OutputHashes, NEW vendor \in Vendors,
             Commit(c, root, b, drift, output, vendor)
      PROVE  BlamedInv'
  <2>1. /\ verdict' = verdict /\ verdict[c] = NoVerdict
        /\ \A d \in CommitIds \ {c} : commits'[d] = commits[d]
    BY <1>1, <1>3 DEF Commit, JudgedIsCommitted, TypeOK
  <2> QED BY <1>2, <2>1
<1>4. ASSUME NEW c \in CommitIds, NEW b \in Garbled, Garble(c, b)
      PROVE  BlamedInv'
  <2>1. /\ verdict' = verdict /\ verdict[c] = NoVerdict
        /\ \A d \in CommitIds \ {c} : commits'[d] = commits[d]
    BY <1>1, <1>4 DEF Garble, TypeOK
  <2> QED BY <1>2, <2>1
<1>5. ASSUME NEW c \in CommitIds, NEW root \in ExecutionContextRoot,
             Settle(c, root)
      PROVE  BlamedInv'
  <2> DEFINE result == Result(commits[c], root, block)
             found == IF result = "Err" THEN {}
                      ELSE Violations(commits[c], root, block)
             v == [at |-> block, result |-> result, violations |-> found]
  <2>1. commits' = commits /\ verdict' = [verdict EXCEPT ![c] = v]
    BY <1>5 DEF Settle
  <2>2. "Computational" \in found => ~InternallyConsistent(commits[c].signed.anchor)
    <3> SUFFICES ASSUME "Computational" \in found
                 PROVE  ~InternallyConsistent(commits[c].signed.anchor)
      OBVIOUS
    <3>1. result # "Err"
      OBVIOUS
    <3>2. Verifies(commits[c])
      BY <3>1 DEF Result
    <3>3. commits[c].signed.anchor = commits[c].anchor
      BY <3>2 DEF Verifies, SignatureHolds, SigningDigest
    <3>4. "Computational" \in Violations(commits[c], root, block)
      BY <3>1
    <3> QED BY <3>3, <3>4 DEF Violations
  <2>3. v.violations = found
    OBVIOUS
  <2> HIDE DEF v, found
  <2>4. \A d \in CommitIds : verdict'[d] = IF d = c THEN v ELSE verdict[d]
    BY <1>1, <2>1 DEF TypeOK
  <2>5. ASSUME NEW d \in CommitIds, verdict'[d] # NoVerdict,
               "Computational" \in verdict'[d].violations
        PROVE  ~InternallyConsistent(commits[d].signed.anchor)
    BY <2>2, <2>3, <2>4, <2>5 DEF BlamedInv
  <2> QED BY <2>1, <2>5 DEF BlamedInv, InternallyConsistent, TeeDrandConsistent
<1>6. ASSUME Grow \/ RegistryStep \/ OracleStep \/ UNCHANGED vars
             \/ (\E depth \in 1..MaxReorg : Reorg(depth))
             \/ (\E c \in Renewers, root \in ExecutionContextRoot : Renew(c, root))
      PROVE  BlamedInv'
  <2>1. UNCHANGED <<commits, verdict>>
    BY <1>6 DEF Grow, RegistryStep, OracleStep, Reorg, Renew, vars
  <2> QED BY <1>2, <2>1
<1> QED BY <1>3, <1>4, <1>5, <1>6 DEF Next

\* A worker whose clocks were within their bounds is never accused of a
\* tampered clock: for every period, genesis time and tolerance, whatever the
\* other workers' clocks show, as long as no sum of the anchor wraps
\* (internally_consistent in verify_and_settle).
THEOREM HonestWorkersAreSafe ==
    ASSUME NoClockWraps
    PROVE  Spec => []HonestClocksNeverBlamed
<1>1. SettlementInv /\ BlamedInv => HonestClocksNeverBlamed
  <2> SUFFICES ASSUME SettlementInv, BlamedInv, MaxLag <= BlockSkew, 1 <= DrandSkew,
                      NEW c \in CommitIds, verdict[c] # NoVerdict,
                      ReadHonestly(commits[c].signed.anchor)
               PROVE  "Computational" \notin verdict[c].violations
    BY DEF HonestClocksNeverBlamed
  <2> DEFINE a == commits[c].signed.anchor
  <2>1. a.block_height \in Nat
    BY DEF SettlementInv, JudgedIsCommitted, TypeOK, FreshnessCommitment, TripleAnchor
  <2>2. PICK n \in 0..LastCommit, drift \in Drifts :
           /\ a = ReadClocks(a.block_height, BaseGenesis + n * BlockPeriod, drift)
           /\ a.block_height <= n + MaxLag /\ n <= a.block_height + MaxLag
           /\ drift + DrandPeriod - 1 <= TeeSkewSecs + DrandSkew * DrandPeriod
    BY DEF ReadHonestly
  <2> HIDE DEF a
  <2>3. InternallyConsistent(ReadClocks(a.block_height,
                                        BaseGenesis + n * BlockPeriod, drift))
    BY <2>1, <2>2, HonestAnchor
  <2>4. InternallyConsistent(a)
    BY <2>2, <2>3
  <2> QED BY <2>4 DEF BlamedInv, a
<1> QED BY <1>1, BlamedInvInit, BlamedInvStep, SettlementInvariant, PTL DEF Spec

-----------------------------------------------------------------------------
(* Closed windows *)

\* A worker that was told its window is over was told so of the commitment the
\* gate has, at a height past the window.
ClosedInv ==
    \A c \in CommitIds :
        /\ renewal[c] # NoRenewal => commits[c] # NoCommit
        /\ ToldClosed(c) =>
              renewal[c].at > commits[c].anchor.block_height + MaxFsBlocks

\* Nobody was told anything at first.
LEMMA ClosedInvInit == Init => ClosedInv
BY DEF Init, ClosedInv, ToldClosed

\* Heights of commitments.
LEMMA HeightType ==
    ASSUME TypeOK, NEW c \in CommitIds, commits[c] # NoCommit
    PROVE  commits[c].anchor.block_height \in Nat
BY DEF TypeOK, FreshnessCommitment, TripleAnchor

\* What was told stays told, and no commitment changes once its worker asked.
LEMMA ClosedInvStep == SettlementInv /\ ClosedInv /\ [Next]_vars => ClosedInv'
<1> SUFFICES ASSUME SettlementInv, ClosedInv, [Next]_vars
             PROVE  ClosedInv'
  OBVIOUS
<1>1. TypeOK
  BY DEF SettlementInv
<1>2. MaxFsBlocks \in Nat /\ block \in Nat
  BY <1>1, RenewalAssumption DEF TypeOK
<1>3. CASE UNCHANGED <<commits, renewal>>
  BY <1>3 DEF ClosedInv, ToldClosed
<1>4. ASSUME NEW c \in CommitIds, NEW root \in ExecutionContextRoot,
             NEW b \in 0..MaxBlock, NEW drift \in Drifts,
             NEW output \in OutputHashes, NEW vendor \in Vendors,
             Commit(c, root, b, drift, output, vendor)
      PROVE  ClosedInv'
  <2>1. /\ renewal' = renewal /\ renewal[c] = NoRenewal
        /\ \A d \in CommitIds \ {c} : commits'[d] = commits[d]
    BY <1>1, <1>4 DEF Commit, ClosedInv, TypeOK
  <2> QED BY <2>1 DEF ClosedInv, ToldClosed
<1>5. ASSUME NEW c \in CommitIds, NEW b \in Garbled, Garble(c, b)
      PROVE  ClosedInv'
  <2>1. /\ renewal' = renewal /\ renewal[c] = NoRenewal
        /\ \A d \in CommitIds \ {c} : commits'[d] = commits[d]
    BY <1>1, <1>5 DEF Garble, TypeOK
  <2> QED BY <2>1 DEF ClosedInv, ToldClosed
<1>6. ASSUME NEW c \in Renewers, NEW root \in ExecutionContextRoot,
             Renew(c, root)
      PROVE  ClosedInv'
  <2> DEFINE h == commits[c].anchor.block_height
             told == [at |-> block, outcome |-> Evaluate(commits[c], root, block)]
  <2>1. c \in CommitIds
    BY SettlementAssumption
  <2>2. /\ commits[c] # NoCommit /\ commits' = commits
        /\ renewal' = [renewal EXCEPT ![c] = told]
    BY <1>6 DEF Renew
  <2>3. h \in Nat
    BY <1>1, <2>1, <2>2, HeightType
  <2>4. told.outcome = "ExpiredRequireRecommit" /\ told.at >= h =>
            told.at > h + MaxFsBlocks
    BY <1>2, <2>3 DEF Evaluate, WithinWindow
  <2> HIDE DEF told
  <2>5. \A d \in CommitIds : renewal'[d] = IF d = c THEN told ELSE renewal[d]
    BY <1>1, <2>2 DEF TypeOK
  <2> QED BY <2>2, <2>4, <2>5 DEF ClosedInv, ToldClosed
<1>7. ASSUME Grow \/ RegistryStep \/ OracleStep \/ UNCHANGED vars
             \/ (\E depth \in 1..MaxReorg : Reorg(depth))
             \/ (\E c \in CommitIds, root \in ExecutionContextRoot : Settle(c, root))
      PROVE  UNCHANGED <<commits, renewal>>
  BY <1>7 DEF Grow, RegistryStep, OracleStep, Reorg, Settle, vars
<1> QED BY <1>3, <1>4, <1>5, <1>6, <1>7 DEF Next

\* The renewal policy and the gate agree on closed windows: a commitment whose
\* worker was told that its window is over is cleared at no height from there
\* on, however the chain rolls back in between (WindowedRenewal::evaluate,
\* verify_and_settle).
THEOREM ClosedStaysClosed == Spec => ClosedWindowStaysClosed
<1>1. SettlementInv /\ ClosedInv /\ [Next]_vars =>
        [\A c \in CommitIds :
           /\ ToldClosed(c)
           /\ verdict'[c] # verdict[c] /\ verdict'[c].at >= renewal[c].at
           => ~Cleared(c)']_vars
  <2> SUFFICES ASSUME SettlementInv, ClosedInv, Next,
                      NEW c \in CommitIds, ToldClosed(c),
                      verdict'[c] # verdict[c], verdict'[c].at >= renewal[c].at
               PROVE  ~Cleared(c)'
    OBVIOUS
  <2>1. TypeOK
    BY DEF SettlementInv
  <2>2. PICK d \in CommitIds, root \in ExecutionContextRoot : Settle(d, root)
    BY DEF Next, Grow, Reorg, RegistryStep, OracleStep, Commit, Garble, Renew
  <2> DEFINE result == Result(commits[d], root, block)
             v == [at |-> block, result |-> result,
                   violations |-> IF result = "Err" THEN {}
                                  ELSE Violations(commits[d], root, block)]
  <2>3. verdict' = [verdict EXCEPT ![d] = v]
    BY <2>2 DEF Settle
  <2>4. v.result = result /\ v.at = block
    OBVIOUS
  <2> HIDE DEF v
  <2>5. d = c /\ verdict'[c] = v
    BY <2>1, <2>3 DEF TypeOK
  <2>6. /\ commits[c] # NoCommit /\ block >= renewal[c].at
        /\ renewal[c].at > commits[c].anchor.block_height + MaxFsBlocks
    BY <2>4, <2>5 DEF ClosedInv, ToldClosed
  <2>7. /\ block \in Nat /\ MaxFsBlocks \in Nat
        /\ commits[c].anchor.block_height \in Nat /\ renewal[c].at \in Nat
    BY <2>1, <2>6, HeightType, RenewalAssumption DEF TypeOK, ToldClosed, RenewalAnswer
  <2>8. "Settlement" \in Violations(commits[c], root, block)
    BY <2>6, <2>7 DEF Violations, Axes
  <2>9. result # "Clear"
    BY <2>5, <2>8 DEF Result
  <2> QED BY <2>4, <2>5, <2>9 DEF Cleared
<1> QED BY ClosedInvInit, ClosedInvStep, SettlementInvariant, <1>1, PTL
        DEF Spec, ClosedWindowStaysClosed

-----------------------------------------------------------------------------
(* Time never freshens *)

\* A stale model stays stale: in a lineage that grew and at a later block, its
\* position is what it was, and the canonical one can only be further on.
LEMMA ModelStaysStale ==
    ASSUME NEW l \in Seq(ModelEpoch), NEW m \in Seq(ModelEpoch) \cup {NoLineage},
           IsPrefix(l, m), NEW w, Positions(l, w) # {},
           NEW b \in Nat, NEW later \in Nat, b <= later, Active(l, b) # {},
           Stale(ModelEpochDistance(l, w, b), MaxFmEpochs)
    PROVE  Stale(ModelEpochDistance(m, w, later), MaxFmEpochs)
<1>1. CASE m = NoLineage
  BY <1>1 DEF ModelEpochDistance, Stale
<1>2. SUFFICES ASSUME m # NoLineage
               PROVE  Stale(ModelEpochDistance(m, w, later), MaxFmEpochs)
  BY <1>1
<1>3. m \in Seq(ModelEpoch)
  BY <1>2
<1>4. /\ Len(l) \in Nat /\ Len(m) \in Nat /\ Len(l) <= Len(m)
      /\ DOMAIN l = 1..Len(l) /\ DOMAIN m = 1..Len(m)
  BY <1>3 DEF IsPrefix
<1>5. \A i \in DOMAIN l : m[i] = l[i]
  <2>1. SubSeq(l, 1, Len(l)) = SubSeq(m, 1, Len(l))
    BY DEF IsPrefix
  <2>2. \A i \in 1..Len(l) : /\ SubSeq(l, 1, Len(l))[i] = l[i]
                             /\ SubSeq(m, 1, Len(l))[i] = m[i]
    BY <1>3, <1>4
  <2> QED BY <1>4, <2>1, <2>2
<1>6. /\ \A i \in DOMAIN l : i \in DOMAIN m
      /\ \A i \in DOMAIN m \ DOMAIN l : \A j \in DOMAIN l : j <= i
      /\ DOMAIN l \in SUBSET Nat /\ DOMAIN m \in SUBSET Nat
  BY <1>4
<1>7. \A i \in DOMAIN m : m[i].activation_block \in Nat
  <2>1. \A i \in DOMAIN m : m[i] \in ModelEpoch
    BY <1>3
  <2> QED BY <2>1 DEF ModelEpoch
<1>8. Positions(l, w) \in SUBSET Positions(m, w)
  BY <1>5, <1>6 DEF Positions
<1>9. Active(l, b) \in SUBSET Active(m, later)
  <2>1. ASSUME NEW i \in DOMAIN l, l[i].activation_block <= b
        PROVE  i \in DOMAIN m /\ m[i].activation_block <= later
    <3>1. i \in DOMAIN m /\ m[i] = l[i] /\ m[i].activation_block \in Nat
      BY <1>5, <1>6, <1>7
    <3> QED BY <2>1, <3>1
  <2> QED BY <2>1 DEF Active
<1>10. /\ PositionOf(l, w) \in Positions(l, w)
       /\ \A j \in Positions(l, w) : PositionOf(l, w) <= j
       /\ PositionOf(m, w) \in Positions(m, w)
       /\ \A j \in Positions(m, w) : PositionOf(m, w) <= j
  BY <1>3, <1>8, PositionIsFirst
<1>11. /\ CanonicalPositionAt(l, b) \in Active(l, b)
       /\ CanonicalPositionAt(m, later) \in Active(m, later)
       /\ \A j \in Active(m, later) : j <= CanonicalPositionAt(m, later)
  BY <1>3, <1>9, CanonicalIsLast
<1>12. PositionOf(m, w) = PositionOf(l, w)
  <2>1. PositionOf(m, w) <= PositionOf(l, w)
    BY <1>8, <1>10
  <2>2. PositionOf(m, w) \in Positions(l, w)
    <3>1. PositionOf(m, w) \in DOMAIN l
      BY <1>4, <1>10, <2>1 DEF Positions
    <3> QED BY <1>5, <1>10, <3>1 DEF Positions
  <2>3. PositionOf(l, w) <= PositionOf(m, w)
    BY <1>10, <2>2
  <2>4. PositionOf(l, w) \in Nat /\ PositionOf(m, w) \in Nat
    BY <1>6, <1>10 DEF Positions
  <2> QED BY <2>1, <2>3, <2>4
<1> DEFINE p == PositionOf(l, w)
           x == CanonicalPositionAt(l, b)
           y == CanonicalPositionAt(m, later)
<1>13. /\ PositionOf(m, w) = p /\ p \in Nat /\ x \in Nat /\ y \in Nat /\ x <= y
       /\ Positions(m, w) # {} /\ Active(m, later) # {}
  BY <1>6, <1>8, <1>9, <1>10, <1>11, <1>12 DEF Positions, Active
<1>14. /\ ModelEpochDistance(l, w, b) = SaturatingSub(x, p)
       /\ ModelEpochDistance(m, w, later) = SaturatingSub(y, p)
  BY <1>2, <1>13, RegistryAssumption DEF ModelEpochDistance
<1> HIDE DEF p, x, y
<1>15. MaxFmEpochs \in Nat
  BY SettlementAssumption
<1>16. SaturatingSub(x, p) > MaxFmEpochs
  <2>1. SaturatingSub(x, p) \in Nat
    BY <1>13 DEF SaturatingSub
  <2> QED BY <1>14, <2>1, UnavailableAssumption DEF Stale
<1>17. SaturatingSub(y, p) > MaxFmEpochs
  BY <1>13, <1>15, <1>16 DEF SaturatingSub
<1> QED BY <1>14, <1>17 DEF Stale

\* An expired attestation stays expired.
LEMMA StaysExpired ==
    ASSUME NEW a \in InputAttestation, AttestationAsOfBlock(a) \in Nat,
           NEW b \in Nat, NEW later \in Nat, b <= later, Expired(a, b)
    PROVE  Expired(a, later)
<1> DEFINE at == AttestationAsOfBlock(a)
           q == a.freshness_horizon_secs \div BlockPeriod
<1>1. q \in Nat
  BY AnchorAssumption, FloorOfQuotient DEF InputAttestation
<1>2. EnforceHorizon /\ SaturatingSub(b, at) > q
  BY DEF Expired
<1> HIDE DEF at, q
<1>3. at \in Nat
  BY DEF at
<1>4. SaturatingSub(later, at) > q
  BY <1>1, <1>2, <1>3 DEF SaturatingSub
<1> QED BY <1>2, <1>4 DEF Expired, at, q

\* Inputs that are stale stay stale as long as no new evidence is presented.
LEMMA InputStaysStale ==
    ASSUME OracleInv, NEW r \in ManifestRoots,
           NEW b \in Nat, NEW later \in Nat, b <= later,
           Stale(InputLagBlocks(r, b), MaxFiBlocks)
    PROVE  Stale(InputLagBlocks(r, later), MaxFiBlocks)
<1> DEFINE bundle == witnesses[r]
<1>1. CASE bundle = NoWitness \/ WitnessAsOfBlock(bundle, later) = Unavailable
  BY <1>1 DEF InputLagBlocks, Stale
<1>2. ASSUME bundle # NoWitness, WitnessAsOfBlock(bundle, later) # Unavailable
      PROVE  Stale(InputLagBlocks(r, later), MaxFiBlocks)
  <2> DEFINE least == WitnessAsOfBlock(bundle, later)
             blocks == {AttestationAsOfBlock(bundle[i]) : i \in DOMAIN bundle}
  <2>1. bundle \in Bundles /\ bundle # <<>>
    BY <1>2 DEF OracleInv, OracleTypeOK, WitnessesAreVerified
  <2>2. /\ least \in Nat
        /\ \A i \in DOMAIN bundle : /\ AttestationAsOfBlock(bundle[i]) \in Nat
                                    /\ ~Expired(bundle[i], later)
    BY <1>2, <2>1, WitnessAsOfBlockBound
  <2>3. \A i \in DOMAIN bundle : ~Expired(bundle[i], b)
    BY <2>1, <2>2, BundleMembers, StaysExpired
  <2>4. Unavailable \notin blocks
    BY <2>2, UnavailableAssumption
  <2>5. WitnessAsOfBlock(bundle, b) = least
    BY <2>2, <2>3, <2>4 DEF WitnessAsOfBlock
  <2>6. least # Unavailable
    BY <1>2
  <2> HIDE DEF least, blocks
  <2>7. /\ InputLagBlocks(r, b) = SaturatingSub(b, least)
        /\ InputLagBlocks(r, later) = SaturatingSub(later, least)
    BY <1>2, <2>5, <2>6 DEF InputLagBlocks, least
  <2>8. SaturatingSub(b, least) \in Nat /\ MaxFiBlocks \in Nat
    BY <2>2, SettlementAssumption DEF SaturatingSub
  <2>9. SaturatingSub(b, least) > MaxFiBlocks
    BY <2>7, <2>8, UnavailableAssumption DEF Stale
  <2>10. SaturatingSub(later, least) > MaxFiBlocks
    BY <2>2, <2>8, <2>9 DEF SaturatingSub
  <2> QED BY <2>7, <2>10 DEF Stale
<1> QED BY <1>1, <1>2

\* Time and the growth of the lineage take freshness away and never give it
\* back: an axis the gate finds stale stays stale (verify_and_settle,
\* model_epoch_distance, input_lag_blocks).
THEOREM StaleStaysStale == Spec => TimeNeverFreshens
<1> DEFINE Kept(c) ==
        LET f     == commits[c]
            model == f.context_root.weights_hash
        IN  /\ f # NoCommit /\ commits'[c] = f
            /\ block >= f.anchor.block_height /\ block' >= block
            /\ witnesses' = witnesses
            /\ lineage # NoLineage /\ IsPrefix(lineage, lineage')
            /\ Positions(lineage, model) # {} /\ Active(lineage, block) # {}
            /\ Cardinality(Positions(lineage', model)) = 1
<1>1. SettlementInv /\ SettlementInv' =>
         \A c \in CommitIds :
            LET f     == commits[c]
                model == f.context_root.weights_hash
            IN Kept(c) => Violations(f, f.context_root, block)
                             \subseteq Violations(f, f.context_root, block)'
  <2> SUFFICES ASSUME SettlementInv, SettlementInv', NEW c \in CommitIds, Kept(c),
                      NEW axis \in Violations(commits[c], commits[c].context_root, block)
               PROVE  axis \in Violations(commits[c], commits[c].context_root, block)'
    OBVIOUS
  <2>1. PICK f, b, later, l, m :
           /\ f = commits[c] /\ b = block /\ later = block'
           /\ l = lineage /\ m = lineage'
    OBVIOUS
  <2>2. /\ f \in FreshnessCommitment /\ b \in Nat /\ later \in Nat
        /\ commits'[c] = f /\ b <= later /\ b >= f.anchor.block_height
    BY <2>1 DEF SettlementInv, TypeOK
  <2>3. /\ f.context_root.input_manifest_root \in ManifestRoots
        /\ f.anchor.block_height \in Nat
    BY <2>2 DEF FreshnessCommitment, ExecutionContextRoot, TripleAnchor
  <2>4. /\ l \in Seq(ModelEpoch) /\ m \in Seq(ModelEpoch) \cup {NoLineage}
        /\ IsPrefix(l, m)
        /\ Positions(l, f.context_root.weights_hash) # {} /\ Active(l, b) # {}
    BY <2>1, LineageType DEF SettlementInv, RegistryInv, RegistryTypeOK
  <2>5. axis \in Violations(f, f.context_root, b)
    BY <2>1
  <2>6. CASE axis = "Computational"
    BY <2>1, <2>2, <2>5, <2>6 DEF Violations, InternallyConsistent,
       TeeDrandConsistent
  <2>7. CASE axis = "Settlement"
    <3>1. b - f.anchor.block_height > MaxFsBlocks
      BY <2>2, <2>3, <2>5, <2>7 DEF Violations
    <3>2. later - f.anchor.block_height > MaxFsBlocks
      BY <2>2, <2>3, <3>1, RenewalAssumption
    <3> QED BY <2>1, <2>2, <2>7, <3>2 DEF Violations, Axes
  <2>8. CASE axis = "Model"
    <3>1. Stale(ModelEpochDistance(l, f.context_root.weights_hash, b), MaxFmEpochs)
      BY <2>1, <2>5, <2>8 DEF Violations, ModelStale
    <3>2. Stale(ModelEpochDistance(m, f.context_root.weights_hash, later), MaxFmEpochs)
      BY <2>2, <2>4, <3>1, ModelStaysStale
    <3>3. ModelStale(f.context_root, block)'
      BY <2>1, <3>2 DEF ModelStale, ModelEpochDistance, Stale
    <3> QED BY <2>1, <2>2, <2>8, <3>3 DEF Violations, Axes
  <2>9. CASE axis = "Input"
    <3>1. Stale(InputLagBlocks(f.context_root.input_manifest_root, b), MaxFiBlocks)
      BY <2>1, <2>5, <2>9 DEF Violations, InputStale
    <3>2. Stale(InputLagBlocks(f.context_root.input_manifest_root, later), MaxFiBlocks)
      BY <2>2, <2>3, <3>1, InputStaysStale DEF SettlementInv
    <3>3. InputStale(f.context_root, block)'
      BY <2>1, <3>2 DEF InputStale, InputLagBlocks, Stale
    <3> QED BY <2>1, <2>2, <2>9, <3>3 DEF Violations, Axes
  <2> QED BY <2>5, <2>6, <2>7, <2>8, <2>9 DEF Violations, Axes
<1> QED BY SettlementInvariant, <1>1, PTL DEF Spec, TimeNeverFreshens

-----------------------------------------------------------------------------
(* The protocol implements its contract *)

\* The contract's view of a commitment.
Life(c) == IF commits[c] = NoCommit THEN "none"
           ELSE IF block <= WindowEnd(c) THEN "open" ELSE "closed"
LastAnswer(c) == IF verdict[c] = NoVerdict THEN "none" ELSE verdict[c].result

\* Where no commitment changes but for the height shown, only the chain
\* changes a life: growth ends some, a rollback brings some back.
LEMMA LivesMove ==
    ASSUME TypeOK, TypeOK',
           \A c \in CommitIds : /\ commits'[c] = NoCommit <=> commits[c] = NoCommit
                                /\ commits'[c].signed = commits[c].signed
    PROVE  \A c \in CommitIds :
              \/ Life(c)' = Life(c)
              \/ block < block' /\ Life(c) = "open" /\ Life(c)' = "closed"
              \/ block' < block /\ Life(c) = "closed" /\ Life(c)' = "open"
<1> TAKE c \in CommitIds
<1>1. CASE commits[c] = NoCommit
  BY <1>1 DEF Life
<1>2. CASE commits[c] # NoCommit
  <2>1. WindowEnd(c)' = WindowEnd(c)
    BY DEF WindowEnd
  <2>2. WindowEnd(c) \in Nat
    BY <1>2, RenewalAssumption DEF WindowEnd, TypeOK, FreshnessCommitment, TripleAnchor
  <2>3. block \in Nat /\ block' \in Nat
    BY DEF TypeOK
  <2>4. /\ block' <= WindowEnd(c) /\ ~(block <= WindowEnd(c)) => block' < block
        /\ block <= WindowEnd(c) /\ ~(block' <= WindowEnd(c)) => block < block'
    BY <2>2, <2>3
  <2> QED BY <1>2, <2>1, <2>4 DEF Life
<1> QED BY <1>1, <1>2

\* The first state of the protocol is that of the contract.
LEMMA ContractInit == Init => Contract!Init
BY DEF Init, Contract!Init

\* Every step of the protocol is one of the contract or changes nothing of
\* what the contract speaks of.
LEMMA ContractStep ==
    SettlementInv /\ SettlementInv' /\ [Next]_vars =>
       [Contract!Next]_<<[c \in CommitIds |-> Life(c)],
                         [c \in CommitIds |-> LastAnswer(c)]>>
<1> SUFFICES ASSUME SettlementInv, SettlementInv', [Next]_vars
             PROVE  [Contract!Next]_<<[c \in CommitIds |-> Life(c)],
                                      [c \in CommitIds |-> LastAnswer(c)]>>
  OBVIOUS
<1> DEFINE life == [c \in CommitIds |-> Life(c)]
           answer == [c \in CommitIds |-> LastAnswer(c)]
<1>1. TypeOK /\ TypeOK'
  BY DEF SettlementInv
<1>2. ASSUME block <= block', verdict' = verdict,
             \A c \in CommitIds : /\ commits'[c] = NoCommit <=> commits[c] = NoCommit
                                  /\ commits'[c].signed = commits[c].signed
      PROVE  \E S \in SUBSET CommitIds : Contract!Close(S)
  <2> DEFINE S == {c \in CommitIds : Life(c) = "open" /\ Life(c)' = "closed"}
  <2>1. \A c \in CommitIds : \/ Life(c)' = Life(c)
                             \/ Life(c) = "open" /\ Life(c)' = "closed"
    <3>1. ~(block' < block)
      BY <1>1, <1>2 DEF TypeOK
    <3> QED BY <1>1, <1>2, <3>1, LivesMove
  <2>2. answer' = answer
    BY <1>2 DEF LastAnswer
  <2>3. \A c \in S : life[c] = "open"
    OBVIOUS
  <2>4. life' = [c \in CommitIds |-> IF c \in S THEN "closed" ELSE life[c]]
    BY <2>1
  <2> QED BY <2>2, <2>3, <2>4 DEF Contract!Close, Life, LastAnswer
<1>3. CASE Grow
  <2>1. block' = block + 1 /\ UNCHANGED <<commits, verdict>> /\ block \in Nat
    BY <1>1, <1>3 DEF Grow, TypeOK
  <2>2. block <= block'
    BY <2>1
  <2> QED BY <1>2, <2>1, <2>2 DEF Contract!Next
<1>4. ASSUME RegistryStep \/ OracleStep \/ UNCHANGED vars
             \/ (\E c \in Renewers, root \in ExecutionContextRoot : Renew(c, root))
      PROVE  \E S \in SUBSET CommitIds : Contract!Close(S)
  <2>1. UNCHANGED <<block, commits, verdict>>
    BY <1>4 DEF RegistryStep, OracleStep, vars, Renew
  <2>2. block <= block'
    BY <1>1, <2>1 DEF TypeOK
  <2> QED BY <1>2, <2>1, <2>2
<1>5. ASSUME NEW c \in CommitIds, NEW root \in ExecutionContextRoot,
             NEW b \in 0..MaxBlock, NEW drift \in Drifts,
             NEW output \in OutputHashes, NEW vendor \in Vendors,
             Commit(c, root, b, drift, output, vendor)
      PROVE  Contract!Submit(c)
  <2> DEFINE f == Committed(root, AnchorAt(b, drift), output, vendor)
  <2>1. /\ commits[c] = NoCommit /\ UNCHANGED <<block, verdict>>
        /\ commits' = [commits EXCEPT ![c] = f]
    BY <1>5 DEF Commit
  <2>2. f # NoCommit
    <3>1. AnchorAt(b, drift) \in TripleAnchor
      BY <1>1, AnchorType, InputAssumption, SettlementAssumption DEF TypeOK
    <3>2. f \in FreshnessCommitment
      BY <3>1 DEF FreshnessCommitment, Committed, SigningDigest
    <3> HIDE DEF f
    <3> QED BY <3>2, PlaceholderAssumption
  <2> HIDE DEF f
  <2>3. \A d \in CommitIds : commits'[d] = IF d = c THEN f ELSE commits[d]
    BY <1>1, <2>1 DEF TypeOK
  <2>4. Life(c) = "none" /\ Life(c)' \in {"open", "closed"}
    BY <2>1, <2>2, <2>3 DEF Life
  <2>5. \A d \in CommitIds \ {c} : Life(d)' = Life(d)
    BY <2>1, <2>3 DEF Life, WindowEnd
  <2>6. life' = [life EXCEPT ![c] = Life(c)']
    BY <2>5
  <2>7. answer' = answer
    BY <2>1 DEF LastAnswer
  <2> QED BY <2>4, <2>6, <2>7 DEF Contract!Submit, Life, LastAnswer
<1>6. ASSUME NEW c \in CommitIds, NEW b \in Garbled, Garble(c, b)
      PROVE  \E S \in SUBSET CommitIds : Contract!Close(S)
  <2>1. /\ UNCHANGED <<block, verdict>> /\ commits[c] # NoCommit
        /\ commits' = [commits EXCEPT ![c].anchor.block_height = b]
    BY <1>6 DEF Garble
  <2>2. \A d \in CommitIds : commits'[d].signed = commits[d].signed
    BY <1>1, <1>6 DEF Garble, TypeOK, FreshnessCommitment
  <2>3. commits'[c] # NoCommit
    <3>1. commits[c] \in FreshnessCommitment
      BY <1>1, <2>1 DEF TypeOK
    <3>2. [commits[c] EXCEPT !.anchor.block_height = b] \in FreshnessCommitment
      BY <3>1, SettlementAssumption DEF FreshnessCommitment, TripleAnchor
    <3>3. commits' = [commits EXCEPT ![c] = [commits[c] EXCEPT !.anchor.block_height = b]]
      BY <1>6 DEF Garble
    <3>4. commits'[c] = [commits[c] EXCEPT !.anchor.block_height = b]
      BY <1>1, <3>3 DEF TypeOK
    <3> QED BY <3>2, <3>4, PlaceholderAssumption
  <2>4. \A d \in CommitIds \ {c} : commits'[d] = commits[d]
    BY <1>1, <2>1 DEF TypeOK
  <2>5. block <= block'
    BY <1>1, <2>1 DEF TypeOK
  <2> QED BY <1>2, <2>1, <2>2, <2>3, <2>4, <2>5
<1>7. ASSUME NEW c \in CommitIds, NEW root \in ExecutionContextRoot,
             Settle(c, root)
      PROVE  \E a \in {"Clear", "Rejected", "Err"} : Contract!Judge(c, a)
  <2> DEFINE result == Result(commits[c], root, block)
             v == [at |-> block, result |-> result,
                   violations |-> IF result = "Err" THEN {}
                                  ELSE Violations(commits[c], root, block)]
  <2>1. /\ commits[c] # NoCommit /\ UNCHANGED <<block, commits>>
        /\ verdict' = [verdict EXCEPT ![c] = v]
    BY <1>7 DEF Settle
  <2>2. result \in {"Clear", "Rejected", "Err"} /\ v.result = result
    BY DEF Result
  <2>3. ASSUME result = "Clear"
        PROVE  Life(c) = "open"
    <3>1. Backed(commits[c].signed, block)
      BY <1>1, <2>1, <2>3, ClearIsBacked DEF SettlementInv
    <3>2. block <= WindowEnd(c)
      BY <3>1 DEF Backed, WindowEnd
    <3> QED BY <2>1, <3>2 DEF Life
  <2>4. Life(c) # "none"
    BY <2>1 DEF Life
  <2>5. v \in Verdict
    BY <1>1, <2>2 DEF Verdict, Violations, TypeOK
  <2> HIDE DEF v, result
  <2>6. \A d \in CommitIds : verdict'[d] = IF d = c THEN v ELSE verdict[d]
    BY <1>1, <2>1 DEF TypeOK
  <2>7. v # NoVerdict
    BY <2>5, PlaceholderAssumption
  <2>8. answer' = [answer EXCEPT ![c] = result]
    BY <2>2, <2>6, <2>7 DEF LastAnswer
  <2>9. life' = life
    BY <2>1 DEF Life, WindowEnd
  <2> QED BY <2>2, <2>3, <2>4, <2>8, <2>9 DEF Contract!Judge, Life, LastAnswer
<1>8. ASSUME NEW depth \in 1..MaxReorg, Reorg(depth)
      PROVE  \E S \in SUBSET CommitIds : Contract!Reopen(S)
  <2> DEFINE S == {c \in CommitIds : Life(c) = "closed" /\ Life(c)' = "open"}
  <2>1. /\ block' = block - depth /\ UNCHANGED <<commits, verdict>>
        /\ block \in Nat /\ MaxReorg # 0
    BY <1>1, <1>8, SettlementAssumption DEF Reorg, TypeOK
  <2>2. \A c \in CommitIds : \/ Life(c)' = Life(c)
                             \/ Life(c) = "closed" /\ Life(c)' = "open"
    <3>1. ~(block < block')
      BY <2>1
    <3> QED BY <1>1, <2>1, <3>1, LivesMove
  <2>3. answer' = answer
    BY <2>1 DEF LastAnswer
  <2>4. \A c \in S : life[c] = "closed"
    OBVIOUS
  <2>5. life' = [c \in CommitIds |-> IF c \in S THEN "open" ELSE life[c]]
    BY <2>2
  <2> QED BY <2>1, <2>3, <2>4, <2>5 DEF Contract!Reopen, Life, LastAnswer
<1> QED BY <1>3, <1>4, <1>5, <1>6, <1>7, <1>8 DEF Next, Contract!Next

\* The protocol implements its contract: a commitment has one life, which ends
\* with its signed window and is taken up again only where the chain rolls
\* back, and the gate clears it only while it lives, whatever the oracles, the
\* workers and the environment do (verify_and_settle).
THEOREM ImplementsTheContract == Spec => ImplementsContract
<1>1. SettlementInv /\ SettlementInv' /\ [Next]_vars =>
         [Contract!Next]_<<[c \in CommitIds |-> Life(c)],
                           [c \in CommitIds |-> LastAnswer(c)]>>
  BY ContractStep
<1> QED BY ContractInit, SettlementInvariant, <1>1, PTL
        DEF Spec, ImplementsContract, Contract!Spec, Life, LastAnswer
=============================================================================

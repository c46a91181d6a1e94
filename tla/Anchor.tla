------------------------------ MODULE Anchor ------------------------------
(***************************************************************************)
(* The triple anchor (src/anchor.rs): a block height, an enclave timestamp *)
(* in nanoseconds and a Drand round, and the predicates that compare the   *)
(* wall-clock times they imply. All sums are u64 sums, so they wrap when   *)
(* the build has no overflow checks; products saturate, as the code's do.  *)
(* The genesis times, the periods and the width are parameters: the code's *)
(* values are 1_595_431_050, 30, 1_686_789_347, 2, 10^9 and 2^64 - 1.      *)
(***************************************************************************)
EXTENDS Naturals

CONSTANTS
    U64Max,       \* u64::MAX
    DrandGenesis, \* Unix second of Drand round 0
    DrandPeriod,  \* seconds between Drand rounds
    BaseGenesis,  \* Unix second of block 0
    BlockPeriod,  \* seconds between blocks
    NanosPerSec,  \* enclave clock ticks per second
    BlockSkew,    \* FreshnessThresholds.block_skew, in blocks
    TeeSkewSecs,  \* FreshnessThresholds.tee_skew_secs
    DrandSkew,    \* FreshnessThresholds.drand_skew, in rounds
    RealAnchors   \* TRUE when built with the feature real-anchors

ASSUME AnchorAssumption ==
    /\ U64Max \in Nat /\ DrandGenesis \in Nat /\ BaseGenesis \in Nat
    /\ BlockSkew \in Nat /\ TeeSkewSecs \in Nat /\ DrandSkew \in Nat
    /\ DrandPeriod \in Nat \ {0} /\ BlockPeriod \in Nat \ {0}
    /\ NanosPerSec \in Nat \ {0}
    /\ RealAnchors \in BOOLEAN

TripleAnchor == [block_height : Nat, tee_timestamp : Nat, drand_round : Nat]

\* What honest clocks show at second now: a node that reports the given
\* height, an enclave clock that is ahead by drift seconds, and the last
\* Drand round emitted.
ReadClocks(height, now, drift) ==
    [block_height |-> height,
     tee_timestamp |-> (now + drift) * NanosPerSec,
     drand_round |-> (now - DrandGenesis) \div DrandPeriod]

AbsDiff(a, b) == IF a >= b THEN a - b ELSE b - a
SaturatingMul(a, b) == IF a * b > U64Max THEN U64Max ELSE a * b
WrappingAdd(a, b) == (a + b) % (U64Max + 1)

DrandWallTimeSecs(a) ==
    WrappingAdd(DrandGenesis, SaturatingMul(a.drand_round, DrandPeriod))

\* The quotient is computed in 128 bits and cast down to 64.
TeeWallTimeSecs(a) == (a.tee_timestamp \div NanosPerSec) % (U64Max + 1)

BlockWallTimeSecs(a) ==
    WrappingAdd(BaseGenesis, SaturatingMul(a.block_height, BlockPeriod))

TeeDrandTolerance ==
    WrappingAdd(TeeSkewSecs, SaturatingMul(DrandSkew, DrandPeriod))
BlockTolerance ==
    WrappingAdd(SaturatingMul(BlockSkew, BlockPeriod),
                SaturatingMul(DrandSkew, DrandPeriod))

\* Wrong form: a difference equal to the tolerance is refused.
TeeDrandConsistentStrict(a) ==
    AbsDiff(TeeWallTimeSecs(a), DrandWallTimeSecs(a)) < TeeDrandTolerance

\* Wrong form: only an enclave clock that is behind is caught.
TeeDrandConsistentOneSided(a) ==
    DrandWallTimeSecs(a) <= TeeWallTimeSecs(a) + TeeDrandTolerance

TeeDrandConsistent(a) ==
    AbsDiff(TeeWallTimeSecs(a), DrandWallTimeSecs(a)) <= TeeDrandTolerance

InternallyConsistent(a) ==
    /\ TeeDrandConsistent(a)
    /\ RealAnchors =>
         AbsDiff(BlockWallTimeSecs(a), DrandWallTimeSecs(a)) <= BlockTolerance

-----------------------------------------------------------------------------
\* Wrong form: the enclave clocks are compared in nanoseconds.
DivergesBeyondNanos(a, b) ==
    \/ AbsDiff(a.block_height, b.block_height) > BlockSkew
    \/ AbsDiff(a.tee_timestamp, b.tee_timestamp) > TeeSkewSecs
    \/ AbsDiff(a.drand_round, b.drand_round) > DrandSkew

\* AnchorSkew, as TripleAnchor::skew_vs computes it.
SkewVs(a, b) ==
    [block_delta  |-> AbsDiff(a.block_height, b.block_height),
     tee_delta_ns |-> AbsDiff(a.tee_timestamp, b.tee_timestamp),
     drand_delta  |-> AbsDiff(a.drand_round, b.drand_round)]

\* TripleAnchor::diverges_beyond
DivergesBeyond(a, b) ==
    LET s == SkewVs(a, b)
    IN  \/ s.block_delta > BlockSkew
        \/ s.tee_delta_ns \div NanosPerSec > TeeSkewSecs
        \/ s.drand_delta > DrandSkew
=============================================================================

------------------------ MODULE AnchorBuilderProofs ------------------------
(***************************************************************************)
(* Real anchors: that a prompt build on a right clock gives an anchor the  *)
(* gate accepts, that a clock that is off shows, and that builds which     *)
(* follow each other closely agree; for every timing of the fetches, every *)
(* age of what the servers answer and every period, genesis time and       *)
(* tolerance, as long as no clock comes near the width of the integers.    *)
(***************************************************************************)
EXTENDS AnchorBuilder, Arithmetic

-----------------------------------------------------------------------------
(* What a build has read *)

RoundAt(s) == (s - DrandGenesis) \div DrandPeriod
HeightAt(s) == (s - BaseGenesis) \div BlockPeriod

\* What the system clock shows at second t, in whole seconds.
Showing(t) == IF t + clock.ahead >= clock.behind
              THEN (t + clock.ahead) - clock.behind ELSE 0

\* The round and the height were current at two seconds since the build began,
\* or at most the age of a cached answer earlier; the round was asked for
\* first, so that it can be the younger one only by that age.
Readings(from, to, round, height) ==
    \E d, b \in (from - CacheAge)..to :
        d <= b + CacheAge /\ round = RoundAt(d) /\ height = HeightAt(b)

BuildOK(l) ==
    /\ l.started \in FirstSecond..l.ended
    /\ l.ended \in FirstSecond..now
    /\ Readings(l.started, l.ended, l.anchor.drand_round, l.anchor.block_height)
    /\ l.anchor.tee_timestamp = NanosPerSec * Showing(l.ended)

BuilderInv ==
    /\ now \in FirstSecond..LastSecond
    /\ clock \in Clocks
    /\ stage \in {"idle", "drand", "block", "clock"}
    /\ stage # "idle" => /\ started \in FirstSecond..now
                         /\ Built => last.ended <= started
    /\ stage = "block" =>
          \E d \in (started - CacheAge)..now : drand_round = RoundAt(d)
    /\ stage = "clock" => Readings(started, now, drand_round, block_height)
    /\ Built => BuildOK(last)

\* At first nothing was built and nothing is being built.
LEMMA BuilderInvInit == Init => BuilderInv
BY BuilderAssumption DEF Init, BuilderInv, Built

\* Times are naturals, and the oldest answer is younger than both chains.
LEMMA BuilderTimes ==
    ASSUME BuilderInv
    PROVE  /\ now \in Nat /\ now <= LastSecond /\ FirstSecond <= now
           /\ FirstSecond \in Nat /\ LastSecond \in Nat /\ CacheAge \in Nat
           /\ clock.ahead \in Nat /\ clock.behind \in Nat
           /\ DrandGenesis \in Nat /\ DrandGenesis <= FirstSecond - CacheAge
           /\ BaseGenesis \in Nat /\ BaseGenesis <= FirstSecond - CacheAge
           /\ DrandPeriod \in Nat \ {0} /\ BlockPeriod \in Nat \ {0}
           /\ NanosPerSec \in Nat \ {0} /\ U64Max \in Nat
BY AnchorAssumption, BuilderAssumption DEF BuilderInv

\* An error is no anchor.
LEMMA ErrorIsNotBuilt ==
    ASSUME NEW result \in ClientError, Returned(result, NoAnchor)
    PROVE  ~Built'
<1>1. last'.result = result
  BY DEF Returned
<1> QED BY <1>1 DEF Built, ClientError

\* Every step of the build, of the servers and of time keeps the invariant.
LEMMA BuilderInvStep == BuilderInv /\ [Next]_vars => BuilderInv'
<1> SUFFICES ASSUME BuilderInv, [Next]_vars
             PROVE  BuilderInv'
  OBVIOUS
<1> USE DEF BuilderInv
<1>1. CASE Tick
  <2>1. /\ now' = now + 1 /\ now < LastSecond
        /\ UNCHANGED <<clock, stage, drand_round, block_height, started, last>>
    BY <1>1 DEF Tick
  <2>2. now' \in FirstSecond..LastSecond
    BY <2>1, BuilderTimes
  <2>3. \A n : n \in FirstSecond..now => n \in FirstSecond..now'
    BY <2>1, BuilderTimes
  <2>4. stage # "idle" => \A d : d \in (started - CacheAge)..now =>
                                    d \in (started - CacheAge)..now'
    BY <2>1, BuilderTimes
  <2>5. Built' => BuildOK(last)'
    BY <2>1, <2>3 DEF Built, BuildOK, Readings, RoundAt, HeightAt, Showing
  <2>6. stage = "clock" => Readings(started, now', drand_round, block_height)
    BY <2>4 DEF Readings
  <2>7. stage = "block" =>
          \E d \in (started - CacheAge)..now' : drand_round = RoundAt(d)
    BY <2>4
  <2> QED BY <2>1, <2>2, <2>3, <2>5, <2>6, <2>7
          DEF Built, Readings, RoundAt, HeightAt
<1>2. CASE Build
  <2>1. /\ UNCHANGED <<now, clock, last>> /\ stage' = "drand" /\ started' = now
    BY <1>2 DEF Build
  <2>2. Built => last.ended <= now /\ BuildOK(last)'
    BY <2>1, BuilderTimes DEF BuildOK, Readings, RoundAt, HeightAt, Showing
  <2> QED BY <2>1, <2>2, BuilderTimes DEF Built
<1>3. CASE Receive
  BY <1>3 DEF Receive, Built, BuildOK, Readings, RoundAt, HeightAt, Showing
<1>4. CASE DrandAnswers
  <2>1. /\ UNCHANGED <<now, clock, started, last>>
        /\ stage = "drand" /\ stage' = "block"
    BY <1>4 DEF DrandAnswers
  <2>2. PICK s \in CurrentIn : drand_round' = RoundAt(s)
    BY <1>4 DEF DrandAnswers, ReadClocks, RoundAt
  <2>3. s \in (started - CacheAge)..now
    BY <2>1, BuilderTimes DEF CurrentIn
  <2>4. Built => BuildOK(last)'
    BY <2>1 DEF BuildOK, Readings, RoundAt, HeightAt, Showing
  <2> QED BY <2>1, <2>2, <2>3, <2>4 DEF Built, RoundAt
<1>5. CASE BlockAnswers
  <2>1. /\ UNCHANGED <<now, clock, drand_round, started, last>>
        /\ stage = "block" /\ stage' = "clock"
    BY <1>5 DEF BlockAnswers
  <2>2. PICK s \in CurrentIn : block_height' = HeightAt(s)
    BY <1>5 DEF BlockAnswers, HeightAt
  <2>3. PICK d \in (started - CacheAge)..now : drand_round = RoundAt(d)
    BY <2>1
  <2>4. s \in (started - CacheAge)..now /\ d <= s + CacheAge
    BY <2>1, <2>3, BuilderTimes DEF CurrentIn
  <2>5. Readings(started, now, drand_round, block_height')
    BY <2>2, <2>3, <2>4 DEF Readings
  <2>6. Built => BuildOK(last)'
    BY <2>1 DEF BuildOK, Readings, RoundAt, HeightAt, Showing
  <2> QED BY <2>1, <2>5, <2>6 DEF Built, Readings, RoundAt, HeightAt
<1>6. ASSUME NEW result \in ClientError, Returned(result, NoAnchor)
      PROVE  BuilderInv'
  <2>1. UNCHANGED <<now, clock>> /\ stage' = "idle"
    BY <1>6 DEF Returned
  <2> QED BY <2>1, <1>6, ErrorIsNotBuilt
<1>7. CASE ReadClock
  <2> DEFINE anchor == [block_height |-> block_height,
                        tee_timestamp |-> SystemTimeUnixNanos,
                        drand_round |-> drand_round]
             l == [result |-> "Ok", anchor |-> anchor, started |-> started,
                   ended |-> now]
  <2>1. /\ UNCHANGED <<now, clock>> /\ stage = "clock" /\ stage' = "idle"
        /\ last' = l
    BY <1>7 DEF ReadClock, Returned
  <2>2. SystemTimeUnixNanos = NanosPerSec * Showing(now)
    BY DEF SystemTimeUnixNanos, Showing
  <2>3. /\ l.started = started /\ l.ended = now
        /\ l.anchor.drand_round = drand_round
        /\ l.anchor.block_height = block_height
        /\ l.anchor.tee_timestamp = NanosPerSec * Showing(now)
    BY <2>2
  <2> HIDE DEF l
  <2>4. BuildOK(l)
    BY <2>1, <2>3, BuilderTimes DEF BuildOK
  <2>5. PICK k : k = l
    OBVIOUS
  <2>6. BuildOK(k)'
    BY <2>1, <2>4, <2>5 DEF BuildOK, Readings, RoundAt, HeightAt, Showing
  <2> QED BY <2>1, <2>5, <2>6 DEF BuildOK, Readings, RoundAt, HeightAt, Showing
<1>8. CASE UNCHANGED vars
  BY <1>8 DEF vars, Built, BuildOK, Readings, RoundAt, HeightAt, Showing
<1>9. ASSUME NEW kind \in ClientError, TimedOut(kind)
      PROVE  BuilderInv'
  BY <1>6, <1>9 DEF TimedOut
<1>10. ASSUME NEW kind \in ClientError, Fails(kind)
       PROVE  BuilderInv'
  BY <1>6, <1>10 DEF Fails
<1> QED BY <1>1, <1>2, <1>3, <1>4, <1>5, <1>7, <1>8, <1>9, <1>10 DEF Next

\* The builder keeps its invariant in every behaviour.
THEOREM BuilderInvariant == Spec => []BuilderInv
BY BuilderInvInit, BuilderInvStep, PTL DEF Spec

-----------------------------------------------------------------------------
(* How long a build waits *)

\* The wait under way is not over, and its end is within what the fetches and
\* the parts so far account for.
WaitInv ==
    /\ now \in Nat
    /\ Fetching =>
         /\ started \in Nat /\ heard \in Nat /\ parts \in Nat
         /\ now <= heard + Patience
         /\ heard + Patience <=
               started + Fetches * ConnectTimeout + parts * Timeout

\* A step of the build, of a server or of time keeps every wait within bounds.
LEMMA WaitInvStep == WaitInv /\ [Next]_vars => WaitInv'
<1> SUFFICES ASSUME WaitInv, [Next]_vars
             PROVE  WaitInv'
  OBVIOUS
<1>1. ConnectTimeout \in Nat /\ Timeout \in Nat /\ now \in Nat
  BY BuilderAssumption DEF WaitInv
<1>2. Fetching => /\ Patience \in Nat
                  /\ Fetches * ConnectTimeout \in Nat /\ parts * Timeout \in Nat
  BY <1>1 DEF WaitInv, Patience, Fetches
<1>3. CASE Tick
  <2>1. /\ now' = now + 1 /\ (Fetching => now < heard + Patience)
        /\ UNCHANGED <<stage, heard, connected, parts, started>>
    BY <1>3 DEF Tick
  <2> QED BY <1>1, <1>2, <2>1 DEF WaitInv, Fetching, Patience, Fetches
<1>4. CASE Build
  <2>1. /\ stage' = "drand" /\ started' = now /\ heard' = now
        /\ connected' = FALSE /\ parts' = 0 /\ now' = now
    BY <1>4 DEF Build
  <2>2. /\ Patience' = ConnectTimeout /\ Fetches' = 1
    BY <2>1 DEF Patience, Fetches
  <2>3. /\ Fetches' * ConnectTimeout = ConnectTimeout
        /\ parts' * Timeout = 0
    BY <1>1, <2>1, <2>2
  <2>4. /\ started' \in Nat /\ heard' \in Nat /\ parts' \in Nat
        /\ now' <= heard' + Patience'
    BY <1>1, <2>1, <2>2
  <2> DEFINE connecting == Fetches' * ConnectTimeout
             reading == parts' * Timeout
  <2>5. heard' + Patience' <= started' + connecting + reading
    <3>1. connecting = ConnectTimeout /\ reading = 0
      BY <2>3
    <3> HIDE DEF connecting, reading
    <3> QED BY <1>1, <2>1, <2>2, <3>1
  <2> QED BY <1>1, <2>1, <2>4, <2>5 DEF WaitInv
<1>5. CASE Receive
  <2>1. /\ Fetching /\ heard' = now /\ connected' = TRUE /\ parts' = parts + 1
        /\ UNCHANGED <<now, stage, started>>
    BY <1>5 DEF Receive
  <2>2. parts' * Timeout = parts * Timeout + Timeout
    BY <1>1, <2>1 DEF WaitInv
  <2>3. Patience' = Timeout /\ Fetches' = Fetches /\ Fetching'
    BY <2>1 DEF Patience, Fetches, Fetching
  <2>4. now <= started + Fetches * ConnectTimeout + parts * Timeout
    BY <1>1, <1>2, <2>1 DEF WaitInv
  <2> QED BY <1>1, <1>2, <2>1, <2>2, <2>3, <2>4 DEF WaitInv
<1>6. CASE DrandAnswers
  <2>1. /\ stage = "drand" /\ stage' = "block"
        /\ heard' = now /\ connected' = FALSE /\ UNCHANGED <<now, parts, started>>
    BY <1>6 DEF DrandAnswers
  <2>2. now <= started + ConnectTimeout + parts * Timeout
    BY <1>1, <1>2, <2>1 DEF WaitInv, Fetching, Fetches
  <2>3. /\ Patience' = ConnectTimeout /\ Fetches' = 2 /\ Fetching /\ parts' = parts
    BY <2>1 DEF Patience, Fetches, Fetching
  <2>4. Fetches' * ConnectTimeout = ConnectTimeout + ConnectTimeout
    BY <1>1, <2>3
  <2> DEFINE heardFor == parts * Timeout
  <2>5. heardFor \in Nat /\ parts' * Timeout = heardFor
    BY <1>2, <2>3
  <2> HIDE DEF heardFor
  <2>6. now <= started + ConnectTimeout + heardFor
    BY <2>2 DEF heardFor
  <2>7. /\ started \in Nat /\ parts \in Nat
    BY <2>3 DEF WaitInv
  <2>8. now + ConnectTimeout <=
           started + (ConnectTimeout + ConnectTimeout) + heardFor
    BY <1>1, <2>5, <2>6, <2>7
  <2>9. /\ started' \in Nat /\ heard' \in Nat /\ parts' \in Nat
        /\ now' <= heard' + Patience'
    BY <1>1, <2>1, <2>3, <2>7
  <2> DEFINE connecting == Fetches' * ConnectTimeout
             reading == parts' * Timeout
  <2>10. heard' + Patience' <= started' + connecting + reading
    <3>1. connecting = ConnectTimeout + ConnectTimeout /\ reading = heardFor
      BY <2>4, <2>5
    <3> HIDE DEF connecting, reading
    <3> QED BY <2>1, <2>3, <2>8, <3>1
  <2> QED BY <1>1, <2>1, <2>9, <2>10 DEF WaitInv
<1>7. CASE BlockAnswers
  BY <1>1, <1>7 DEF BlockAnswers, WaitInv, Fetching
<1>8. ASSUME NEW result, NEW anchor, Returned(result, anchor)
      PROVE  WaitInv'
  BY <1>1, <1>8 DEF Returned, WaitInv, Fetching
<1>9. CASE UNCHANGED vars
  BY <1>9 DEF vars, WaitInv, Fetching, Patience, Fetches
<1> QED BY <1>3, <1>4, <1>5, <1>6, <1>7, <1>8, <1>9
        DEF Next, TimedOut, Fails, ReadClock

\* Silence never holds a build, for any timeouts: what it has waited is bounded
\* by a connect timeout a fetch and a read timeout a part it has heard; there
\* is no more to it, as no timeout limits a request as a whole (latest_round,
\* latest_block_number).
THEOREM WaitsAreBounded == Spec => []WaitIsBounded
<1>1. Init => WaitInv
  BY BuilderAssumption DEF Init, WaitInv, Fetching
<1>2. WaitInv => WaitIsBounded
  <2> SUFFICES ASSUME WaitInv, Fetching
               PROVE  now - started <= Fetches * ConnectTimeout + parts * Timeout
    BY DEF WaitIsBounded
  <2> QED BY BuilderAssumption DEF WaitInv, Patience, Fetches
<1> QED BY <1>1, <1>2, WaitInvStep, PTL DEF Spec

-----------------------------------------------------------------------------
(* What the clocks of a built anchor show *)

\* No clock reaches the width of the integers in the time considered.
NoBuildWraps == \A c \in Clocks : LastSecond + c.ahead <= U64Max

\* A clock that counts periods shows the second its last one began.
LEMMA LastShown ==
    ASSUME NEW g \in Nat, NEW p \in Nat \ {0}, NEW s \in Nat, g <= s, s <= U64Max
    PROVE  LET w == WrappingAdd(g, SaturatingMul((s - g) \div p, p))
           IN  w \in Nat /\ w <= s /\ s <= w + p - 1
<1> DEFINE x == ((s - g) \div p) * p
<1>1. s - g \in Nat /\ U64Max \in Nat
  BY AnchorAssumption
<1>2. x \in Nat /\ x <= s - g /\ s - g <= x + p - 1
  BY <1>1, LastMultiple
<1>3. SaturatingMul((s - g) \div p, p) = IF x > U64Max THEN U64Max ELSE x
  BY DEF SaturatingMul
<1> HIDE DEF x
<1>4. g + x \in Nat /\ g + x <= s /\ s <= (g + x) + p - 1 /\ x <= U64Max
  BY <1>1, <1>2
<1>5. (g + x) % (U64Max + 1) = g + x
  BY <1>1, <1>4, SmallRemainder
<1>6. WrappingAdd(g, SaturatingMul((s - g) \div p, p)) = g + x
  BY <1>1, <1>2, <1>3, <1>4, <1>5 DEF WrappingAdd
<1> QED BY <1>4, <1>6

\* The system clock of a build, read back from its anchor.
LEMMA ShownTee ==
    ASSUME BuilderInv, NoBuildWraps, Built
    PROVE  /\ Showing(last.ended) \in Nat
           /\ TeeWallTimeSecs(last.anchor) = Showing(last.ended)
<1> DEFINE t == Showing(last.ended)
<1>1. BuildOK(last) /\ last.ended \in Nat /\ last.ended <= LastSecond
  BY BuilderTimes DEF BuilderInv, BuildOK
<1>2. clock.ahead \in Nat /\ clock.behind \in Nat /\ clock \in Clocks
  BY BuilderTimes DEF BuilderInv
<1>3. t \in Nat /\ t <= last.ended + clock.ahead
  BY <1>1, <1>2 DEF Showing
<1>4. last.ended + clock.ahead <= U64Max
  BY <1>1, <1>2, BuilderTimes DEF NoBuildWraps
<1>5. last.anchor.tee_timestamp = NanosPerSec * t
  BY <1>1 DEF BuildOK
<1> HIDE DEF t
<1>6. NanosPerSec \in Nat \ {0} /\ U64Max \in Nat
  BY AnchorAssumption
<1>7. NanosPerSec * t = t * NanosPerSec /\ (t * NanosPerSec) \div NanosPerSec = t
  BY <1>3, <1>6, QuotientOfProduct
<1>8. t % (U64Max + 1) = t
  <2>1. t < U64Max + 1
    BY <1>1, <1>2, <1>3, <1>4, <1>6
  <2> QED BY <1>3, <1>6, <2>1, SmallRemainder
<1> QED BY <1>3, <1>5, <1>7, <1>8 DEF TeeWallTimeSecs, t

\* The Drand clock and the block clock of a build, read back from its anchor.
LEMMA ShownChains ==
    ASSUME BuilderInv, NoBuildWraps, Built
    PROVE  \E d, b \in (last.started - CacheAge)..last.ended :
              /\ d \in Nat /\ b \in Nat /\ d <= b + CacheAge
              /\ DrandWallTimeSecs(last.anchor) \in Nat
              /\ DrandWallTimeSecs(last.anchor) <= d
              /\ d <= DrandWallTimeSecs(last.anchor) + DrandPeriod - 1
              /\ BlockWallTimeSecs(last.anchor) \in Nat
              /\ BlockWallTimeSecs(last.anchor) <= b
              /\ b <= BlockWallTimeSecs(last.anchor) + BlockPeriod - 1
<1>1. BuildOK(last)
  BY DEF BuilderInv
<1>2. PICK d, b \in (last.started - CacheAge)..last.ended :
         /\ d <= b + CacheAge
         /\ last.anchor.drand_round = RoundAt(d)
         /\ last.anchor.block_height = HeightAt(b)
  BY <1>1 DEF BuildOK, Readings
<1>3. /\ d \in Nat /\ DrandGenesis <= d /\ d <= U64Max
      /\ b \in Nat /\ BaseGenesis <= b /\ b <= U64Max
  <2>1. last.ended <= LastSecond /\ FirstSecond <= last.started
        /\ last.ended \in Nat /\ last.started \in Nat
    BY <1>1, BuilderTimes DEF BuildOK
  <2>2. LastSecond <= U64Max
    BY BuilderTimes DEF NoBuildWraps, BuilderInv
  <2> QED BY <1>2, <2>1, <2>2, BuilderTimes
<1>4. DrandWallTimeSecs(last.anchor) =
         WrappingAdd(DrandGenesis,
           SaturatingMul((d - DrandGenesis) \div DrandPeriod, DrandPeriod))
  BY <1>2 DEF DrandWallTimeSecs, RoundAt
<1>5. BlockWallTimeSecs(last.anchor) =
         WrappingAdd(BaseGenesis,
           SaturatingMul((b - BaseGenesis) \div BlockPeriod, BlockPeriod))
  BY <1>2 DEF BlockWallTimeSecs, HeightAt
<1>6. /\ DrandWallTimeSecs(last.anchor) \in Nat
      /\ DrandWallTimeSecs(last.anchor) <= d
      /\ d <= DrandWallTimeSecs(last.anchor) + DrandPeriod - 1
  BY <1>3, <1>4, AnchorAssumption, LastShown
<1>7. /\ BlockWallTimeSecs(last.anchor) \in Nat
      /\ BlockWallTimeSecs(last.anchor) <= b
      /\ b <= BlockWallTimeSecs(last.anchor) + BlockPeriod - 1
  BY <1>3, <1>5, AnchorAssumption, LastShown
<1> QED BY <1>2, <1>3, <1>6, <1>7

\* Tolerances are naturals, wrapped or not.
LEMMA ToleranceType == TeeDrandTolerance \in Nat /\ BlockTolerance \in Nat
<1>1. \A m, n \in Nat : WrappingAdd(m, n) \in Nat
  BY AnchorAssumption DEF WrappingAdd
<1>2. \A m, n \in Nat : SaturatingMul(m, n) \in Nat
  BY AnchorAssumption DEF SaturatingMul
<1> QED BY <1>1, <1>2, AnchorAssumption DEF TeeDrandTolerance, BlockTolerance

\* A build that is prompt for the tolerances, on a clock that is right enough,
\* gives a consistent anchor, however old what the servers answered
\* (RealAnchorBuilder::build against TripleAnchor::internally_consistent).
THEOREM PromptBuildsPass ==
    ASSUME NoBuildWraps
    PROVE  Spec => []PromptBuildIsConsistent
<1>1. BuilderInv => PromptBuildIsConsistent
  <2> SUFFICES ASSUME BuilderInv, Built,
                      clock.ahead = 0 \/ clock.behind = 0,
                      Spread(last) + clock.ahead <= TeeDrandTolerance,
                      clock.behind <= TeeDrandTolerance,
                      Spread(last) <= BlockTolerance,
                      CacheAge + BlockPeriod - 1 <= BlockTolerance
               PROVE  InternallyConsistent(last.anchor)
    BY DEF PromptBuildIsConsistent
  <2> DEFINE w == DrandWallTimeSecs(last.anchor)
             h == BlockWallTimeSecs(last.anchor)
             t == TeeWallTimeSecs(last.anchor)
             from == last.started
             to == last.ended
  <2>1. /\ from \in Nat /\ to \in Nat /\ from <= to
        /\ FirstSecond <= from
    BY BuilderTimes DEF BuilderInv, BuildOK
  <2>2. PICK d, b \in (from - CacheAge)..to :
           /\ d \in Nat /\ b \in Nat /\ d <= b + CacheAge
           /\ w \in Nat /\ w <= d /\ d <= w + DrandPeriod - 1
           /\ h \in Nat /\ h <= b /\ b <= h + BlockPeriod - 1
    BY ShownChains
  <2>3. t \in Nat /\ t = Showing(to)
    BY ShownTee
  <2>4. Spread(last) = (to - from) + CacheAge + DrandPeriod - 1
    BY DEF Spread
  <2> HIDE DEF w, h, t
  <2>5. AbsDiff(t, w) <= TeeDrandTolerance
    BY <2>1, <2>2, <2>3, <2>4, BuilderTimes, ToleranceType DEF AbsDiff, Showing
  <2>6. AbsDiff(h, w) <= BlockTolerance
    BY <2>1, <2>2, <2>4, BuilderTimes, ToleranceType DEF AbsDiff
  <2> QED BY <2>5, <2>6 DEF InternallyConsistent, TeeDrandConsistent, w, h, t
<1> QED BY <1>1, BuilderInvariant, PTL

\* A system clock that is off by more than the tolerance never gives a
\* consistent anchor: a wait only adds to a clock that is ahead, and makes up
\* for no more than the spread of the readings when the clock is behind
\* (system_time_unix_nanos, internally_consistent).
THEOREM DesyncedClocksAreCaught ==
    ASSUME NoBuildWraps
    PROVE  Spec => []DesyncedClockIsCaught
<1>1. BuilderInv => DesyncedClockIsCaught
  <2> SUFFICES ASSUME BuilderInv, Built,
                      \/ clock.behind = 0 /\ clock.ahead > TeeDrandTolerance
                      \/ /\ clock.ahead = 0
                         /\ clock.behind > TeeDrandTolerance + Spread(last),
                      DrandWallTimeSecs(last.anchor) > TeeDrandTolerance
               PROVE  ~InternallyConsistent(last.anchor)
    BY DEF DesyncedClockIsCaught
  <2> DEFINE w == DrandWallTimeSecs(last.anchor)
             t == TeeWallTimeSecs(last.anchor)
             from == last.started
             to == last.ended
  <2>1. /\ from \in Nat /\ to \in Nat /\ from <= to
        /\ FirstSecond <= from
    BY BuilderTimes DEF BuilderInv, BuildOK
  <2>2. PICK d \in (from - CacheAge)..to :
           d \in Nat /\ w \in Nat /\ w <= d /\ d <= w + DrandPeriod - 1
    BY ShownChains
  <2>3. t \in Nat /\ t = Showing(to)
    BY ShownTee
  <2>4. Spread(last) = (to - from) + CacheAge + DrandPeriod - 1
    BY DEF Spread
  <2>5. w > TeeDrandTolerance
    OBVIOUS
  <2> HIDE DEF w, t
  <2>6. AbsDiff(t, w) > TeeDrandTolerance
    BY <2>1, <2>2, <2>3, <2>4, <2>5, BuilderTimes, ToleranceType
       DEF AbsDiff, Showing
  <2>7. AbsDiff(t, w) \in Nat
    BY <2>2, <2>3 DEF AbsDiff
  <2> QED BY <2>6, <2>7, ToleranceType DEF InternallyConsistent, TeeDrandConsistent, w, t
<1> QED BY <1>1, BuilderInvariant, PTL

-----------------------------------------------------------------------------
(* Builds that follow each other *)

\* Clocks that count periods from a common origin are as close as the seconds
\* they were read at.
LEMMA CloseCounts ==
    ASSUME NEW g \in Nat, NEW p \in Nat \ {0}, NEW k \in Nat,
           NEW m \in Nat, NEW n \in Nat, g <= m, g <= n,
           m <= n + k * p, n <= m + k * p
    PROVE  ~(AbsDiff((m - g) \div p, (n - g) \div p) > k)
<1> DEFINE x == m - g
           y == n - g
           s == k * p
<1>1. x \in Nat /\ y \in Nat /\ s \in Nat /\ x <= y + s /\ y <= x + s
  <2>1. s \in Nat
    OBVIOUS
  <2> HIDE DEF s
  <2> QED BY <2>1 DEF s
<1> HIDE DEF x, y
<1>2. \A i, j \in Nat : i <= j /\ j <= i + k * p =>
         /\ i \div p \in Nat /\ j \div p \in Nat
         /\ i \div p <= j \div p /\ j \div p <= i \div p + k
  BY QuotientsOfClose
<1>3. CASE x <= y
  BY <1>1, <1>2, <1>3 DEF AbsDiff, x, y
<1>4. CASE y <= x
  BY <1>1, <1>2, <1>4 DEF AbsDiff, x, y
<1> QED BY <1>1, <1>3, <1>4

\* The difference of two enclave timestamps, in whole seconds.
LEMMA CloseStamps ==
    ASSUME NEW p \in Nat \ {0}, NEW k \in Nat, NEW m \in Nat, NEW n \in Nat,
           m <= n, n <= m + k
    PROVE  ~(AbsDiff(p * m, p * n) \div p > k)
<1>1. PICK e \in Nat : n = m + e /\ e <= k
  <2>1. n - m \in Nat /\ n = m + (n - m) /\ n - m <= k
    OBVIOUS
  <2> QED BY <2>1
<1> DEFINE x == p * m
           y == e * p
<1>2. x \in Nat /\ y \in Nat /\ p * n = x + y
  BY <1>1
<1>3. y \div p = e
  BY <1>1, QuotientOfProduct
<1> HIDE DEF x, y
<1>4. AbsDiff(x, x + y) = y
  BY <1>2 DEF AbsDiff
<1> QED BY <1>1, <1>2, <1>3, <1>4 DEF x

\* Two builds one after the other agree on every axis, if the second ends soon
\* enough after the first began: the servers may answer both from any moment
\* in between, and the system clock is off for both alike (diverges_beyond).
THEOREM ConsecutiveBuildsAgree == Spec => CloseBuildsAgree
<1>1. BuilderInv /\ [Next]_vars =>
        [LET span == last'.ended - last.started + CacheAge IN
         (/\ Built /\ Built'
          /\ span <= BlockSkew * BlockPeriod /\ span <= DrandSkew * DrandPeriod
          /\ last'.ended - last.ended <= TeeSkewSecs)
         => ~DivergesBeyond(last.anchor, last'.anchor)]_last
  <2> DEFINE span == last'.ended - last.started + CacheAge
  <2> SUFFICES ASSUME BuilderInv, [Next]_vars, last' # last, Built, Built',
                      span <= BlockSkew * BlockPeriod,
                      span <= DrandSkew * DrandPeriod,
                      last'.ended - last.ended <= TeeSkewSecs
               PROVE  ~DivergesBeyond(last.anchor, last'.anchor)
    OBVIOUS
  <2>1. ReadClock
    <3>1. \A result \in ClientError : ~Returned(result, NoAnchor)
      BY ErrorIsNotBuilt
    <3>2. \A kind \in ClientError : ~TimedOut(kind) /\ ~Fails(kind)
      BY <3>1 DEF TimedOut, Fails
    <3> QED BY <3>2 DEF Next, vars, Tick, Build, Receive, DrandAnswers, BlockAnswers
  <2> DEFINE a == last.anchor
             b == last'.anchor
             from == last.started
             to == last.ended
  <2>2. /\ stage = "clock"
        /\ last'.started = started /\ last'.ended = now
        /\ b.block_height = block_height /\ b.drand_round = drand_round
        /\ b.tee_timestamp = NanosPerSec * Showing(now)
    <3>1. last' = [result |-> "Ok",
                   anchor |-> [block_height |-> block_height,
                               tee_timestamp |-> SystemTimeUnixNanos,
                               drand_round |-> drand_round],
                   started |-> started, ended |-> now]
      BY <2>1 DEF ReadClock, Returned
    <3>2. SystemTimeUnixNanos = NanosPerSec * Showing(now)
      BY DEF SystemTimeUnixNanos, Showing
    <3> QED BY <2>1, <3>1, <3>2 DEF ReadClock
  <2>3. /\ from \in Nat /\ to \in Nat /\ started \in Nat /\ now \in Nat
        /\ FirstSecond <= from /\ from <= to /\ to <= started /\ started <= now
    BY <2>2, BuilderTimes DEF BuilderInv, BuildOK
  <2>4. PICK d1, b1 \in (from - CacheAge)..to :
           a.drand_round = RoundAt(d1) /\ a.block_height = HeightAt(b1)
    BY DEF BuilderInv, BuildOK, Readings
  <2>5. PICK d2, b2 \in (started - CacheAge)..now :
           b.drand_round = RoundAt(d2) /\ b.block_height = HeightAt(b2)
    BY <2>2 DEF BuilderInv, Readings
  <2>6. /\ d1 \in Nat /\ b1 \in Nat /\ d2 \in Nat /\ b2 \in Nat
        /\ DrandGenesis <= d1 /\ DrandGenesis <= d2
        /\ BaseGenesis <= b1 /\ BaseGenesis <= b2
    BY <2>3, <2>4, <2>5, BuilderTimes
  <2>7. /\ d1 <= d2 + span /\ d2 <= d1 + span
        /\ b1 <= b2 + span /\ b2 <= b1 + span /\ span \in Int
    BY <2>2, <2>3, <2>4, <2>5, BuilderTimes
  <2> HIDE DEF span
  <2>8. ~(AbsDiff(a.drand_round, b.drand_round) > DrandSkew)
    <3>1. d1 <= d2 + DrandSkew * DrandPeriod /\ d2 <= d1 + DrandSkew * DrandPeriod
      <4>1. DrandSkew * DrandPeriod \in Nat
        BY AnchorAssumption
      <4> QED BY <2>6, <2>7, <4>1
    <3> QED BY <2>4, <2>5, <2>6, <3>1, AnchorAssumption, CloseCounts DEF RoundAt
  <2>9. ~(AbsDiff(a.block_height, b.block_height) > BlockSkew)
    <3>1. b1 <= b2 + BlockSkew * BlockPeriod /\ b2 <= b1 + BlockSkew * BlockPeriod
      <4>1. BlockSkew * BlockPeriod \in Nat
        BY AnchorAssumption
      <4> QED BY <2>6, <2>7, <4>1
    <3> QED BY <2>4, <2>5, <2>6, <3>1, AnchorAssumption, CloseCounts DEF HeightAt
  <2>10. ~(AbsDiff(a.tee_timestamp, b.tee_timestamp) \div NanosPerSec > TeeSkewSecs)
    <3>1. /\ Showing(to) \in Nat /\ Showing(now) \in Nat
          /\ Showing(to) <= Showing(now) /\ Showing(now) <= Showing(to) + TeeSkewSecs
      BY <2>2, <2>3, BuilderTimes, AnchorAssumption DEF Showing
    <3>2. a.tee_timestamp = NanosPerSec * Showing(to)
      BY DEF BuilderInv, BuildOK
    <3> QED BY <2>2, <3>1, <3>2, AnchorAssumption, CloseStamps
  <2> HIDE DEF a, b
  <2>11. ~DivergesBeyond(a, b)
    <3> DEFINE bd == AbsDiff(a.block_height, b.block_height)
               td == AbsDiff(a.tee_timestamp, b.tee_timestamp)
               dd == AbsDiff(a.drand_round, b.drand_round)
    <3>1. /\ SkewVs(a, b).block_delta = bd /\ SkewVs(a, b).tee_delta_ns = td
          /\ SkewVs(a, b).drand_delta = dd
      BY DEF SkewVs
    <3> QED BY <2>8, <2>9, <2>10, <3>1 DEF DivergesBeyond
  <2> QED BY <2>11 DEF a, b
<1> QED BY <1>1, BuilderInvariant, PTL DEF Spec, CloseBuildsAgree
=============================================================================

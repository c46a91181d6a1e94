--------------------------- MODULE AnchorBuilder ---------------------------
(***************************************************************************)
(* The builder of real anchors (src/clients): it asks a Drand mirror for   *)
(* the latest round, then an RPC node for the latest block, then reads the *)
(* system clock. The two fetches take time, and what they answer may be    *)
(* old already; a fetch fails when the server says something wrong, or     *)
(* nothing for too long. Only the silence between two reads is limited, so *)
(* that a server which trickles its answer is listened to for any time.    *)
(* The three readings of one anchor are therefore of three moments, and    *)
(* the system clock may be off besides.                                    *)
(***************************************************************************)
EXTENDS Anchor, Sequences

CONSTANTS
    Clocks,         \* by how much the system clock may be off
    CacheAge,       \* by how many seconds an answer of a server may be old
    ConnectTimeout, \* seconds the HTTP library waits for a connection
    Timeout,        \* timeout_secs: seconds a fetch then waits in each read
    FirstSecond, LastSecond, \* bounds: the time considered
    NoAnchor        \* nothing has been built yet

ASSUME BuilderAssumption ==
    /\ Clocks \subseteq [ahead : Nat, behind : Nat]
    /\ CacheAge \in Nat /\ ConnectTimeout \in Nat /\ Timeout \in Nat
    /\ FirstSecond \in Nat /\ LastSecond \in Nat /\ FirstSecond <= LastSecond
    /\ DrandGenesis + CacheAge <= FirstSecond
    /\ BaseGenesis + CacheAge <= FirstSecond

VARIABLES
    now,    \* the time, in Unix seconds
    clock,  \* by how much the system clock is off
    stage,  \* which of the three clocks build is reading, or "idle"
    heard,  \* when the current fetch began or last heard of its server
    connected, \* whether its connection stands
    parts,  \* history: how often this build has heard of a server
    drand_round, block_height, \* locals of build
    started, \* history: when this build began
    last    \* what the last build returned, and when it began and ended

vars == <<now, clock, stage, heard, connected, parts, drand_round, block_height,
          started, last>>

Init == /\ now = FirstSecond
        /\ clock \in Clocks
        /\ stage = "idle"
        /\ heard = 0 /\ connected = FALSE /\ parts = 0
        /\ drand_round = 0 /\ block_height = 0
        /\ started = 0
        /\ last = NoAnchor

-----------------------------------------------------------------------------
Fetching == stage \in {"drand", "block"}

\* Wrong form: the node's client is built without a read timeout.
PatienceMirrorOnly == IF ~connected THEN ConnectTimeout
                      ELSE IF stage = "drand" THEN Timeout
                      ELSE LastSecond

Patience == IF connected THEN Timeout ELSE ConnectTimeout

\* A fetch is given up when its patience is over, and no later.
Tick == /\ now < LastSecond
        /\ Fetching => now < heard + Patience
        /\ now' = now + 1
        /\ UNCHANGED <<clock, stage, heard, connected, parts, drand_round,
                       block_height, started, last>>

\* RealAnchorBuilder::build is called.
Build == /\ stage = "idle"
         /\ stage' = "drand"
         /\ started' = now /\ heard' = now
         /\ connected' = FALSE /\ parts' = 0
         /\ UNCHANGED <<now, clock, drand_round, block_height, last>>

\* The connection stands, or a read ends with a part of an answer. A read
\* starts its limit anew, and there is no limit on the number of reads. (Two
\* of the same second are taken as one.)
Receive == /\ Fetching
           /\ connected => now > heard
           /\ heard' = now /\ connected' = TRUE /\ parts' = parts + 1
           /\ UNCHANGED <<now, clock, stage, drand_round, block_height, started,
                          last>>

\* What a server answers was current in one of these seconds.
CurrentIn == (now - CacheAge) .. now

\* latest_round returns the last round emitted.
DrandAnswers ==
    /\ stage = "drand" /\ connected
    /\ \E s \in CurrentIn : drand_round' = ReadClocks(0, s, 0).drand_round
    /\ stage' = "block"
    /\ heard' = now /\ connected' = FALSE
    /\ UNCHANGED <<now, clock, parts, block_height, started, last>>

\* latest_block_number returns the last block.
BlockAnswers ==
    /\ stage = "block" /\ connected
    /\ \E s \in CurrentIn : block_height' = (s - BaseGenesis) \div BlockPeriod
    /\ stage' = "clock"
    /\ UNCHANGED <<now, clock, heard, connected, parts, drand_round, started, last>>

\* Its locals end with a build.
Returned(result, anchor) ==
    /\ stage' = "idle"
    /\ last' = [result |-> result, anchor |-> anchor, started |-> started,
                ended |-> now]
    /\ heard' = 0 /\ connected' = FALSE /\ parts' = 0
    /\ drand_round' = 0 /\ block_height' = 0 /\ started' = 0
    /\ UNCHANGED <<now, clock>>

\* Nothing was heard for too long: an error of the transport, or, in the midst
\* of a body, one that shows as a body that does not parse.
TimedOut(kind) ==
    /\ Fetching
    /\ now >= heard + Patience
    /\ kind \in IF connected THEN {"Http", "Parse"} ELSE {"Http"}
    /\ Returned(kind, NoAnchor)

\* The transport fails, the answer is no JSON of the expected form, or (of the
\* node) it reports an error, has no result or one that is not in hex.
Fails(kind) ==
    /\ Fetching
    /\ kind = "UnexpectedShape" => stage = "block"
    /\ ~connected => kind = "Http"
    /\ Returned(kind, NoAnchor)

\* Wrong form: the clock of the time the build began.
SystemTimeUnixNanosEarly ==
    LET showing == started + clock.ahead
    IN  NanosPerSec * (IF showing >= clock.behind THEN showing - clock.behind
                       ELSE 0)

\* system_time_unix_nanos: a clock before the epoch reads as the epoch.
SystemTimeUnixNanos ==
    LET showing == now + clock.ahead
    IN  NanosPerSec * (IF showing >= clock.behind THEN showing - clock.behind
                       ELSE 0)

ReadClock ==
    /\ stage = "clock"
    /\ Returned("Ok", [block_height |-> block_height,
                       tee_timestamp |-> SystemTimeUnixNanos,
                       drand_round |-> drand_round])

ClientError == {"Http", "Parse", "UnexpectedShape"}

Next == \/ Tick \/ Build \/ Receive \/ DrandAnswers \/ BlockAnswers
        \/ \E kind \in ClientError : TimedOut(kind) \/ Fails(kind)
        \/ ReadClock

Spec == Init /\ [][Next]_vars

-----------------------------------------------------------------------------
Built == last # NoAnchor /\ last.result = "Ok"

\* How far apart the readings of one build may be without anything being
\* wrong: the build's own time, an answer that was old, and the seconds since
\* the round began that the Drand clock does not show.
Spread(l) == (l.ended - l.started) + CacheAge + DrandPeriod - 1

\* A build that is quick enough for the tolerances, on a system clock that is
\* right enough, gives an anchor the gate finds consistent, although its three
\* clocks were read at three moments (RealAnchorBuilder::build against
\* TripleAnchor::internally_consistent).
PromptBuildIsConsistent ==
    (/\ Built
     /\ clock.ahead = 0 \/ clock.behind = 0
     /\ Spread(last) + clock.ahead <= TeeDrandTolerance
     /\ clock.behind <= TeeDrandTolerance
     /\ Spread(last) <= BlockTolerance
     /\ CacheAge + BlockPeriod - 1 <= BlockTolerance)
    => InternallyConsistent(last.anchor)

\* A system clock that is off by more than the tolerance never gives a
\* consistent anchor, whatever the fetches do: when it is ahead the wait adds
\* to the difference, and when it is behind it makes up for no more than the
\* spread of the readings (system_time_unix_nanos, internally_consistent).
DesyncedClockIsCaught ==
    (/\ Built
     /\ \/ clock.behind = 0 /\ clock.ahead > TeeDrandTolerance
        \/ clock.ahead = 0 /\ clock.behind > TeeDrandTolerance + Spread(last)
     /\ DrandWallTimeSecs(last.anchor) > TeeDrandTolerance)
    => ~InternallyConsistent(last.anchor)

\* Two builds one after the other never diverge, on any of the three axes, if
\* the second ends soon enough after the first began (diverges_beyond).
CloseBuildsAgree ==
    [][LET span == last'.ended - last.started + CacheAge IN
       (/\ Built /\ Built'
        /\ span <= BlockSkew * BlockPeriod /\ span <= DrandSkew * DrandPeriod
        /\ last'.ended - last.ended <= TeeSkewSecs)
       => ~DivergesBeyond(last.anchor, last'.anchor)]_last

\* Silence never holds a build: it has waited for its servers no longer than
\* one connect timeout for each fetch it has come to and one read timeout for
\* each time it heard of them. There is no bound without that number, as no
\* timeout is over a request as a whole (latest_round, latest_block_number).
Fetches == IF stage = "drand" THEN 1 ELSE 2
WaitIsBounded ==
    Fetching => now - started <= Fetches * ConnectTimeout + parts * Timeout
=============================================================================

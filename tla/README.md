# Verification of proof-of-context

`proof-of-context` lets a worker commit to the context it computed in (model,
inputs, configuration), under three clocks, and lets a gate decide at payment
time whether that context is *still* fresh. The crate keeps little state of its
own; what makes it hard is that every fact is produced at one moment, by one
party, and judged at another, by another. The modules here model those moments
and let every step of every party fall between any two others.

Source lines below are those of `src/src/`, or of `src/examples/` where a file
of that directory is named.

## 1. Inventory

| component | state | operations | hard behaviour | correct when |
|---|---|---|---|---|
| Triple anchor (`anchor.rs`) | none | wall times of the three clocks, tolerances, consistency, skew, divergence | quantised Drand rounds, drift, node lag, u64 sums | honest clocks are never called inconsistent |
| Anchor clients (`clients/`) | none | `build`: two fetches, then the system clock | time passes between the readings, old answers, silence, trickles | a quick build is consistent, silence ends a build |
| Thresholds (`freshness.rs`) | none | constants | | |
| Context root (`context.rs`) | none | `merkle_root` | fields of variable length without separators | different contexts have different roots |
| Commitment (`commitment.rs`, `mock.rs`) | none | `commit`, `signing_digest`, `verify` | damage in transit | what is judged is what was signed |
| Model registry, f_m (`model_registry.rs`) | adopted lineage | `present_lineage`, `model_epoch_distance` | snapshots in any order, publishers that sign several histories, repeated signatures | only a quorum adopts; no fork; no model looks newer than it is |
| Input oracle, f_i (`input_freshness.rs`) | witness per manifest root | `from_poc_blocks`, `present_witness`, `input_lag_blocks` | late and replaced evidence, horizons, sort ties | the reported lag bounds the age of every source |
| Oracle composition (`oracle.rs`) | both oracles | `SplitOracle` | the two move independently | |
| Settlement gate (`settle.rs`, `mock.rs`) | none | `verify_and_settle` | state read at settlement, not at commit; heights that run backwards | a clearance is backed by signed facts |
| Renewal (`renewal.rs`) | none | `evaluate` | computes the window a second time | agrees with the gate |
| Price oracle (`price_freshness.rs`) | last price per market | `present_price`, `price_age_secs` | later presentation wins, prices dated ahead | only signed prices |
| Dark pool gate (`darkpool.rs`) | none | `verify_party_contexts` | order of parties, hard abort against rejection | nobody is judged for another |
| Backing sets (`backing.rs`) | a set per pipeline output | `insert`, `union`, `to_boundary`, `gate` | merges over any graph of stages, clocks ahead | derivation never hides an age |
| Signed backing sets (`backing.rs`) | a signed set per stage | `sign`, `union`, `into_verified` | merge happens before verification | only issued evidence; losses are visible |
| Orchestrator (`multi_agent_orchestrator.rs`) | failure counters; per run: memory, receipts, anchor | `run`, retries with backoff, three agents | partial failure, counters that outlive a run, overflow, an anchor that is extrapolated | receipts account for each other; failures have a reason |
| Agent memory (`memory_freshness.rs`) | a fact and its live attestation | `attest`, `read` | sources drift and drift back, nodes lag | a load-bearing fact is true |
| Canonical JSON, errors, other examples | none | rendering, types, demonstrations | | not modelled |

How they interact: a worker's committer reads the three clocks (through the
clients, when built with `real-anchors`) and signs root, anchor and output.
Publishers sign lineage snapshots and operators sign input attestations; anyone
carries them to the two oracles. The gate verifies the commitment, checks the
disclosed root against it, and asks the anchor, the settlement window and the
two oracles, at the height of the call. A worker may ask the renewal policy in
between; a memory asks the same policy about the attestation of a fact. The
dark pool gate judges a list of parties, in seconds and with the price oracle.
Backing sets travel along pipelines of agents and are judged wherever an output
is used. An orchestrator commits to each step of a pipeline through the same
committer and context root.

## 2. Modules

| module | models | extends |
|---|---|---|
| `Oracle` | answers, `Unavailable`, what counts as stale; saturating and sorting helpers | |
| `Anchor` | `anchor.rs` | |
| `AnchorBuilder` | `clients/`: an anchor built over the network | `Anchor` |
| `ContextRoot` | `context.rs`: what `merkle_root` hashes | |
| `Commitment` | signing digest, commit, verify | `Anchor` |
| `Renewal` | `renewal.rs` | `Commitment` |
| `ModelRegistry` | the f_m oracle and the publishers | `Oracle` |
| `InputFreshness` | the f_i oracle | `Oracle`, `Anchor` |
| `Settlement` | the protocol: both oracles, commits, chain, gate, renewal | `ModelRegistry`, `InputFreshness`, `Renewal` |
| `SettlementContract` | abstract specification: the life of a commitment | |
| `DarkPool` | price oracle and multi-party gate | `Commitment`, `Oracle` |
| `BackingSets`, `BackingAge` | backing sets, and a pipeline of stages over them | `Oracle` |
| `SignedBacking` | signed sets, and a pipeline of stages over them | `BackingSets` |
| `Orchestrator` | the multi-agent orchestrator | `Commitment`, `ContextRoot` |
| `PipelineContract` | abstract specification: the receipts of a run | |
| `MemoryFreshness` | the agent memory | `Renewal` |
| `Arithmetic` | facts about naturals, with proofs | |
| `*Proofs` | theorems of the module of that name; `SettlementProofs` has those of both oracles too, `OrchestratorProofs` those of `ContextRoot` | |
| `MC*` | instances for TLC | |

An operator under a comment "Wrong form:" is not part of any specification. It
is a definition with one plausible mistake, kept next to the right one: replacing
the right one by it makes TLC report the property that is there to catch it.

### State and actions against the code

*ModelRegistry.* `lineage` is `QuorumModelOracle.lineage`; `signatures` is the
environment: what publishers have signed so far. `Sign` is a publisher,
`PresentLineage` the successful call of `present_lineage` (a call that fails
returns an error and changes nothing, so it is a stuttering step). The list of
signatures it is given may repeat entries and hold foreign ones; `DistinctValid`
is the set the loop collects. `ModelLineage` sorts by epoch, stably, as the
constructor does. A lineage may name a model any number of times; `PositionOf` is
its first place, as in `position_of`.

*InputFreshness.* `witnesses` is `by_root`. `PresentWitness` builds the witness
(`from_poc_blocks`: every attestation must verify, the first that does not
refuses the bundle) and files it. A signature is modelled by the message it was
made over; hashes by the value that is hashed. `InputLagBlocks` computes the age
with the stalest member and the horizon rule.

*Settlement.* `commits` is what each worker sent, as it reached the gate;
`verdict` and `renewal` hold the last answers; `block` is the height the gate's
node reports. `Settle` is the whole of `verify_and_settle`: errors before any
axis, then all four axes without an early return. `Renew` is
`WindowedRenewal::evaluate` against the canonical root of the moment. `Garble`
damages a commitment in transit; `Reorg` rolls the chain of the gate's node back,
and the time a worker reads at a height with it: how far clocks and heights may
be apart beyond that is what `MaxLag` and `Drifts` range over. Whether a worker
read its clocks within their bounds is said of its commitment (`ReadHonestly`),
so that one run has workers of both kinds. `Contract` maps the protocol to
`SettlementContract`: a commitment is open until its signed window is over, and
`Reopen`, which only a chain that rolls back has, opens it again.

*DarkPool.* `by_market` is the price oracle, `quotes` the `PartyContext` of each
agent, `outcome` the answer of the last call, only in the state right after it.
`PresentPrice` has no clock, as the code has none, so a price dated ahead is kept
like any other. The answer is an abort with the role to blame, or the verdicts of
the failing parties by their places in the list (`Verdicts`), each with the axes
it failed on; the order of the vector is that of the places, the order of the
axes of one party is the fixed one in which they are listed. `AcceptAndSettle`
takes every list of different parties, the empty one too.

*BackingAge, SignedBacking.* A backing set is a function from sources to an
entry or `NoEntry`. `merged` and `arrived` are history variables that record what
went into an output on any path; no action reads them except to extend them.

*AnchorBuilder.* `stage` is where `build` is: `Build` calls it, `DrandAnswers` and
`BlockAnswers` end the two fetches, `ReadClock` reads the system clock and returns
the anchor. What a server answers was current up to `CacheAge` seconds ago.
`Fails` is every error a fetch returns by itself, `TimedOut` the one it returns
when its server has been silent for too long. `Timeout` is `timeout_secs`, which
the code sets as the limit of a single read; `ConnectTimeout`, the limit before
a connection stands, is the HTTP library's own. `Receive` is a connection that
comes to stand or a read that got a part of an answer; it starts the limit anew
and may happen any number of times, so that a server which trickles its answer
holds a build for as long as it likes. `parts` counts these as history. `last` is the last result, with the times the build began and ended as
history. A round is taken to be emitted at genesis plus its number of periods, as
`anchor.rs` computes it.

*ContextRoot.* A context is a record of all the fields; `MerkleRoot` is the
sequence that is hashed. A cell stands for one byte or one number of fixed
width; a digest takes `HashLen` cells, an attention kernel one or two, a cache
root one or `1 + HashLen`, as in the code.

*Orchestrator.* `orchestrator` and `failure_count` are the fields of the
orchestrator and of its agents, the other variables the locals of `run` and
`run_agent_with_retry`. An action is one attempt of the agent at work with all
that happens before the next attempt: `Succeed` (the agent's write to memory,
the commitment, the next anchor), `Retry` (the failure counter and the backoff,
which may overflow), `GiveUp`, `Break` (a permanent failure), `NeverTried`
(no attempt allowed). `Seal` ends a run, `Run` starts the next one with the same
agents. `start_anchor` and `failures_before` are history variables. The program
is sequential; what is explored is every pipeline, retry limit and sequence of
runs.

*MemoryFreshness.* `entry` is the memory entry, `contents` what the sources hold.
`Attest`
is `attest`, called again and again, over any declared subset of the sources and
under any height a verifier's node may report; the sources it is given are the
slice of the caller, as they are. The fact is a text of the caller's; the model's
caller writes what the relevant sources say (`Fact`, external). `read` changes
nothing and is the operator `Read`, asked in every state for every height a
reader's node may report. `held` and `entry.snapshot` are history, no operator of
the code reads them.

### Abstractions

Hashes are injective; signatures cannot be produced for messages that were not
signed, and are represented by key and message. Text formats, rendering and
error wording are left out. `Settlement` keeps of an execution context the two
fields the gate reads; that a root determines all of them is proved of
`ContextRoot`. Timestamps are the Unix seconds the parser yields. Sums of the
anchor are modulo 2^64 and products saturate, with the width as a parameter.

## 3. Runs

| run | configuration | shows |
|---|---|---|
| `registry` | 4 publishers (1 signs diverging histories), an unregistered key, 3 snapshots: a start, an extension that returns to its model, a fork listed out of order; quorum 3 | adoption is endorsed, no fork, a distance never makes a model look newer than it is |
| `inputs` | bundles of up to 2 of 4 good attestations, an undated one, two that tie in the sort, 4 kinds of bad ones at each place; heights to 14 | what is filed is verified; lag bounds every source; root independent of order unless two sources tie |
| `settlement` | 1 commitment, 1 publisher, a lineage and its extension by a return, 2 bundles, drift inside and outside the tolerance, damage, rollbacks of 1, a node 1 apart, renewals | clearances are backed; time and bumps only take freshness away; honest clocks never blamed; closed windows stay closed; the contract is implemented; every commitment is refused from some height on |
| `darkpool` | 2 agents, 2 markets, 7 prices (good dates, foreign operator, unsigned, altered date, relabelled market), each presented before or after its date, quotes that are right or wrong in one respect, 3 seconds | a clearance is backed by what was signed; each party is judged as it would be alone, in any order; waiting never helps |
| `backing` | 2 outputs feeding each other, 2 sources, clocks up to 1 s ahead | no derivation hides an age |
| `signed_backing` | trusted and untrusted validator, 2 stages, restamping in transit, 3 issued entries | only issued entries are verified; no loss without a rejected entry |
| `anchor_builder` | Drand rounds of 4 s, blocks of 2 s, fetches that are given up after 2 s of silence and trickle on otherwise, answers 1 s old, a system clock that is right, off within, at, just beyond and far beyond the tolerance | quick builds are consistent; a clock that is off is noticed; close builds do not diverge; a build waits no longer than what it heard accounts for |
| `orchestrator` | 9 pipelines (in order, out of order, an agent twice, empty, up to 8 failures, a dead oracle), 0 to 9 attempts, 2 tasks, 2 start anchors | receipts account for each other, differ and stay consistent while there is room; failures have a reason; the contract is implemented; persistence completes |
| `memory` | 2 sources of 2 contents, a fact on both, any declared source set, window 1, 6 heights, nodes 1 apart | load-bearing facts are true; what is served at all is recent |

Bounds. `MaxSigs`, `MaxBlock`, `MaxNow`, `LastCommit`, `MaxReorg`, `MaxLag`,
`MaxIssued` and `FirstSecond`/`LastSecond` bound what grows. They are
enough for the cases named: the snapshot lists are one longer than a quorum
needs duplicates for, the heights go beyond every window, horizon and tolerance
(window 1, last commit 1 by a node 1 ahead, a third epoch at height 3 and heights
to 4 in `settlement`; horizons of 5 to 40 s at 2 s a block, heights to 14 in
`inputs`; window 1 and lags of 1, heights to 5 in `memory`), and the seconds of
the pools beyond every age limit. `anchor_builder` has 12 s for its builds,
against tolerances of 7 and 8, and nothing else ends one that trickles; two of the
quick ones fit one after the other. In `orchestrator` a u64
has 7 bits, so that 9 attempts reach the overflow of the backoff, with a base of
0 and of 2; one start anchor has room for every step, the other has not.
Protocol state per commitment is independent of the others (no action of one
reads another), so the instances use one; the proofs are for any number. The
registry uses a quorum of 3 of 4 with one faulty publisher, the smallest
committee whose quorums must overlap in an honest one; in `settlement` one
publisher stands for a quorum.

Symmetry is over publishers, agents, outputs or stages that the configuration treats
alike, and only in runs of safety properties. Deadlock is checked except in two
runs: in `orchestrator` a panic ends the program, and in `anchor_builder` time
ends at `LastSecond`.

Fairness. `settlement` runs `FairSpec`, which assumes weak fairness of `Grow`
alone: the chain keeps producing blocks. `EventuallyRefused` has the end of
rollbacks as a premise. `orchestrator` assumes that a run that was called goes on
(`WF(RunStep)`): it is a loop that waits for nothing but its own sleeps; nobody
has to call it, and `PersistenceCompletes` has the caller that does as a premise.
No other run assumes any.

The conditions of properties are met in the runs: the quick builds, the
desynchronised clocks, the anchors with room, the prices dated ahead, the lineages
that return to a model, the pipelines that can complete and the twins of the sort
all occur, and each property has a wrong form that TLC reports under the same
configuration.

### Runs that end in a counterexample

Each one checks what a comment or a document says, and TLC shows what the code
does instead.

| run | statement | what happens |
|---|---|---|
| `unsigned_anchor` | "the signed block anchor" (`input_freshness.rs:145`) | the anchor is not part of the signed message |
| `current_model` | distance 0 means "the committed model is current" (`oracle.rs:30`), the distance is counted "between used model and current" (`freshness.rs:51`) | `position_of` (`model_registry.rs:89`) takes the first place of a model, so one that is canonical again is two bumps from itself and stale under the default limit of 1 |
| `prospective` | a bump does not invalidate what was committed before (`renewal.rs:3`) | two bumps in one window, and the gate rejects for the model what the policy protects |

More disagreements are plain from the code; passing runs hold the condition under
which the statement is true, where there is one:

- `input_freshness.rs:202` calls the manifest root independent of presentation
  order; the sort key leaves out the source and the sort is stable, so sources
  that serve the same payload under one endpoint keep their order.
  `RootIndependentOfOrder` holds but for such twins.
- `renewal.rs:30` calls an expired window final; the outcome is also returned to
  a worker whose node is ahead of the policy's (76), and the gate clears the
  commitment one block later. `ClosedWindowStaysClosed` is therefore about
  answers at or after the signed height.
- `renewal.rs:23` says of StillValid "Worker may continue toward settlement";
  it is returned for an unchanged root before the window is looked at (69), and
  the gate refuses the commitment for its window.
- `darkpool.rs:91` says every party's quote used fresh context; the age measured
  is that of the market's last price (`price_freshness.rs:91`), not of the one the
  quote was made from. `TradeIsBacked` says what is left: some price of that very
  market, signed by the operator, is recent.
- `clients/drand.rs:67` and `clients/block.rs:47` offer to "Override the request
  timeout"; what is set is the limit of each read (`drand.rs:98`, `block.rs:84`), and
  no limit is over a request. `WaitIsBounded` says what does bound a build.
- `oracle.rs:30`, beside the run `current_model`: the distance of a model the
  lineage names twice is wrong in one direction only. `DistanceNeverFlatters` says
  that a model never looks newer than at any of its places, and exactly as new as
  it is when it has one; `TimeNeverFreshens` is about models with one place.
- `backing.rs:504` says union is commutative; with equal times and different
  classes of one source the left operand's entry is kept (127). The time is the
  same either way, the limit `gate` applies is not. `FreshMeansAllFresh` and
  `StaysStale` assume that the entries of a source agree on its class.
- `anchor.rs:43` calls an anchor the three clocks "at the moment the worker
  signed"; the orchestrator extrapolates block and enclave clock by a block and
  two seconds a step and leaves the Drand round (`multi_agent_orchestrator.rs:399`).
  `ReceiptsStayConsistent` says for how long that is noticed by nobody: with the
  code's tolerance of 35 s and rounds of 30 s a start anchor may have as little as
  6 s, three steps, of room.
- `multi_agent_orchestrator.rs:474` says a step root identifies "the inputs that
  drove its output"; what an agent read from memory is not in it.
  `OutputsAreAccountedFor` shows that the earlier receipts of the run determine it.
- `clients/mod.rs:110` files a hex parsing failure under `UnexpectedShape`;
  `clients/block.rs:115` returns `Parse`.

## 4. Proofs

All theorems hold for every value of the constants that satisfies the named
assumptions. These say no more than what types the code's values have, that
quantities of time are positive where the code divides by them, that the Drand
network is older than the chain, that the first second a builder works in is not
after the last, that clocks handed to an orchestrator have room for its agents,
and that placeholder values are distinct. Some theorems have a premise of their
own, named in their statements:

| premise | meaning | theorems |
|---|---|---|
| `NoClockWraps`, `NoBuildWraps` | no sum of an anchor's times reaches the end of u64 | `HonestWorkersAreSafe`; `PromptBuildsPass`, `DesyncedClocksAreCaught` |

The runs satisfy the premise of each property they check. This one cannot be
dropped: a wrapped sum makes sound clocks look apart.

### The oracles and the gate: *SettlementProofs*

*Sorting.* `StableSort` numbers places by counting what precedes them. Where that
is a strict total order of the places (`Orders`), the numbers are pairwise
different, and so they reach every place (`RanksReachAll`, by finite injections).
From this follow that a lineage is a sequence of the epochs of its draft
(`LineageIsSorted`, `LineageType`).

*Model oracle.* Inductive invariant `RegistryInv`: types, every adopted lineage is
endorsed, i.e. enough distinct registered publishers signed it, and publishers
that are not faulty signed one history only. It is inductive because signatures
are never withdrawn and because `DistinctValid` is a subset of the signers
whatever the list. `DistanceIsCautious` follows from the types: the distance is
counted from the first place (`DistanceFromFirst`), hence never too short for a
later one. `QuorumIntersection` (by cardinalities) gives a non-faulty
publisher in two quorums; hence `RegistryNeverForks`, although the code compares
the new lineage with the old one nowhere.

*Input oracle.* Inductive invariant `OracleInv`: everything filed under a root is
a bundle every member of which verified and whose manifest root is that root.
`OracleLagIsSound` follows from it and from the arithmetic of the stalest member.
`RootIgnoresOrder`: bundles with equal bags have equally many members of any kind
(`CountsAgree`). If one manifest listed at some place what comes strictly before
the other's entry there, everything up to the place in the one would come before
the place in the other, which is one too many (`NothingComesEarlier`).

*Gate.* Inductive invariant `SettlementInv`: types, the invariants of both
oracles, and `ClearedIsBacked`. The oracle invariants are needed because the gate
trusts what the oracles hold: a clearance is a fact about the adopted lineage and
the filed witness, and only those invariants turn it into one about signatures.
`Backed` quantifies over signed facts, which never go away, so a clearance stays
backed when the oracles move on (`BackingPersists`). On it build:

- `HonestWorkersAreSafe`: `HonestAnchor` bounds the distance of what honest clocks
  show (a round is at most a period old, a node at most `MaxLag` blocks off).
  `BlamedInv`: whoever is blamed signed an anchor that is inconsistent, because the
  gate looks at an anchor only if it is the signed one.
- `ClosedStaysClosed`: whoever was told at or above the signed height was told past
  the window's end (`ClosedInv`), and the gate clears at no such height, wherever
  the chain has been in between.
- `StaleStaysStale` (`TimeNeverFreshens`), axis by axis: a prefix fixes the only
  position of a model and a longer lineage at a later block is at least as far
  (`ModelStaysStale`); a witness that is usable later was usable before, with the
  same stalest block (`InputStaysStale`).
- `ImplementsTheContract`: the refinement of `SettlementContract`, action by
  action. A step of the environment ends the life of the commitments whose window
  it passes, a rollback reopens those it goes back before the end of, a commit is a
  `Submit`, damage on the way changes no life because it
  leaves what was signed alone, and a judgement that clears does so inside the
  signed window, by `ClearIsBacked`.
- `OraclesInTheProtocol`: the protocol's steps are steps or stutters of each
  oracle, so what is proved of the oracles alone holds in it.

### The dark pool: *DarkPoolProofs*

`NobodyPaysForAnother` is a fact about the gate's function: the integrity stage
names the first broken party, the window stage lists exactly the parties that
fail alone, so each verdict is compared with the verdicts on negotiations of one
(`JudgedOnOwnMerits`). Inductive invariant `DarkPoolInv`: types,
`PricesAreSigned` (what is kept for a market was signed for it by the pinned
operator), and that the last answer is what the gate says of the parties at the
time it was given, with the quotes and prices as they still are; every step that
could change them withdraws the answer. `TradesAreBacked` reads the rest out of a
clearance (`WhenItClears`); `WaitingNeverClears` shows of every ground for a
refusal that it stays, an age in particular, which never falls when the clock
moves on because the difference saturates.

### The anchor builder: *AnchorBuilderProofs*

Inductive invariant `BuilderInv`: what a build holds at each stage was read from
the servers between its start and now, at most `CacheAge` earlier, the round not
after the height but for a cached answer (`Readings`); a finished build keeps this
with the second its system clock was read in. `PromptBuildsPass` and
`DesyncedClocksAreCaught` bound the distances of the three wall times, rounded down
to a round and to a block, by the spread of the readings. `ConsecutiveBuildsAgree`
needs `last.ended <= started` besides and that quotients of close numbers are close
(`QuotientsOfClose`). `WaitsAreBounded` has an invariant of its own, `WaitInv`:
the moment the current patience ends is accounted for already, because each step
that moves it on counts a part or comes to the next fetch.

### The memory: *MemoryFreshnessProofs*

Inductive invariant `MemoryInv`: sources hold now what they hold now; an entry's
attestation is over the root of its snapshot under a height its verifier's node
may have reported, and of each source the snapshot has a content that was held at
the time.
`RootTellsContents`: equal roots have equal contents, hence
`LoadBearingFactsAreTrue`; the dates of the contents give `ServedFactsRestOnRecent`.

### Backing sets: *BackingAgeProofs*, *SignedBackingProofs*

*BackingAgeProofs.* Inductive invariant: types, and what an output carries for a
source is the oldest (`OldestOf`) of all the entries for that source that ever
went into the output. `KeepOldest`, the lemma about one source, is what makes
insertion order and the shape of the pipeline irrelevant. The properties of the
run follow from it. That a greatest age exists needs no finiteness of the
sources: ages do not exceed the clock.

*SignedBackingProofs.* Inductive invariant: issued entries are internally
consistent, and whatever a stage carries has the key and signature of an issued
entry, though perhaps not its time. A verified entry's signature covers its own
time and class, and equals an issued one's, so the two entries are equal. For
`LossesShow` the invariant is joined by `Covers`: what is carried for a source is
at least as old as all that arrived for it, so that a source without a verified
entry has an untrusted one, which is counted.

### Contexts and the orchestrator: *OrchestratorProofs*

`RootBindsContext`: the root determines the context. Two encodings that are equal
are read from the left: each field is a prefix code (fixed length, or its first
cell tells its length), so equal concatenations have equal first fields and equal
rests (`ReadsFromTheLeft`). TLC evaluates the statement on a set of contexts
(`RootsDiffer`, in `MCOrchestrator`).

The orchestrator's properties are not inductive by themselves: outputs come from
memory and failures from counters. The inductive invariant adds that the memory
holds, under the key of each kind of agent, the output of the last receipt of
that kind and nothing else (`Remembers`), that the agent at work has failed once
per attempt but the current one and those after it not yet in this run
(`Counting`), that the anchors are `k` steps after the start (`Timing`), and that
each key holds values of the kind its reader expects (`Shape`).
`ReceiptsAreDistinct` and `ReceiptsStayConsistent` follow from `Timing`; the
refinement of `PipelineContract` is proved action by action from the types.

### What the proofs share, and what is left to TLC

*Arithmetic* holds the facts about naturals these proofs share: quotients and
remainders, least and greatest elements.

Every invariant and every action property of a run that passes, and both
refinements, are stated by a theorem. Only model-checked are the two liveness
properties, `EventuallyRefused` and `PersistenceCompletes`: fairness and ENABLED are out of reach of the installed
backends. No operator the theorems rest on is recursive, so nothing is left to
induction over data.

## 5. Not modelled

- The rendering of canonical JSON (`canonical.rs`): used through what it is for,
  that a message determines the value it was built from.
- The mock oracle (`MockCanonicalStateOracle`): a constant table for tests; the
  protocol is modelled with the two real oracles.
- Error types and the crate root: declarations. An error is the outcome of the
  operation that returns it.
- The other examples (`measure_costs.rs`, `gen_test_vectors.rs`, `sketch.rs`,
  `staleness_laundering.rs`, `eigencompute_freshness_receipt.rs`): straight-line
  demonstrations on fixed values. The pipelines of `staleness_laundering.rs` are
  among those of `backing`.
- `DrandHttpClient::info`, which nothing calls; `max_fc_blocks`, which nothing
  reads; `Observer`, which prints.
- Payment and the record of what was paid are the caller's. The memory's reader
  does not verify the attestation nor compare the fact with its hash; a store
  that was tampered with is outside of the model, as is a verifier that leaves a
  relevant source out (the properties name that condition).

## 6. Plan

What is left: the two liveness properties have proved safety cores
(`ImplementsTheContract` for `EventuallyRefused`, `FailuresExplained` for
`PersistenceCompletes`); a further step would be to prove the state each of them
must reach to be stable, so that only fairness is left to TLC.

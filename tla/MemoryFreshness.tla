-------------------------- MODULE MemoryFreshness --------------------------
(***************************************************************************)
(* Agent memory (examples/memory_freshness.rs): a fact derived from sources *)
(* that drift, attested against the root of its source set and served with *)
(* the verdict of the renewal policy. The fact stays; its attestation is   *)
(* renewed against the sources as they are then. A read changes nothing:   *)
(* it is the operator Read, asked at every state and for every height a    *)
(* reader's node may report.                                               *)
(***************************************************************************)
EXTENDS Renewal, FiniteSets

CONSTANTS
    Sources,  \* what facts may be derived from
    Contents, \* what a source may hold
    Relevant, \* the sources the fact does depend on
    MaxBlock, \* bound: the last height of the chain
    MaxLag,   \* how far a node may be behind or ahead
    Never,    \* a source has not held a content yet
    NoEntry

ASSUME MemoryAssumption ==
    /\ Relevant \subseteq Sources
    /\ MaxBlock \in Nat /\ MaxLag \in Nat
    /\ Never \notin Nat

VARIABLES
    contents, \* environment: what each source holds
    block,    \* the height of the chain
    held,     \* history: the last height at which a source held a content
    entry     \* the memory entry: a fact and its live attestation (snapshot,
              \* the contents it was attested against, is history)

vars == <<contents, block, held, entry>>

-----------------------------------------------------------------------------
\* Wrong form: a root without the ids.
SourceSetRootUnnamed(sources, snapshot) == {snapshot[s] : s \in sources}

\* source_set_root: the pairs of id and content hash, sorted by id; the order
\* the sources are listed in does not matter.
SourceSetRoot(sources, snapshot) == {<<s, snapshot[s]>> : s \in sources}

\* The fact a verifier writes down: attest takes any text, a verifier at work
\* takes one that the relevant sources determine.
Fact(snapshot) == [s \in Relevant |-> snapshot[s]]

\* attest: the anchor of a verification is a height; its other clocks are 0.
Attested(sources, snapshot, at) ==
    Committed(SourceSetRoot(sources, snapshot),
              [block_height |-> at, tee_timestamp |-> 0, drand_round |-> 0],
              Fact(snapshot), "MockSoftware")

\* read: the verdict a reader gets at height b.
Read(b) == Evaluate(entry.attestation, SourceSetRoot(entry.sources, contents), b)

\* What a node may report, of which verifiers and readers each have their own.
Heights == {b \in 0..block + MaxLag : block <= b + MaxLag}

-----------------------------------------------------------------------------
\* Environment: a source is edited; the chain grows.
Drift(s, content) ==
    /\ content # contents[s]
    /\ contents' = [contents EXCEPT ![s] = content]
    /\ held' = [held EXCEPT ![s][content] = block]
    /\ UNCHANGED <<block, entry>>

Grow == /\ block < MaxBlock
        /\ block' = block + 1
        /\ held' = [s \in Sources |-> [held[s] EXCEPT ![contents[s]] = block + 1]]
        /\ UNCHANGED <<contents, entry>>

\* The fact is attested, or attested again, against the declared sources as
\* they are, under the height the verifier's node reports. The attestation is
\* over sources and height as the caller gives them; nothing is compared with
\* the attestation it replaces.
Attest(sources, at) ==
    /\ entry' = [attestation |-> Attested(sources, contents, at),
                 fact |-> Fact(contents),
                 sources |-> sources,
                 snapshot |-> contents]
    /\ UNCHANGED <<contents, block, held>>

Init == /\ contents \in [Sources -> Contents]
        /\ block = 0
        /\ held = [s \in Sources |-> [c \in Contents |->
                                         IF c = contents[s] THEN 0 ELSE Never]]
        /\ entry = NoEntry

Next == \/ \E s \in Sources, content \in Contents : Drift(s, content)
        \/ Grow
        \/ \E sources \in SUBSET Sources, at \in Heights : Attest(sources, at)

Spec == Init /\ [][Next]_vars

-----------------------------------------------------------------------------
\* A fact that is served as load-bearing holds of the sources as they are,
\* however they drifted, back and forth, since it was attested: as long as the
\* verifier declared every source the fact depends on, a root that is still
\* current vouches for the fact, at any age (source_set_root, read).
LoadBearingIsTrue ==
    (entry # NoEntry /\ Relevant \subseteq entry.sources) =>
        \A b \in Heights : Read(b) = "StillValid" => entry.fact = Fact(contents)

\* A fact that is served at all, flagged or not, rests on contents each source
\* still held recently: within the window and the lags of two nodes, the one
\* that gave the height of the attestation and the reader's (attest under a
\* height of the caller's; read).
ServedFactsAreRecent ==
    entry # NoEntry =>
        \A b \in Heights, s \in entry.sources :
            Read(b) # "ExpiredRequireRecommit" =>
                /\ held[s][entry.snapshot[s]] # Never
                /\ block - held[s][entry.snapshot[s]] <= MaxFsBlocks + 2 * MaxLag
=============================================================================

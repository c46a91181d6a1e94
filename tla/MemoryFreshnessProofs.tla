----------------------- MODULE MemoryFreshnessProofs -----------------------
(***************************************************************************)
(* Agent memory: what a reader may rely on when it is told that a fact is  *)
(* load-bearing, and how old the ground of any fact it is served may be.   *)
(* The sources may drift at any time and go back to what they held.        *)
(***************************************************************************)
EXTENDS MemoryFreshness, Arithmetic

-----------------------------------------------------------------------------
(* Source set roots *)

\* Two snapshots with one root agree on every source of the set.
LEMMA RootTellsContents ==
    ASSUME NEW S, NEW f, NEW g, SourceSetRoot(S, f) = SourceSetRoot(S, g),
           NEW s \in S
    PROVE  f[s] = g[s]
<1>1. <<s, f[s]>> \in SourceSetRoot(S, g)
  BY DEF SourceSetRoot
<1>2. PICK t \in S : <<s, f[s]>> = <<t, g[t]>>
  BY <1>1 DEF SourceSetRoot
<1> QED BY <1>2

-----------------------------------------------------------------------------
(* Attestations and what they leave *)

\* What was read by height b, give or take the lag of a node: of every source
\* of the set a content it held then or later.
EntryOK(e) ==
    /\ e.sources \subseteq Sources
    /\ e.snapshot \in [Sources -> Contents]
    /\ e.fact = Fact(e.snapshot)
    /\ \E at \in Nat :
          /\ e.attestation = Attested(e.sources, e.snapshot, at)
          /\ \A s \in Sources : /\ held[s][e.snapshot[s]] \in 0..block
                                /\ at <= held[s][e.snapshot[s]] + MaxLag

MemoryInv ==
    /\ block \in Nat
    /\ contents \in [Sources -> Contents]
    /\ held \in [Sources -> [Contents -> Nat \cup {Never}]]
    /\ \A s \in Sources : held[s][contents[s]] = block
    /\ entry # NoEntry => EntryOK(entry)

\* At first nothing was attested.
LEMMA MemoryInvInit == Init => MemoryInv
BY DEF Init, MemoryInv

\* The heights at which contents were held only move on.
HeldMovesOn ==
    /\ block <= block' /\ block' \in Nat
    /\ \A s \in Sources, c \in Contents :
          held[s][c] \in 0..block => held'[s][c] \in held[s][c]..block'

\* Steps of the environment keep what was attested in order.
LEMMA EntryPersists ==
    ASSUME MemoryInv, HeldMovesOn, UNCHANGED entry, entry # NoEntry
    PROVE  EntryOK(entry)'
<1>1. EntryOK(entry)
  BY DEF MemoryInv
<1>2. PICK at \in Nat :
         /\ entry.attestation = Attested(entry.sources, entry.snapshot, at)
         /\ \A s \in Sources : /\ held[s][entry.snapshot[s]] \in 0..block
                               /\ at <= held[s][entry.snapshot[s]] + MaxLag
  BY <1>1 DEF EntryOK
<1>3. ASSUME NEW s \in Sources
      PROVE  /\ held'[s][entry.snapshot[s]] \in 0..block'
             /\ at <= held'[s][entry.snapshot[s]] + MaxLag
  <2>1. entry.snapshot[s] \in Contents
    BY <1>1 DEF EntryOK
  <2>2. held'[s][entry.snapshot[s]] \in held[s][entry.snapshot[s]]..block'
    BY <1>2, <2>1 DEF HeldMovesOn
  <2> QED BY <1>2, <2>2, MemoryAssumption DEF HeldMovesOn, MemoryInv
<1> QED BY <1>1, <1>2, <1>3 DEF EntryOK

\* Every step of the sources, the chain and a verifier keeps the invariant.
LEMMA MemoryInvStep == MemoryInv /\ [Next]_vars => MemoryInv'
<1> SUFFICES ASSUME MemoryInv, [Next]_vars
             PROVE  MemoryInv'
  OBVIOUS
<1> USE DEF MemoryInv
<1>1. ASSUME NEW s \in Sources, NEW content \in Contents, Drift(s, content)
      PROVE  MemoryInv'
  <2>1. /\ UNCHANGED <<block, entry>>
        /\ contents' = [contents EXCEPT ![s] = content]
        /\ held' = [held EXCEPT ![s] = [held[s] EXCEPT ![content] = block]]
    BY <1>1 DEF Drift
  <2>2. \A t \in Sources, c \in Contents :
           held'[t][c] = IF t = s /\ c = content THEN block ELSE held[t][c]
    BY <2>1
  <2>3. contents' \in [Sources -> Contents]
    BY <2>1
  <2>4. held' \in [Sources -> [Contents -> Nat \cup {Never}]]
    BY <2>1
  <2>5. \A t \in Sources : held'[t][contents'[t]] = block'
    BY <2>1, <2>2, <2>3
  <2>6. HeldMovesOn
    BY <2>1, <2>2 DEF HeldMovesOn
  <2> QED BY <2>1, <2>3, <2>4, <2>5, <2>6, EntryPersists
<1>2. CASE Grow
  <2>1. /\ UNCHANGED <<contents, entry>> /\ block' = block + 1
        /\ held' = [s \in Sources |->
                      [held[s] EXCEPT ![contents[s]] = block + 1]]
    BY <1>2 DEF Grow
  <2>2. \A t \in Sources, c \in Contents :
           held'[t][c] = IF c = contents[t] THEN block + 1 ELSE held[t][c]
    BY <2>1
  <2>3. held' \in [Sources -> [Contents -> Nat \cup {Never}]]
    BY <2>1
  <2>4. HeldMovesOn
    BY <2>1, <2>2 DEF HeldMovesOn
  <2> QED BY <2>1, <2>2, <2>3, <2>4, EntryPersists
<1>3. ASSUME NEW sources \in SUBSET Sources, NEW at \in Heights,
             Attest(sources, at)
      PROVE  MemoryInv'
  <2> DEFINE e == [attestation |-> Attested(sources, contents, at),
                   fact |-> Fact(contents),
                   sources |-> sources,
                   snapshot |-> contents]
  <2>1. UNCHANGED <<contents, block, held>> /\ entry' = e
    BY <1>3 DEF Attest
  <2>2. at \in Nat /\ at <= block + MaxLag
    BY MemoryAssumption DEF Heights
  <2>3. EntryOK(e)
    BY <2>2 DEF EntryOK
  <2> HIDE DEF e
  <2> QED BY <2>1, <2>3 DEF EntryOK
<1>4. CASE UNCHANGED vars
  BY <1>4 DEF vars, EntryOK
<1> QED BY <1>1, <1>2, <1>3, <1>4 DEF Next

\* The memory keeps its invariant in every behaviour.
THEOREM MemoryInvariant == Spec => []MemoryInv
BY MemoryInvInit, MemoryInvStep, PTL DEF Spec

-----------------------------------------------------------------------------
(* What a reader may rely on *)

\* A reader is told that an entry is load-bearing when each of its sources
\* holds what was read of it.
LEMMA StillValidMeansUnchanged ==
    ASSUME MemoryInv, entry # NoEntry, NEW b, Read(b) = "StillValid"
    PROVE  \A s \in entry.sources : entry.snapshot[s] = contents[s]
<1>1. entry.attestation.context_root = SourceSetRoot(entry.sources, contents)
  BY DEF Read, Evaluate
<1>2. entry.attestation.context_root = SourceSetRoot(entry.sources, entry.snapshot)
  <2>1. PICK at : entry.attestation = Attested(entry.sources, entry.snapshot, at)
    BY DEF MemoryInv, EntryOK
  <2>2. Attested(entry.sources, entry.snapshot, at).context_root =
           SourceSetRoot(entry.sources, entry.snapshot)
    BY DEF Attested, Committed
  <2> QED BY <2>1, <2>2
<1>3. SourceSetRoot(entry.sources, entry.snapshot) =
         SourceSetRoot(entry.sources, contents)
  BY <1>1, <1>2
<1>4. \A S, f, g : SourceSetRoot(S, f) = SourceSetRoot(S, g) =>
                      \A s \in S : f[s] = g[s]
  BY RootTellsContents
<1> QED BY <1>3, <1>4

\* A fact that is served as load-bearing is true of the sources as they are,
\* whatever drifted since it was attested, if the verifier declared all the
\* sources it depends on (source_set_root, read).
THEOREM LoadBearingFactsAreTrue == Spec => []LoadBearingIsTrue
<1>1. MemoryInv => LoadBearingIsTrue
  <2> SUFFICES ASSUME MemoryInv, entry # NoEntry, Relevant \subseteq entry.sources,
                      NEW b \in Heights, Read(b) = "StillValid"
               PROVE  entry.fact = Fact(contents)
    BY DEF LoadBearingIsTrue
  <2>1. \A s \in Relevant : entry.snapshot[s] = contents[s]
    BY StillValidMeansUnchanged
  <2>2. entry.fact = Fact(entry.snapshot)
    BY DEF MemoryInv, EntryOK
  <2> QED BY <2>1, <2>2 DEF Fact
<1> QED BY <1>1, MemoryInvariant, PTL

\* The ground of a fact that is served at all, flagged or not, was true no
\* longer ago than the window and the lags of the two nodes add up to (attest
\* under a height of the caller's; read).
THEOREM ServedFactsRestOnRecent == Spec => []ServedFactsAreRecent
<1>1. MemoryInv => ServedFactsAreRecent
  <2> SUFFICES ASSUME MemoryInv, entry # NoEntry,
                      NEW b \in Heights, NEW s \in entry.sources,
                      Read(b) # "ExpiredRequireRecommit"
               PROVE  /\ held[s][entry.snapshot[s]] # Never
                      /\ block - held[s][entry.snapshot[s]] <=
                            MaxFsBlocks + 2 * MaxLag
    BY DEF ServedFactsAreRecent
  <2> DEFINE h == held[s][entry.snapshot[s]]
             signed == entry.attestation.anchor.block_height
  <2>1. EntryOK(entry) /\ s \in Sources
    BY DEF MemoryInv, EntryOK
  <2>2. /\ block \in Nat /\ MaxFsBlocks \in Nat /\ MaxLag \in Nat
        /\ b \in Nat /\ block <= b + MaxLag
    BY MemoryAssumption, RenewalAssumption DEF MemoryInv, Heights
  <2>3. signed \in Nat /\ h \in 0..block /\ signed <= h + MaxLag
    BY <2>1 DEF EntryOK, Attested, Committed
  <2>4. h \in Nat /\ h # Never
    BY <2>2, <2>3, MemoryAssumption
  <2>5. CASE Read(b) = "StillValid"
    <3>1. h = block
      BY <2>1, <2>5, StillValidMeansUnchanged DEF MemoryInv
    <3> HIDE DEF h, signed
    <3> QED BY <2>2, <2>4, <3>1 DEF h
  <2>6. CASE Read(b) = "ProtectedByProspectiveOnly"
    <3>1. b >= signed /\ b - signed <= MaxFsBlocks
      BY <2>6 DEF Read, Evaluate, WithinWindow
    <3> HIDE DEF h, signed
    <3>2. block - h <= MaxFsBlocks + 2 * MaxLag
      BY <2>2, <2>3, <3>1
    <3> QED BY <2>4, <3>2 DEF h
  <2> QED BY <2>5, <2>6 DEF Read, Evaluate
<1> QED BY <1>1, MemoryInvariant, PTL
=============================================================================

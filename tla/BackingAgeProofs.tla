-------------------------- MODULE BackingAgeProofs --------------------------
(***************************************************************************)
(* Backing sets never hide an age: for every set of sources, classes and   *)
(* outputs and every pipeline over them, an output carries the oldest of   *)
(* the entries that went into it, and what is reported of it, as one age   *)
(* or as a verdict, holds for all of them.                                 *)
(***************************************************************************)
EXTENDS BackingAge, Arithmetic

-----------------------------------------------------------------------------
(* One source *)

\* kept is the oldest of the entries in into, and NoEntry of none.
OldestOf(kept, into) ==
    /\ kept = NoEntry <=> into = {}
    /\ into # {} => /\ kept \in into
                    /\ \A e \in into : kept.attested_at_secs <= e.attested_at_secs

\* The entries of e that are for source s.
Of(s, e) == {f \in e : f.source_id = s}

\* Keep picks the older of the oldest entries of two collections: this is
\* what makes the order of insertions and derivations irrelevant to the age.
LEMMA KeepOldest ==
    ASSUME NEW A \in SUBSET BackingEntry, NEW B \in SUBSET BackingEntry,
           NEW a, NEW b,
           OldestOf(a, A), OldestOf(b, B), B # {}
    PROVE  OldestOf(Keep(a, b), A \cup B)
<1>1. b \in B /\ b \in BackingEntry /\ b # NoEntry
  BY BackingAssumption DEF OldestOf
<1>2. \A e \in A \cup B : e.attested_at_secs \in Nat
  BY DEF BackingEntry
<1>3. CASE A = {}
  <2>1. a = NoEntry
    BY <1>3 DEF OldestOf
  <2> QED BY <1>1, <1>3, <2>1 DEF OldestOf, Keep
<1>4. CASE A # {}
  <2>1. a \in A /\ a \in BackingEntry /\ a # NoEntry
    BY <1>4, BackingAssumption DEF OldestOf
  <2>2. CASE a.attested_at_secs <= b.attested_at_secs
    <3>1. Keep(a, b) = a
      BY <2>1, <2>2 DEF Keep
    <3>2. \A e \in A \cup B : a.attested_at_secs <= e.attested_at_secs
      BY <1>1, <1>2, <2>1, <2>2, <1>4 DEF OldestOf
    <3> QED BY <2>1, <3>1, <3>2 DEF OldestOf
  <2>3. CASE ~(a.attested_at_secs <= b.attested_at_secs)
    <3>1. Keep(a, b) = b
      BY <2>3 DEF Keep
    <3>2. \A e \in A \cup B : b.attested_at_secs <= e.attested_at_secs
      BY <1>1, <1>2, <2>1, <2>3, <1>4 DEF OldestOf
    <3> QED BY <1>1, <3>1, <3>2 DEF OldestOf
  <2> QED BY <2>2, <2>3
<1> QED BY <1>3, <1>4

-----------------------------------------------------------------------------
(* The inductive invariant *)

BackingInv ==
    /\ TypeOK
    /\ \A o \in Outputs, s \in Sources : OldestOf(backing[o][s], Of(s, merged[o]))

\* An output that has read nothing carries nothing.
LEMMA BackingInvInit == Init => BackingInv
BY DEF Init, BackingInv, TypeOK, OldestOf, Of, Empty, BackingSet

\* What a stage does to one output, given what it adds to each source: reading
\* and deriving are both instances of Keep.
LEMMA MergeKeepsInv ==
    ASSUME BackingInv, NEW o \in Outputs,
           NEW set, NEW more \in SUBSET BackingEntry,
           set \in BackingSet,
           \A s \in Sources : OldestOf(set[s], Of(s, merged[o] \cup more)),
           backing' = [backing EXCEPT ![o] = set],
           merged' = [merged EXCEPT ![o] = @ \cup more],
           UNCHANGED <<now, validated>>
    PROVE  BackingInv'
<1>1. TypeOK'
  BY DEF BackingInv, TypeOK
<1>2. ASSUME NEW p \in Outputs, NEW s \in Sources
      PROVE  OldestOf(backing[p][s], Of(s, merged[p]))'
  <2>1. CASE p = o
    <3>1. backing'[p][s] = set[s] /\ merged'[p] = merged[o] \cup more
      BY <2>1 DEF BackingInv, TypeOK
    <3> QED BY <3>1 DEF OldestOf, Of
  <2>2. CASE p # o
    <3>1. backing'[p] = backing[p] /\ merged'[p] = merged[p]
      BY <2>2 DEF BackingInv, TypeOK
    <3> QED BY <3>1 DEF BackingInv, OldestOf, Of
  <2> QED BY <2>1, <2>2
<1> QED BY <1>1, <1>2 DEF BackingInv

\* Every step of the pipeline keeps the invariant.
LEMMA BackingInvStep == BackingInv /\ [Next]_vars => BackingInv'
<1> SUFFICES ASSUME BackingInv, [Next]_vars PROVE BackingInv'
  OBVIOUS
<1>1. CASE Tick
  BY <1>1 DEF Tick, BackingInv, TypeOK, OldestOf, Of
<1>2. ASSUME NEW s \in Sources, NEW skew \in Skews, NEW class \in ClassesOf[s],
             Validate(s, class, skew)
      PROVE  BackingInv'
  <2>1. [source_id |-> s, attested_at_secs |-> now + skew, class |-> class]
            \in BackingEntry
    BY BackingAssumption DEF BackingInv, TypeOK, BackingEntry
  <2> QED BY <1>2, <2>1 DEF Validate, BackingInv, TypeOK, OldestOf, Of
<1>3. ASSUME NEW o \in Outputs, NEW entry \in validated, Ingest(o, entry)
      PROVE  BackingInv'
  <2> DEFINE set == Insert(backing[o], entry)
  <2>1. /\ entry \in BackingEntry /\ entry.source_id \in Sources
        /\ backing[o] \in BackingSet /\ merged[o] \in SUBSET BackingEntry
    BY DEF BackingInv, TypeOK, BackingEntry
  <2>2. set \in BackingSet
    BY <2>1 DEF Insert, Keep, BackingSet
  <2>3. ASSUME NEW s \in Sources
        PROVE  OldestOf(set[s], Of(s, merged[o] \cup {entry}))
    <3>1. OldestOf(backing[o][s], Of(s, merged[o]))
      BY DEF BackingInv
    <3>2. CASE s = entry.source_id
      <4>1. OldestOf(entry, {entry})
        BY <2>1, BackingAssumption DEF OldestOf, BackingEntry
      <4>2. Of(s, merged[o] \cup {entry}) = Of(s, merged[o]) \cup {entry}
        BY <3>2 DEF Of
      <4>3. Of(s, merged[o]) \in SUBSET BackingEntry
        BY <2>1 DEF Of
      <4>4. OldestOf(Keep(backing[o][s], entry), Of(s, merged[o]) \cup {entry})
        BY <2>1, <3>1, <4>1, <4>3, KeepOldest
      <4>5. set[s] = Keep(backing[o][s], entry)
        BY <2>1, <3>2 DEF Insert, BackingSet
      <4> QED BY <4>2, <4>4, <4>5
    <3>3. CASE s # entry.source_id
      <4>1. Of(s, merged[o] \cup {entry}) = Of(s, merged[o])
        BY <3>3 DEF Of
      <4>2. set[s] = backing[o][s]
        BY <2>1, <3>3 DEF Insert, BackingSet
      <4> QED BY <3>1, <4>1, <4>2
    <3> QED BY <3>2, <3>3
  <2> QED BY <1>3, <2>1, <2>2, <2>3, MergeKeepsInv DEF Ingest, BackingInv, TypeOK
<1>4. ASSUME NEW o \in Outputs, NEW input \in Outputs, Derive(o, input)
      PROVE  BackingInv'
  <2> DEFINE set == Union(backing[o], backing[input])
  <2>1. /\ backing[o] \in BackingSet /\ backing[input] \in BackingSet
        /\ merged[o] \in SUBSET BackingEntry
        /\ merged[input] \in SUBSET BackingEntry
    BY DEF BackingInv, TypeOK
  <2>2. set \in BackingSet
    BY <2>1 DEF Union, Keep, BackingSet
  <2>3. ASSUME NEW s \in Sources
        PROVE  OldestOf(set[s], Of(s, merged[o] \cup merged[input]))
    <3>1. /\ OldestOf(backing[o][s], Of(s, merged[o]))
          /\ OldestOf(backing[input][s], Of(s, merged[input]))
      BY DEF BackingInv
    <3>2. Of(s, merged[o] \cup merged[input])
            = Of(s, merged[o]) \cup Of(s, merged[input])
      BY DEF Of
    <3>3. /\ Of(s, merged[o]) \in SUBSET BackingEntry
          /\ Of(s, merged[input]) \in SUBSET BackingEntry
      BY <2>1 DEF Of
    <3>4. CASE Of(s, merged[input]) = {}
      <4>1. set[s] = backing[o][s]
        BY <3>1, <3>4 DEF Union, OldestOf
      <4> QED BY <3>1, <3>2, <3>4, <4>1
    <3>5. CASE Of(s, merged[input]) # {}
      <4>1. set[s] = Keep(backing[o][s], backing[input][s])
        BY <3>1, <3>5 DEF Union, OldestOf
      <4>2. OldestOf(Keep(backing[o][s], backing[input][s]),
                     Of(s, merged[o]) \cup Of(s, merged[input]))
        BY <3>1, <3>3, <3>5, KeepOldest
      <4> QED BY <3>2, <4>1, <4>2
    <3> QED BY <3>4, <3>5
  <2> QED BY <1>4, <2>1, <2>2, <2>3, MergeKeepsInv DEF Derive, BackingInv, TypeOK
<1>5. ASSUME NEW o \in Outputs, Reset(o)
      PROVE  BackingInv'
  <2>1. TypeOK'
    BY <1>5 DEF Reset, BackingInv, TypeOK, Empty, BackingSet
  <2>2. ASSUME NEW p \in Outputs, NEW s \in Sources
        PROVE  OldestOf(backing[p][s], Of(s, merged[p]))'
    <3>1. CASE p = o
      BY <1>5, <3>1 DEF Reset, BackingInv, TypeOK, Empty, OldestOf, Of
    <3>2. CASE p # o
      <4>1. backing'[p] = backing[p] /\ merged'[p] = merged[p]
        BY <1>5, <3>2 DEF Reset, BackingInv, TypeOK
      <4> QED BY <4>1 DEF BackingInv, OldestOf, Of
    <3> QED BY <3>1, <3>2
  <2> QED BY <2>1, <2>2 DEF BackingInv
<1>6. CASE UNCHANGED vars
  BY <1>6 DEF vars, BackingInv, TypeOK, OldestOf, Of
<1> QED BY <1>1, <1>2, <1>3, <1>4, <1>5, <1>6 DEF Next

\* The invariant holds of every pipeline.
THEOREM BackingInvariant == Spec => []BackingInv
BY BackingInvInit, BackingInvStep, PTL DEF Spec

-----------------------------------------------------------------------------
(* What it says of outputs *)

\* The state of a pipeline is well typed in every behaviour: merging yields
\* nothing but entries and sets of them (insert, union).
THEOREM TypeCorrect == Spec => []TypeOK
<1>1. BackingInv => TypeOK
  BY DEF BackingInv
<1> QED BY <1>1, BackingInvariant, PTL

\* No derivation launders an age: an output carries the oldest entry of each
\* source anything went into it from (insert, union).
THEOREM OldestIsCarried == Spec => []CarriesOldest
<1>1. BackingInv => CarriesOldest
  BY DEF BackingInv, CarriesOldest, OldestOf, Of
<1> QED BY <1>1, BackingInvariant, PTL

\* A verdict on an output is one on everything that went into it, while the
\* entries of a source agree on its class (gate after union).
THEOREM FreshCoversAll == Spec => []FreshMeansAllFresh
<1>1. BackingInv => FreshMeansAllFresh
  <2> SUFFICES ASSUME BackingInv, ClassesAgree, NEW o \in Outputs,
                      StaleSources(backing[o], now) = {}, NEW e \in merged[o]
               PROVE  /\ LimitOf(e.class) # NoLimit
                      /\ AgeSecs(e, now) <= LimitOf(e.class)
    BY DEF FreshMeansAllFresh
  <2> DEFINE s == e.source_id
             b == backing[o][s]
  <2>1. /\ e \in BackingEntry /\ s \in Sources /\ e.class \in Classes
        /\ e.attested_at_secs \in Nat /\ now \in Nat
    BY DEF BackingInv, TypeOK, BackingEntry
  <2>2. e \in Of(s, merged[o]) /\ OldestOf(b, Of(s, merged[o]))
    BY <2>1 DEF BackingInv, Of
  <2>3. /\ b \in merged[o] /\ b.source_id = e.source_id /\ b # NoEntry
        /\ b.attested_at_secs <= e.attested_at_secs
    BY <2>2 DEF OldestOf, Of
  <2>4. b.attested_at_secs \in Nat
    BY <2>3 DEF BackingInv, TypeOK, BackingEntry
  <2>5. b.class = e.class
    BY <2>3 DEF ClassesAgree
  <2>6. Within(b, now)
    BY <2>1, <2>3 DEF StaleSources, Held
  <2>7. AgeSecs(e, now) <= AgeSecs(b, now)
    BY <2>1, <2>3, <2>4 DEF AgeSecs, SaturatingSub
  <2>8. LimitOf(e.class) # NoLimit /\ AgeSecs(b, now) <= LimitOf(e.class)
    BY <2>5, <2>6 DEF Within
  <2>9. LimitOf(e.class) \in Nat /\ AgeSecs(e, now) \in Nat /\ AgeSecs(b, now) \in Nat
    BY <2>1, <2>4, <2>8, BackingAssumption DEF LimitOf, AgeSecs, SaturatingSub
  <2> QED BY <2>7, <2>8, <2>9
<1> QED BY <1>1, BackingInvariant, PTL

\* The oldest entry of an output has the greatest age, and this is what
\* to_boundary reports; ages do not exceed the clock, so there is one.
LEMMA BoundaryIsGreatest ==
    ASSUME NEW t \in Nat, NEW set \in BackingSet, NEW s \in Held(set)
    PROVE  /\ ToBoundary(set, t) \in Nat
           /\ AgeSecs(set[s], t) <= ToBoundary(set, t)
<1> DEFINE Age(x) == AgeSecs(set[x], t)
           left == {t - Age(x) : x \in Held(set)}
           ages == {Age(x) : x \in Held(set)}
<1>1. \A x \in Held(set) : set[x].attested_at_secs \in Nat
  BY DEF Held, BackingSet, BackingEntry
<1>2. \A x \in Held(set) : Age(x) \in 0..t
  BY <1>1 DEF AgeSecs, SaturatingSub
<1>3. left \in SUBSET Nat /\ left # {}
  BY <1>2
<1>4. PICK m \in left : \A y \in left : m <= y
  BY <1>3, LeastElement
<1>5. PICK o \in Held(set) : m = t - Age(o)
  BY <1>4
<1>6. \A x \in Held(set) : Age(x) <= Age(o)
  <2> SUFFICES ASSUME NEW x \in Held(set) PROVE Age(x) <= Age(o)
    OBVIOUS
  <2>1. t - Age(o) <= t - Age(x)
    BY <1>4, <1>5
  <2>2. Age(o) \in Nat /\ Age(x) \in Nat
    BY <1>2
  <2> HIDE DEF Age
  <2> QED BY <2>1, <2>2
<1>7. \E age \in ages : \A x \in Held(set) : Age(x) <= age
  BY <1>5, <1>6
<1>8. ToBoundary(set, t) = CHOOSE age \in ages : \A x \in Held(set) : Age(x) <= age
  BY DEF ToBoundary
<1>9. /\ ToBoundary(set, t) \in ages
      /\ \A x \in Held(set) : Age(x) <= ToBoundary(set, t)
  BY <1>7, <1>8
<1> QED BY <1>2, <1>9

\* The one number that crosses a trust boundary bounds the age of everything
\* that went into an output (to_boundary after union).
THEOREM BoundaryIsSound == Spec => []BoundaryBoundsAll
<1>1. BackingInv => BoundaryBoundsAll
  <2> SUFFICES ASSUME BackingInv, NEW o \in Outputs, NEW e \in merged[o]
               PROVE  /\ ToBoundary(backing[o], now) # NoEntry
                      /\ AgeSecs(e, now) <= ToBoundary(backing[o], now)
    BY DEF BoundaryBoundsAll
  <2> DEFINE s == e.source_id
             b == backing[o][s]
  <2>1. /\ e \in BackingEntry /\ s \in Sources /\ e.attested_at_secs \in Nat
        /\ now \in Nat /\ backing[o] \in BackingSet
    BY DEF BackingInv, TypeOK, BackingEntry
  <2>2. e \in Of(s, merged[o]) /\ OldestOf(b, Of(s, merged[o]))
    BY <2>1 DEF BackingInv, Of
  <2>3. /\ b \in BackingEntry /\ b # NoEntry
        /\ b.attested_at_secs <= e.attested_at_secs
    BY <2>2 DEF OldestOf, Of, BackingInv, TypeOK
  <2>4. s \in Held(backing[o]) /\ b.attested_at_secs \in Nat
    BY <2>1, <2>3 DEF Held, BackingEntry
  <2>5. AgeSecs(e, now) <= AgeSecs(b, now)
    BY <2>1, <2>3, <2>4 DEF AgeSecs, SaturatingSub
  <2>6. /\ ToBoundary(backing[o], now) \in Nat
        /\ AgeSecs(b, now) <= ToBoundary(backing[o], now)
    BY <2>1, <2>4, BoundaryIsGreatest
  <2>7. AgeSecs(e, now) \in Nat /\ AgeSecs(b, now) \in Nat
    BY <2>1, <2>4 DEF AgeSecs, SaturatingSub
  <2> QED BY <2>5, <2>6, <2>7, BackingAssumption
<1> QED BY <1>1, BackingInvariant, PTL

\* Neither time nor derivation freshens a source an output is stale for, while
\* the entries of the source agree on its class (insert, union, gate).
THEOREM StalenessStays == Spec => StaysStale
<1>1. BackingInv /\ BackingInv' /\ [Next]_vars =>
        [\A o \in Outputs :
          ClassesAgree' /\ merged[o] \subseteq merged'[o] =>
            StaleSources(backing[o], now) \subseteq StaleSources(backing[o], now)']_vars
  <2> SUFFICES ASSUME BackingInv, BackingInv', [Next]_vars, NEW o \in Outputs,
                      ClassesAgree', merged[o] \subseteq merged'[o],
                      NEW s \in StaleSources(backing[o], now)
               PROVE  s \in StaleSources(backing[o], now)'
    OBVIOUS
  <2> DEFINE b == backing[o][s]
             c == backing'[o][s]
  <2>1. now \in Nat /\ now' \in Nat /\ now <= now'
    BY DEF BackingInv, TypeOK, Next, vars, Tick, Validate, Ingest, Derive, Reset
  <2>2. s \in Sources /\ b # NoEntry /\ ~Within(b, now)
    BY DEF StaleSources, Held
  <2>3. b \in merged[o] /\ b.source_id = s
    BY <2>2 DEF BackingInv, OldestOf, Of
  <2>4. b \in Of(s, merged'[o])
    BY <2>3 DEF Of
  <2>5. OldestOf(c, Of(s, merged'[o]))
    BY <2>2 DEF BackingInv, OldestOf, Of
  <2>6. /\ c # NoEntry /\ c \in merged'[o] /\ c.source_id = s
        /\ c.attested_at_secs <= b.attested_at_secs
    BY <2>4, <2>5 DEF OldestOf, Of
  <2>7. b.class = c.class
    BY <2>3, <2>6 DEF ClassesAgree
  <2>8. /\ b.attested_at_secs \in Nat /\ c.attested_at_secs \in Nat
        /\ b.class \in Classes
    BY <2>3, <2>6 DEF BackingInv, TypeOK, BackingEntry
  <2>9. AgeSecs(b, now) <= AgeSecs(c, now')
    BY <2>1, <2>6, <2>8 DEF AgeSecs, SaturatingSub
  <2>10. LimitOf(b.class) # NoLimit => LimitOf(b.class) \in Nat
    BY <2>8, BackingAssumption DEF LimitOf
  <2>11. AgeSecs(b, now) \in Nat /\ AgeSecs(c, now') \in Nat
    BY <2>1, <2>8 DEF AgeSecs, SaturatingSub
  <2>12. ~Within(c, now')
    BY <2>2, <2>7, <2>9, <2>10, <2>11 DEF Within
  <2> QED BY <2>2, <2>6, <2>12 DEF StaleSources, Held, Within, AgeSecs, LimitOf
<1> QED BY <1>1, BackingInvariant, PTL DEF Spec, StaysStale
=============================================================================

------------------------ MODULE SignedBackingProofs ------------------------
(***************************************************************************)
(* What a consumer gates on is what trusted validators said: for every set *)
(* of keys, trusted keys, sources and stages, whatever was restamped or    *)
(* merged on the way.                                                      *)
(***************************************************************************)
EXTENDS SignedBacking, FiniteSetTheorems, TLAPS

-----------------------------------------------------------------------------
(* The inductive invariant *)

\* The signature of e is that of an entry a validator issued.
FromIssued(e) == \E i \in issued : /\ e.signature = i.signature
                                   /\ e.validator_pubkey = i.validator_pubkey

\* Every issued entry is internally consistent; whatever a stage carries has
\* the key and the signature of an issued entry, though perhaps not its time.
SignedInv ==
    /\ SignedTypeOK
    /\ \A i \in issued : IsSignatureValid(i)
    /\ \A c \in Carriers, s \in Sources :
          carried[c][s] # NoEntry => FromIssued(carried[c][s])

\* Nothing is carried at first.
LEMMA SignedInvInit == Init => SignedInv
BY DEF Init, SignedInv, SignedTypeOK

\* A step that changes what one stage carries keeps the invariant when each of
\* its entries is typed and comes from an issued one.
LEMMA CarryKeepsInv ==
    ASSUME SignedInv, NEW c \in Carriers, NEW set, NEW more,
           set \in [Sources -> SignedBackingEntry \cup {NoEntry}],
           more \in SUBSET SignedBackingEntry,
           \A s \in Sources : set[s] # NoEntry => FromIssued(set[s]),
           carried' = [carried EXCEPT ![c] = set],
           arrived' = [arrived EXCEPT ![c] = @ \cup more],
           UNCHANGED <<now, issued>>
    PROVE  SignedInv'
<1>1. SignedTypeOK'
  BY DEF SignedInv, SignedTypeOK
<1>2. ASSUME NEW d \in Carriers, NEW s \in Sources, carried'[d][s] # NoEntry
      PROVE  FromIssued(carried'[d][s])
  <2>1. CASE d = c
    <3>1. carried'[d] = set
      BY <2>1 DEF SignedInv, SignedTypeOK
    <3> QED BY <1>2, <3>1
  <2>2. CASE d # c
    <3>1. carried'[d] = carried[d]
      BY <2>2 DEF SignedInv, SignedTypeOK
    <3> QED BY <1>2, <3>1 DEF SignedInv
  <2> QED BY <2>1, <2>2
<1>3. \A i \in issued' : IsSignatureValid(i)
  BY DEF SignedInv
<1> QED BY <1>1, <1>2, <1>3 DEF SignedInv, FromIssued

\* Every step keeps the invariant.
LEMMA SignedInvStep == SignedInv /\ [Next]_vars => SignedInv'
<1> SUFFICES ASSUME SignedInv, [Next]_vars PROVE SignedInv'
  OBVIOUS
<1>1. CASE Tick
  BY <1>1 DEF Tick, SignedInv, SignedTypeOK, FromIssued
<1>2. ASSUME NEW key \in Keys, NEW s \in Sources, NEW skew \in Skews,
             NEW content \in Contents, NEW class \in ClassesOf[s],
             Issue(key, s, class, skew, content)
      PROVE  SignedInv'
  <2> DEFINE entry == [source_id |-> s, attested_at_secs |-> now + skew,
                       class |-> class]
             new == Signed(entry, content, key)
  <2>1. entry \in BackingEntry
    BY BackingAssumption DEF SignedInv, SignedTypeOK, BackingEntry
  <2>2. issued' = issued \cup {new} /\ UNCHANGED <<now, carried, arrived>>
    BY <1>2 DEF Issue
  <2> HIDE DEF entry
  <2>3. new \in SignedBackingEntry /\ IsSignatureValid(new)
    BY <2>1 DEF Signed, SignedBackingEntry, Digest, SigningDigest, IsSignatureValid
  <2> HIDE DEF new
  <2>4. SignedTypeOK'
    BY <2>2, <2>3 DEF SignedInv, SignedTypeOK
  <2>5. \A e : FromIssued(e) => FromIssued(e)'
    BY <2>2 DEF FromIssued
  <2> QED BY <2>2, <2>3, <2>4, <2>5 DEF SignedInv, FromIssued
<1>3. ASSUME NEW c \in Carriers, NEW e \in issued, NEW time \in 0..MaxNow,
             Receive(c, e, time)
      PROVE  SignedInv'
  <2> DEFINE received == [e EXCEPT !.entry.attested_at_secs = time]
             set == InsertSigned(carried[c], received)
  <2>1. /\ e \in SignedBackingEntry
        /\ carried[c] \in [Sources -> SignedBackingEntry \cup {NoEntry}]
    BY DEF SignedInv, SignedTypeOK
  <2>2. received \in SignedBackingEntry
    BY <2>1, BackingAssumption DEF SignedBackingEntry, BackingEntry
  <2>3. received.signature = e.signature /\ received.validator_pubkey = e.validator_pubkey
    BY <2>1 DEF SignedBackingEntry
  <2>4. FromIssued(received)
    BY <2>3 DEF FromIssued
  <2>5. carried' = [carried EXCEPT ![c] = set]
    BY <1>3 DEF Receive, SignedInv, SignedTypeOK
  <2>6. arrived' = [arrived EXCEPT ![c] = @ \cup {received}] /\ UNCHANGED <<now, issued>>
    BY <1>3 DEF Receive
  <2> HIDE DEF received
  <2>7. \A s \in Sources : set[s] \in {carried[c][s], received}
    BY <2>1 DEF InsertSigned, KeepSigned
  <2>8. /\ set \in [Sources -> SignedBackingEntry \cup {NoEntry}]
    BY <2>1, <2>2 DEF InsertSigned, KeepSigned
  <2>9. \A s \in Sources : set[s] # NoEntry => FromIssued(set[s])
    BY <2>4, <2>7 DEF SignedInv
  <2> HIDE DEF set
  <2> QED BY <2>2, <2>5, <2>6, <2>8, <2>9, CarryKeepsInv
<1>4. ASSUME NEW c \in Carriers, NEW input \in Carriers, Derive(c, input)
      PROVE  SignedInv'
  <2> DEFINE set == UnionSigned(carried[c], carried[input])
  <2>1. /\ carried[c] \in [Sources -> SignedBackingEntry \cup {NoEntry}]
        /\ carried[input] \in [Sources -> SignedBackingEntry \cup {NoEntry}]
        /\ arrived[input] \in SUBSET SignedBackingEntry
    BY DEF SignedInv, SignedTypeOK
  <2>2. \A s \in Sources : set[s] \in {carried[c][s], carried[input][s]}
    BY DEF UnionSigned, KeepSigned
  <2>3. set \in [Sources -> SignedBackingEntry \cup {NoEntry}]
    BY <2>1 DEF UnionSigned, KeepSigned
  <2>4. \A s \in Sources : set[s] # NoEntry => FromIssued(set[s])
    BY <2>2 DEF SignedInv
  <2>5. /\ carried' = [carried EXCEPT ![c] = set]
        /\ arrived' = [arrived EXCEPT ![c] = @ \cup arrived[input]]
        /\ UNCHANGED <<now, issued>>
    BY <1>4 DEF Derive
  <2> HIDE DEF set
  <2> QED BY <2>1, <2>3, <2>4, <2>5, CarryKeepsInv
<1>5. CASE UNCHANGED vars
  BY <1>5 DEF vars, SignedInv, SignedTypeOK, FromIssued
<1> QED BY <1>1, <1>2, <1>3, <1>4, <1>5 DEF Next

\* The invariant holds of every pipeline of signed sets.
THEOREM SignedInvariant == Spec => []SignedInv
BY SignedInvInit, SignedInvStep, PTL DEF Spec

-----------------------------------------------------------------------------
\* The state of a signed pipeline is well typed in every behaviour.
THEOREM SignedTypeCorrect == Spec => []SignedTypeOK
<1>1. SignedInv => SignedTypeOK
  BY DEF SignedInv
<1> QED BY <1>1, SignedInvariant, PTL

\* Every verified entry was issued, with that very time and class, under a
\* trusted key (into_verified after any insert and union).
THEOREM OnlyIssuedIsVerified == Spec => []VerifiedWereIssued
<1>1. SignedInv => VerifiedWereIssued
  <2> SUFFICES ASSUME SignedInv, NEW c \in Carriers,
                      NEW s \in Held(IntoVerified(carried[c]).verified)
               PROVE  \E e \in issued :
                        /\ e.entry = IntoVerified(carried[c]).verified[s]
                        /\ e.validator_pubkey \in Trusted
    BY DEF VerifiedWereIssued
  <2> DEFINE d == carried[c][s]
  <2>1. s \in Sources
    BY DEF Held
  <2>2. d # NoEntry /\ IsTrusted(d) /\ IntoVerified(carried[c]).verified[s] = d.entry
    BY <2>1 DEF Held, IntoVerified
  <2>3. PICK i \in issued : d.signature = i.signature
                            /\ d.validator_pubkey = i.validator_pubkey
    BY <2>1, <2>2 DEF SignedInv, FromIssued
  <2>4. IsSignatureValid(i) /\ IsSignatureValid(d)
    BY <2>2 DEF SignedInv, IsTrusted
  <2>5. i.entry = d.entry
    BY <2>3, <2>4 DEF IsSignatureValid, SigningDigest
  <2>6. i.validator_pubkey \in Trusted
    BY <2>2, <2>3 DEF IsTrusted
  <2> QED BY <2>2, <2>5, <2>6
<1> QED BY <1>1, SignedInvariant, PTL
-----------------------------------------------------------------------------
(* What is lost shows *)

CarriedSet == [Sources -> SignedBackingEntry \cup {NoEntry}]

\* For every entry in into, set holds one of its source that is as old.
Covers(set, into) ==
    \A e \in into :
        /\ set[e.entry.source_id] # NoEntry
        /\ set[e.entry.source_id].entry.attested_at_secs <= e.entry.attested_at_secs

\* Times and sources of signed entries.
LEMMA SignedEntryType ==
    ASSUME NEW e \in SignedBackingEntry
    PROVE  e.entry.source_id \in Sources /\ e.entry.attested_at_secs \in Nat
BY DEF SignedBackingEntry, BackingEntry

\* Insertion never makes a set younger (SignedBackingSet::insert).
LEMMA InsertCovers ==
    ASSUME NEW set \in CarriedSet, NEW A \in SUBSET SignedBackingEntry,
           NEW e \in SignedBackingEntry, Covers(set, A)
    PROVE  Covers(InsertSigned(set, e), A \cup {e})
<1> DEFINE more == InsertSigned(set, e)
<1>1. e # NoEntry /\ NoEntry \notin SignedBackingEntry
  BY SignedAssumption
<1>2. SUFFICES ASSUME NEW f \in A \cup {e}
               PROVE  /\ more[f.entry.source_id] # NoEntry
                      /\ more[f.entry.source_id].entry.attested_at_secs
                            <= f.entry.attested_at_secs
  BY DEF Covers
<1> DEFINE s == f.entry.source_id
           kept == set[s]
<1>3. /\ s \in Sources /\ f.entry.attested_at_secs \in Nat
      /\ e.entry.source_id \in Sources /\ e.entry.attested_at_secs \in Nat
  BY SignedEntryType
<1>4. kept # NoEntry => kept.entry.attested_at_secs \in Nat
  BY <1>3, SignedEntryType DEF CarriedSet
<1>5. CASE s # e.entry.source_id
  <2>1. more[s] = kept /\ f \in A
    BY <1>3, <1>5 DEF InsertSigned, CarriedSet
  <2> QED BY <2>1 DEF Covers
<1>6. CASE s = e.entry.source_id
  <2>1. more[s] = KeepSigned(kept, e)
    BY <1>3, <1>6 DEF InsertSigned, CarriedSet
  <2>2. f = e \/ (/\ kept # NoEntry
                  /\ kept.entry.attested_at_secs <= f.entry.attested_at_secs)
    BY DEF Covers
  <2> HIDE DEF s, kept, more
  <2>3. CASE kept # NoEntry /\ kept.entry.attested_at_secs <= e.entry.attested_at_secs
    BY <2>1, <2>2, <2>3 DEF KeepSigned, s, more
  <2>4. CASE ~(kept # NoEntry /\ kept.entry.attested_at_secs <= e.entry.attested_at_secs)
    <3>1. more[s] = e
      BY <2>1, <2>4 DEF KeepSigned
    <3>2. e.entry.attested_at_secs <= f.entry.attested_at_secs
      BY <2>2, <2>4, <1>3, <1>4
    <3> QED BY <3>1, <3>2, <1>1 DEF s, more
  <2> QED BY <2>3, <2>4
<1> QED BY <1>5, <1>6

\* Nor does union, of either operand (SignedBackingSet::union).
LEMMA UnionCovers ==
    ASSUME NEW set \in CarriedSet, NEW other \in CarriedSet,
           NEW A \in SUBSET SignedBackingEntry,
           NEW B \in SUBSET SignedBackingEntry,
           Covers(set, A), Covers(other, B)
    PROVE  Covers(UnionSigned(set, other), A \cup B)
<1> DEFINE more == UnionSigned(set, other)
<1>1. SUFFICES ASSUME NEW f \in A \cup B
               PROVE  /\ more[f.entry.source_id] # NoEntry
                      /\ more[f.entry.source_id].entry.attested_at_secs
                            <= f.entry.attested_at_secs
  BY DEF Covers
<1> DEFINE s == f.entry.source_id
           mine == set[s]
           its == other[s]
           time == f.entry.attested_at_secs
<1>2. s \in Sources /\ time \in Nat
  BY SignedEntryType
<1>3. /\ mine # NoEntry => mine.entry.attested_at_secs \in Nat
      /\ its # NoEntry => its.entry.attested_at_secs \in Nat
  BY <1>2, SignedEntryType DEF CarriedSet
<1>4. more[s] = IF its = NoEntry THEN mine ELSE KeepSigned(mine, its)
  BY <1>2 DEF UnionSigned
<1>5. \/ mine # NoEntry /\ mine.entry.attested_at_secs <= time
      \/ its # NoEntry /\ its.entry.attested_at_secs <= time
  BY DEF Covers
<1> HIDE DEF more, s, mine, its, time
<1>6. more[s] # NoEntry /\ more[s].entry.attested_at_secs <= time
  BY <1>2, <1>3, <1>4, <1>5 DEF KeepSigned
<1> QED BY <1>6 DEF s, time, more

\* What a stage carries covers all that reached it.
CoverInv ==
    /\ SignedInv
    /\ \A c \in Carriers : Covers(carried[c], arrived[c])

\* Nothing has arrived at first.
LEMMA CoverInvInit == Init => CoverInv
BY SignedInvInit DEF Init, CoverInv, Covers

\* Every step keeps what is carried at least as old as what arrived.
LEMMA CoverInvStep == CoverInv /\ [Next]_vars => CoverInv'
<1> SUFFICES ASSUME CoverInv, [Next]_vars PROVE CoverInv'
  OBVIOUS
<1>1. SignedInv /\ SignedInv'
  BY SignedInvStep DEF CoverInv
<1>2. carried \in [Carriers -> CarriedSet] /\ arrived \in [Carriers -> SUBSET SignedBackingEntry]
  BY <1>1 DEF SignedInv, SignedTypeOK, CarriedSet
<1>3. CASE UNCHANGED <<carried, arrived>>
  BY <1>1, <1>3 DEF CoverInv
<1>4. ASSUME NEW c \in Carriers, NEW e \in issued, NEW time \in 0..MaxNow,
             Receive(c, e, time)
      PROVE  CoverInv'
  <2> DEFINE received == [e EXCEPT !.entry.attested_at_secs = time]
             set == InsertSigned(carried[c], received)
  <2>1. e \in SignedBackingEntry
    BY <1>1 DEF SignedInv, SignedTypeOK
  <2>2. received \in SignedBackingEntry
    BY <2>1, BackingAssumption DEF SignedBackingEntry, BackingEntry
  <2>3. /\ carried' = [carried EXCEPT ![c] = set]
        /\ arrived' = [arrived EXCEPT ![c] = arrived[c] \cup {received}]
    BY <1>2, <1>4 DEF Receive
  <2> HIDE DEF received
  <2>4. Covers(set, arrived[c] \cup {received})
    BY <1>2, <2>2, InsertCovers DEF CoverInv
  <2> HIDE DEF set
  <2>5. \A d \in Carriers : Covers(carried'[d], arrived'[d])
    BY <1>2, <2>3, <2>4 DEF CoverInv
  <2> QED BY <1>1, <2>5 DEF CoverInv
<1>5. ASSUME NEW c \in Carriers, NEW input \in Carriers, Derive(c, input)
      PROVE  CoverInv'
  <2> DEFINE set == UnionSigned(carried[c], carried[input])
  <2>1. /\ carried' = [carried EXCEPT ![c] = set]
        /\ arrived' = [arrived EXCEPT ![c] = arrived[c] \cup arrived[input]]
    BY <1>2, <1>5 DEF Derive
  <2>2. Covers(set, arrived[c] \cup arrived[input])
    BY <1>2, UnionCovers DEF CoverInv
  <2> HIDE DEF set
  <2>3. \A d \in Carriers : Covers(carried'[d], arrived'[d])
    BY <1>2, <2>1, <2>2 DEF CoverInv
  <2> QED BY <1>1, <2>3 DEF CoverInv
<1>6. Tick \/ (\E key \in Keys, s \in Sources, skew \in Skews, content \in Contents :
                 \E class \in ClassesOf[s] : Issue(key, s, class, skew, content))
        => UNCHANGED <<carried, arrived>>
  BY DEF Tick, Issue
<1> QED BY <1>3, <1>4, <1>5, <1>6 DEF Next, vars

\* Trusted evidence that reached a stage is either in what the consumer
\* verifies, with an entry that is as old, or shows among the rejected ones,
\* for any number of sources, keys and stages (insert before into_verified).
THEOREM LossesShow == Spec => []NoSilentLoss
<1>1. CoverInv => NoSilentLoss
  <2> SUFFICES ASSUME CoverInv, NEW c \in Carriers
               PROVE  LET projection == IntoVerified(carried[c])
                          trusted    == {e \in arrived[c] : IsTrusted(e)}
                          lost       == {s \in Sources :
                                            /\ projection.verified[s] = NoEntry
                                            /\ \E e \in trusted : e.entry.source_id = s}
                      IN  /\ Cardinality(lost) <= projection.rejected
                          /\ \A e \in trusted : e.entry.source_id \notin lost =>
                               projection.verified[e.entry.source_id].attested_at_secs
                                   <= e.entry.attested_at_secs
    BY DEF NoSilentLoss
  <2> DEFINE set == carried[c]
             verified == IntoVerified(set).verified
             trusted == {e \in arrived[c] : IsTrusted(e)}
             lost == {s \in Sources : /\ verified[s] = NoEntry
                                      /\ \E e \in trusted : e.entry.source_id = s}
             refused == {s \in Held(set) : ~IsTrusted(set[s])}
  <2>1. /\ set \in CarriedSet /\ arrived[c] \in SUBSET SignedBackingEntry
        /\ Covers(set, arrived[c])
    BY DEF CoverInv, SignedInv, SignedTypeOK, CarriedSet
  <2>2. IntoVerified(set).rejected = Cardinality(refused)
    BY DEF IntoVerified
  <2>3. \A s \in Sources : set[s] # NoEntry /\ IsTrusted(set[s]) =>
                             verified[s] = set[s].entry /\ verified[s] # NoEntry
    BY <2>1, BackingAssumption DEF IntoVerified, CarriedSet, SignedBackingEntry
  <2>4. \A s \in Sources : ~(set[s] # NoEntry /\ IsTrusted(set[s])) => verified[s] = NoEntry
    BY DEF IntoVerified
  <2>5. \A e \in trusted : /\ e.entry.source_id \in Sources
                           /\ set[e.entry.source_id] # NoEntry
                           /\ set[e.entry.source_id].entry.attested_at_secs
                                 <= e.entry.attested_at_secs
    BY <2>1, SignedEntryType DEF Covers
  <2> HIDE DEF verified, trusted
  <2>6. lost \subseteq refused
    BY <2>3, <2>5 DEF Held
  <2>7. IsFiniteSet(refused)
    BY SignedAssumption, FS_Subset DEF Held
  <2>8. Cardinality(lost) <= Cardinality(refused)
    BY <2>6, <2>7, FS_Subset
  <2>9. \A e \in trusted : e.entry.source_id \notin lost =>
            verified[e.entry.source_id].attested_at_secs <= e.entry.attested_at_secs
    BY <2>3, <2>4, <2>5
  <2> QED BY <2>2, <2>8, <2>9 DEF verified, trusted
<1>2. Spec => []CoverInv
  BY CoverInvInit, CoverInvStep, PTL DEF Spec
<1> QED BY <1>1, <1>2, PTL
=============================================================================

--------------------------- MODULE SignedBacking ---------------------------
(***************************************************************************)
(* Signed backing sets (src/backing.rs, v0.2a): validators sign backing    *)
(* entries together with the hash of the content they saw; the sets travel *)
(* through stages by the same union; a consumer keeps the entries whose    *)
(* signatures hold under a key it trusts and counts the others.            *)
(***************************************************************************)
EXTENDS BackingSets

CONSTANTS
    Keys,     \* public keys of validators
    Trusted,  \* TrustedValidators.keys
    Contents, \* content hashes
    Carriers, \* the stages that carry signed sets
    MaxIssued \* bound: how many entries validators sign

\* A signature is the key and the digest it was made over.
Digest == [entry : BackingEntry, content_hash : Contents]
SignedBackingEntry ==
    [entry : BackingEntry, content_hash : Contents, validator_pubkey : Keys,
     signature : [key : Keys, digest : Digest]]

ASSUME SignedAssumption == /\ Trusted \subseteq Keys
                           /\ IsFiniteSet(Sources)
                           /\ MaxIssued \in Nat
                           /\ NoEntry \notin SignedBackingEntry

VARIABLES
    now,
    issued,  \* environment: every entry a validator has signed
    carried, \* the signed set of each stage
    arrived  \* history: every signed entry that reached a stage, on any path

vars == <<now, issued, carried, arrived>>

-----------------------------------------------------------------------------
SigningDigest(entry, content) == [entry |-> entry, content_hash |-> content]

\* Wrong form: signs before the content is hashed.
SignedUnhashed(entry, content, key) ==
    [entry |-> entry, content_hash |-> content, validator_pubkey |-> key,
     signature |-> [key |-> key, digest |-> SigningDigest(entry, 0)]]

\* SignedBackingEntry::sign
Signed(entry, content, key) ==
    [entry |-> entry, content_hash |-> content, validator_pubkey |-> key,
     signature |-> [key |-> key, digest |-> SigningDigest(entry, content)]]

IsSignatureValid(e) ==
    e.signature = [key |-> e.validator_pubkey,
                   digest |-> SigningDigest(e.entry, e.content_hash)]

\* Wrong form: a known key is enough.
IsTrustedByKey(e) == e.validator_pubkey \in Trusted

IsTrusted(e) == IsSignatureValid(e) /\ e.validator_pubkey \in Trusted

\* The signed entry that is kept when e meets kept at its source.
KeepSigned(kept, e) ==
    IF kept # NoEntry /\ kept.entry.attested_at_secs <= e.entry.attested_at_secs
    THEN kept ELSE e

InsertSigned(set, e) ==
    [set EXCEPT ![e.entry.source_id] = KeepSigned(set[e.entry.source_id], e)]

UnionSigned(set, other) ==
    [s \in Sources |-> IF other[s] = NoEntry THEN set[s]
                       ELSE KeepSigned(set[s], other[s])]

\* Wrong form: of the entries that are dropped, only those with a bad
\* signature are counted.
IntoVerifiedUncounted(set) ==
    [verified |-> [s \in Sources |-> IF set[s] # NoEntry /\ IsTrusted(set[s])
                                     THEN set[s].entry ELSE NoEntry],
     rejected |-> Cardinality({s \in Held(set) : ~IsSignatureValid(set[s])})]

\* into_verified: the trusted entries as a plain set, and how many were not.
IntoVerified(set) ==
    [verified |-> [s \in Sources |-> IF set[s] # NoEntry /\ IsTrusted(set[s])
                                     THEN set[s].entry ELSE NoEntry],
     rejected |-> Cardinality({s \in Held(set) : ~IsTrusted(set[s])})]

-----------------------------------------------------------------------------
\* A validator checks a source and signs what it saw.
Issue(key, source, class, skew, content) ==
    /\ Cardinality(issued) < MaxIssued
    /\ issued' = issued \cup {Signed([source_id |-> source,
                    attested_at_secs |-> now + skew, class |-> class],
                    content, key)}
    /\ UNCHANGED <<now, carried, arrived>>

\* A signed entry reaches a stage; a stage that restamped it on the way set
\* another time under the same signature.
Receive(c, e, time) ==
    LET received == [e EXCEPT !.entry.attested_at_secs = time]
    IN  /\ carried' = [carried EXCEPT ![c] = InsertSigned(@, received)]
        /\ arrived' = [arrived EXCEPT ![c] = @ \cup {received}]
        /\ UNCHANGED <<now, issued>>

\* A stage derives its output from what another stage carries.
Derive(c, input) ==
    /\ carried' = [carried EXCEPT ![c] = UnionSigned(@, carried[input])]
    /\ arrived' = [arrived EXCEPT ![c] = @ \cup arrived[input]]
    /\ UNCHANGED <<now, issued>>

Tick == /\ now < MaxNow
        /\ now' = now + 1
        /\ UNCHANGED <<issued, carried, arrived>>

Init == /\ now = 0
        /\ issued = {}
        /\ carried = [c \in Carriers |-> [s \in Sources |-> NoEntry]]
        /\ arrived = [c \in Carriers |-> {}]

Next ==
    \/ Tick
    \/ \E key \in Keys, s \in Sources, skew \in Skews, content \in Contents :
          \E class \in ClassesOf[s] : Issue(key, s, class, skew, content)
    \/ \E c \in Carriers, e \in issued, time \in 0..MaxNow : Receive(c, e, time)
    \/ \E c, input \in Carriers : Derive(c, input)

Spec == Init /\ [][Next]_vars

-----------------------------------------------------------------------------
SignedTypeOK == /\ now \in Nat
                /\ issued \subseteq SignedBackingEntry
                /\ carried \in [Carriers -> [Sources -> SignedBackingEntry \cup {NoEntry}]]
                /\ arrived \in [Carriers -> SUBSET SignedBackingEntry]

\* What a consumer gates on is what validators said: every verified entry was
\* issued, with that very time and class, under a trusted key, however often
\* it was merged and whatever was restamped on the way (into_verified).
VerifiedWereIssued ==
    \A c \in Carriers :
        LET verified == IntoVerified(carried[c]).verified IN
        \A s \in Held(verified) :
            \E e \in issued : /\ e.entry = verified[s]
                              /\ e.validator_pubkey \in Trusted

\* No trusted evidence is lost unnoticed: of the sources for which a trusted
\* entry arrived, the verified set holds one that is at least as old, or else
\* the consumer counts a rejected entry for it, because an older entry it does
\* not trust took the place (insert before into_verified).
NoSilentLoss ==
    \A c \in Carriers :
        LET projection == IntoVerified(carried[c])
            trusted    == {e \in arrived[c] : IsTrusted(e)}
            lost       == {s \in Sources : /\ projection.verified[s] = NoEntry
                                           /\ \E e \in trusted : e.entry.source_id = s}
        IN  /\ Cardinality(lost) <= projection.rejected
            /\ \A e \in trusted : e.entry.source_id \notin lost =>
                 projection.verified[e.entry.source_id].attested_at_secs
                     <= e.entry.attested_at_secs
=============================================================================

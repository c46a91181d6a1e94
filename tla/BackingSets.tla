---------------------------- MODULE BackingSets ----------------------------
(***************************************************************************)
(* Backing sets (src/backing.rs): for each source the entry that says when *)
(* it was last validated and to which freshness class it belongs; their    *)
(* union, which keeps the older of two entries of a source; and the gate   *)
(* that compares ages with a limit per class. A set is a function from     *)
(* sources to entries.                                                     *)
(***************************************************************************)
EXTENDS Oracle

CONSTANTS
    Sources,
    Classes,
    ClassesOf,  \* the classes the entries of each source may carry
    Limit,      \* AgePolicy.max_age_secs_by_class; NoLimit where it has none
    Default,    \* AgePolicy.default_max_age_secs; NoLimit for None
    Skews,      \* by how many seconds a validator's clock may be ahead
    MaxNow,     \* bound: the last second
    NoEntry, NoLimit

BackingEntry == [source_id : Sources, attested_at_secs : Nat, class : Classes]

ASSUME BackingAssumption ==
    /\ ClassesOf \in [Sources -> SUBSET Classes]
    /\ NoLimit \notin Nat
    /\ Limit \in [Classes -> Nat \cup {NoLimit}]
    /\ Default \in Nat \cup {NoLimit}
    /\ Skews \subseteq Nat
    /\ MaxNow \in Nat
    /\ NoEntry \notin BackingEntry \cup Nat

BackingSet == [Sources -> BackingEntry \cup {NoEntry}]

\* u64 subtraction that saturates: a validation time ahead of the clock reads
\* as age 0.
AgeSecs(entry, t) == SaturatingSub(t, entry.attested_at_secs)

Empty == [s \in Sources |-> NoEntry]

\* Wrong form: the younger of two entries is kept.
KeepYounger(kept, entry) ==
    IF kept # NoEntry /\ kept.attested_at_secs >= entry.attested_at_secs
    THEN kept ELSE entry

\* Wrong form: what is kept is set back by a second, with a subtraction that
\* does not saturate.
KeepBackdated(kept, entry) ==
    IF kept # NoEntry /\ kept.attested_at_secs <= entry.attested_at_secs
    THEN kept ELSE [entry EXCEPT !.attested_at_secs = @ - 1]

\* insert: the entry that is kept when entry meets kept at its source.
Keep(kept, entry) ==
    IF kept # NoEntry /\ kept.attested_at_secs <= entry.attested_at_secs
    THEN kept ELSE entry

Insert(set, entry) ==
    [set EXCEPT ![entry.source_id] = Keep(set[entry.source_id], entry)]

Union(set, other) ==
    [s \in Sources |-> IF other[s] = NoEntry THEN set[s]
                       ELSE Keep(set[s], other[s])]

Held(set) == {s \in Sources : set[s] # NoEntry}

\* Wrong form: the age of the youngest entry.
ToBoundaryYoungest(set, t) ==
    IF Held(set) = {} THEN NoEntry
    ELSE CHOOSE age \in {AgeSecs(set[s], t) : s \in Held(set)} :
             \A s \in Held(set) : age <= AgeSecs(set[s], t)

\* to_boundary: the age of the oldest entry; NoEntry for an empty set.
ToBoundary(set, t) ==
    IF Held(set) = {} THEN NoEntry
    ELSE CHOOSE age \in {AgeSecs(set[s], t) : s \in Held(set)} :
             \A s \in Held(set) : AgeSecs(set[s], t) <= age

\* The limit of a class, or the default; NoLimit when neither exists.
LimitOf(class) == IF Limit[class] # NoLimit THEN Limit[class] ELSE Default

\* Wrong form: an entry without limit passes.
WithinOrUnknown(entry, t) ==
    LimitOf(entry.class) # NoLimit => AgeSecs(entry, t) <= LimitOf(entry.class)

Within(entry, t) == /\ LimitOf(entry.class) # NoLimit
                    /\ AgeSecs(entry, t) <= LimitOf(entry.class)

\* gate: the sources whose entries are reported stale; {} is Fresh.
StaleSources(set, t) == {s \in Held(set) : ~Within(set[s], t)}

=============================================================================

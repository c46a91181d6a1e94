----------------------------- MODULE BackingAge -----------------------------
(***************************************************************************)
(* Backing ages in a pipeline of agents: a validator checks a source and   *)
(* makes a backing entry; stages put entries into the backing set of their *)
(* output and derive outputs from others by the union of their sets; any   *)
(* output may be judged at any time.                                       *)
(***************************************************************************)
EXTENDS BackingSets

CONSTANT Outputs \* the outputs of the pipeline's stages

VARIABLES
    now,       \* wall clock, in seconds
    validated, \* environment: every entry a validator has made
    backing,   \* the backing set each output carries
    merged     \* history: every entry that went into an output, on any path

vars == <<now, validated, backing, merged>>

-----------------------------------------------------------------------------
\* A validator checks a source against ground truth.
Validate(source, class, skew) ==
    /\ validated' = validated \cup {[source_id |-> source,
                        attested_at_secs |-> now + skew, class |-> class]}
    /\ UNCHANGED <<now, backing, merged>>

\* A stage reads a source: any entry made for it so far may reach the stage.
Ingest(output, entry) ==
    /\ backing' = [backing EXCEPT ![output] = Insert(@, entry)]
    /\ merged' = [merged EXCEPT ![output] = @ \cup {entry}]
    /\ UNCHANGED <<now, validated>>

\* A stage derives an output from it and another one; it adds no entry of its
\* own.
Derive(output, input) ==
    /\ backing' = [backing EXCEPT ![output] = Union(@, backing[input])]
    /\ merged' = [merged EXCEPT ![output] = @ \cup merged[input]]
    /\ UNCHANGED <<now, validated>>

\* A stage starts over.
Reset(output) ==
    /\ backing' = [backing EXCEPT ![output] = Empty]
    /\ merged' = [merged EXCEPT ![output] = {}]
    /\ UNCHANGED <<now, validated>>

Tick == /\ now < MaxNow
        /\ now' = now + 1
        /\ UNCHANGED <<validated, backing, merged>>

Init == /\ now = 0
        /\ validated = {}
        /\ backing = [o \in Outputs |-> Empty]
        /\ merged = [o \in Outputs |-> {}]

Next ==
    \/ Tick
    \/ \E s \in Sources, skew \in Skews : \E class \in ClassesOf[s] :
          Validate(s, class, skew)
    \/ \E o \in Outputs, entry \in validated : Ingest(o, entry)
    \/ \E o, input \in Outputs : Derive(o, input)
    \/ \E o \in Outputs : Reset(o)

Spec == Init /\ [][Next]_vars

-----------------------------------------------------------------------------
TypeOK == /\ now \in Nat
          /\ validated \subseteq BackingEntry
          /\ backing \in [Outputs -> BackingSet]
          /\ merged \in [Outputs -> SUBSET BackingEntry]

\* No derivation launders an age: whatever the shape of the pipeline, an
\* output carries, for every source anything went into it from, an entry that
\* did go into it on some path, and the oldest of these (insert, union).
CarriesOldest ==
    \A o \in Outputs, s \in Sources :
        LET into == {e \in merged[o] : e.source_id = s} IN
        /\ backing[o][s] = NoEntry <=> into = {}
        /\ into # {} =>
             /\ backing[o][s] \in into
             /\ \A e \in into :
                  backing[o][s].attested_at_secs <= e.attested_at_secs

\* The one number that crosses a trust boundary bounds the age of everything
\* that went into the output (to_boundary).
BoundaryBoundsAll ==
    \A o \in Outputs : \A e \in merged[o] :
        /\ ToBoundary(backing[o], now) # NoEntry
        /\ AgeSecs(e, now) <= ToBoundary(backing[o], now)

\* A clean bill for an output is one for all that went into it: where the
\* entries of a source agree on its class, a Fresh verdict means that no entry
\* on any path was stale (gate after union).
ClassesAgree == \A o \in Outputs : \A e, f \in merged[o] :
                    e.source_id = f.source_id => e.class = f.class
FreshMeansAllFresh ==
    ClassesAgree => \A o \in Outputs : StaleSources(backing[o], now) = {} =>
                        \A e \in merged[o] : /\ LimitOf(e.class) # NoLimit
                                             /\ AgeSecs(e, now) <= LimitOf(e.class)

\* Neither time nor derivation freshens a source: while the classes of a source
\* agree, a source an output is stale for stays so until the stage starts over
\* (insert, union, gate).
StaysStale ==
    [][\A o \in Outputs :
         ClassesAgree' /\ merged[o] \subseteq merged'[o] =>
             StaleSources(backing[o], now) \subseteq StaleSources(backing[o], now)']_vars

=============================================================================

------------------------- MODULE SettlementContract -------------------------
(***************************************************************************)
(* What the settlement protocol promises about each commitment, with no    *)
(* word about clocks, oracles or signatures: its life begins once and ends *)
(* with its window, for good unless the chain rolls back, and it is        *)
(* cleared only while it lives. The gate may answer any number of times    *)
(* and may refuse at any time.                                             *)
(***************************************************************************)
CONSTANTS CommitIds,
          Rollbacks  \* TRUE when the chain may roll back

VARIABLES life,  \* "none", "open" or "closed"
          answer \* the gate's last answer, "none" before the first

Init == /\ life = [c \in CommitIds |-> "none"]
        /\ answer = [c \in CommitIds |-> "none"]

\* A commitment may arrive when its window is already over.
Submit(c) == /\ life[c] = "none"
             /\ \E l \in {"open", "closed"} : life' = [life EXCEPT ![c] = l]
             /\ UNCHANGED answer

\* Time ends the life of some commitments at once.
Close(S) == /\ \A c \in S : life[c] = "open"
            /\ life' = [c \in CommitIds |-> IF c \in S THEN "closed" ELSE life[c]]
            /\ UNCHANGED answer

\* A rollback takes some commitments back into their windows at once.
Reopen(S) == /\ Rollbacks
             /\ \A c \in S : life[c] = "closed"
             /\ life' = [c \in CommitIds |-> IF c \in S THEN "open" ELSE life[c]]
             /\ UNCHANGED answer

Judge(c, a) == /\ life[c] # "none"
               /\ a = "Clear" => life[c] = "open"
               /\ answer' = [answer EXCEPT ![c] = a]
               /\ UNCHANGED life

Next == \/ \E c \in CommitIds : Submit(c)
        \/ \E S \in SUBSET CommitIds : Close(S)
        \/ \E S \in SUBSET CommitIds : Reopen(S)
        \/ \E c \in CommitIds, a \in {"Clear", "Rejected", "Err"} : Judge(c, a)

Spec == Init /\ [][Next]_<<life, answer>>
=============================================================================

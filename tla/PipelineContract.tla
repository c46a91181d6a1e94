-------------------------- MODULE PipelineContract --------------------------
(***************************************************************************)
(* What an orchestrator promises about one run after the other, with no    *)
(* word about retries, memory or clocks: receipts are issued one at a time *)
(* and never taken back, a run completes with one for each of its agents   *)
(* and fails with fewer.                                                   *)
(***************************************************************************)
EXTENDS Naturals, Sequences

VARIABLES size,  \* the number of agents
          phase, \* "idle", "running", "complete" or "failed"
          issued \* the receipts of the current or last run

Init == /\ size \in Nat
        /\ phase = "idle"
        /\ issued = <<>>

Start == /\ phase # "running"
         /\ phase' = "running" /\ issued' = <<>>
         /\ UNCHANGED size

Issue == /\ phase = "running" /\ Len(issued) < size
         /\ Len(issued') = Len(issued) + 1
         /\ \A i \in 1..Len(issued) : issued'[i] = issued[i]
         /\ UNCHANGED <<size, phase>>

Finish == /\ phase = "running"
          /\ phase' = IF Len(issued) = size THEN "complete" ELSE "failed"
          /\ UNCHANGED <<size, issued>>

Next == Start \/ Issue \/ Finish

Spec == Init /\ [][Next]_<<size, phase, issued>>
=============================================================================

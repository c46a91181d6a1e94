------------------------------ MODULE Renewal ------------------------------
(***************************************************************************)
(* The renewal policy (src/renewal.rs): what a holder of a commitment is   *)
(* told when the canonical root has moved on. The policy looks at roots    *)
(* and heights only; it neither verifies the commitment nor asks the       *)
(* oracles.                                                                *)
(***************************************************************************)
EXTENDS Commitment

CONSTANT MaxFsBlocks \* the settlement window of FreshnessThresholds

ASSUME RenewalAssumption == MaxFsBlocks \in Nat

RenewalOutcome ==
    {"StillValid", "ProtectedByProspectiveOnly", "ExpiredRequireRecommit"}

\* The f_s window; a clock that runs backwards is outside of it.
WithinWindow(f, b) == /\ b >= f.anchor.block_height
                      /\ b - f.anchor.block_height <= MaxFsBlocks

\* Wrong form: a protection that never ends.
EvaluateForever(f, current, b) ==
    IF f.context_root = current THEN "StillValid"
    ELSE "ProtectedByProspectiveOnly"

\* WindowedRenewal::evaluate against the current canonical root: the window is
\* looked at only after the root was found to have moved.
Evaluate(f, current, b) ==
    IF f.context_root = current THEN "StillValid"
    ELSE IF WithinWindow(f, b) THEN "ProtectedByProspectiveOnly"
    ELSE "ExpiredRequireRecommit"
=============================================================================

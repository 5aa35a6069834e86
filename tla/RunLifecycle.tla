---------------------------- MODULE RunLifecycle ----------------------------
(***************************************************************************)
(* What a durable run promises to an operator, whatever controls, results  *)
(* and failures reach it (docs/contracts/durable-orchestration-v1.md,      *)
(* "Run Projection" and "Retry And Controls"): a bounded number of         *)
(* executions, one at a time; evidence that only grows, and only while an  *)
(* owner execution is under way; one final outcome, which claims no more   *)
(* than the evidence supports.                                             *)
(***************************************************************************)
EXTENDS Integers

CONSTANTS MaxAttempts, Evidence

VARIABLES phase,     \* queued, executing, held for an operator, or closed
          attempts,  \* owner executions asked for so far
          evidence,  \* owner receipts retained
          outcome    \* outcome of the closed run

vars == <<phase, attempts, evidence, outcome>>

Phases == {"queued", "executing", "held", "closed"}

Init == /\ phase = "queued"
        /\ attempts = 0
        /\ evidence = {}
        /\ outcome = "none"

Execute == /\ phase \in {"queued", "held"} /\ attempts < MaxAttempts
           /\ phase' = "executing"
           /\ attempts' = attempts + 1
           /\ UNCHANGED <<evidence, outcome>>

Gather == /\ phase = "executing"
          /\ evidence' \in {e \in SUBSET Evidence : evidence \subseteq e}
          /\ UNCHANGED <<phase, attempts, outcome>>

Hold == /\ phase = "executing"
        /\ phase' = "held"
        /\ UNCHANGED <<attempts, evidence, outcome>>

Close(result) == /\ phase' = "closed"
                 /\ outcome' = result
                 /\ UNCHANGED <<attempts, evidence>>

(* The approval expired before the run started: nothing was executed.      *)
Reject == phase = "queued" /\ attempts = 0 /\ Close("failed-no-effect")

(* The last execution failed.                                              *)
Exhaust == /\ phase = "executing" /\ attempts = MaxAttempts
           /\ Close("failed-no-effect")

Complete == phase = "executing" /\ evidence # {} /\ Close("completed")

Cancel == phase # "closed" /\ Close("cancelled-no-effect")

(* The owner had verified the run when the cancel was applied.             *)
CancelVerified == /\ phase = "executing" /\ evidence # {}
                  /\ Close("cancelled-with-retained-evidence")

Next == \/ Execute \/ Gather \/ Hold
        \/ Reject \/ Exhaust \/ Complete \/ Cancel \/ CancelVerified

Spec == Init /\ [][Next]_vars
=============================================================================

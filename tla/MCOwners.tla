------------------------------ MODULE MCOwners ------------------------------
(***************************************************************************)
(* The requests that change what an owner keeps, each kind from its own    *)
(* initial state: the custody of a repository; its lifecycle; a review in  *)
(* an owner's repository; a source credential; a model operation; and the  *)
(* controlled proof of a scenario with its owner receipt.  kind is the one *)
(* that a behaviour is about; variables it does not have are "none".       *)
(***************************************************************************)
EXTENDS RepositoryCustody, Sequences, TLC

CONSTANTS Kinds, r1, r2, r3,
          MaxStops, Changes, Archiving, MaxMoves, MaxRenewals,
          MaxHistory, MaxRestarts,
          Contexts, Scenarios, Signals, MaxMounts,
          MaxProofAttempts

(* A lock that nobody holds is not held by a call, or for a request.       *)
ASSUME CallsAssumption == "none" \notin Calls \cup Changes

(* A projection has room for 16 controls; each attempt takes two of them.  *)
ASSUME ProofAssumption == MaxProofAttempts \in 1..8

VARIABLES kind, source, journal, lock, call, faults

custodyVars == vars
ownerVars == <<source, journal, lock, call, faults>>

Review == INSTANCE OwnerReview
Intake == INSTANCE WorkspaceIntake
Inventory == INSTANCE InventoryChange
Landing == INSTANCE PrototypeLanding
Maturity == INSTANCE PrototypeMaturity
Closure == INSTANCE PrototypeClosure
Target == INSTANCE ProposalTarget
Lifecycle == INSTANCE RepositoryLifecycle WITH record <- journal
Credential == INSTANCE SourceCredential
                  WITH owner <- source, record <- journal, env <- faults
Model == INSTANCE ModelOperations
             WITH platform <- source, record <- journal, pending <- lock,
                  restarts <- faults

Proof == INSTANCE ControlledProof
             WITH env <- source, run <- journal, receipts <- faults,
                  Callers <- Calls, MaxAttempts <- MaxProofAttempts

Reviews == {"intake", "inventory", "landing", "maturity", "closure", "target"}

(* The variables of the custody keep their initial values in the others.   *)
MCInit ==
    /\ kind \in Kinds /\ Init
    /\ CASE kind = "custody" ->
             /\ source = "none" /\ journal = "none" /\ lock = "none"
             /\ call = "none" /\ faults = "none"
         [] kind \in Reviews -> Review!Init
         [] kind = "lifecycle" -> Lifecycle!Init
         [] kind = "credential" -> Credential!Init
         [] kind = "model" -> Model!Init
         [] kind = "proof" -> Proof!Init /\ lock = "none"

MCNext ==
    \/ kind = "custody" /\ Next /\ UNCHANGED <<kind, ownerVars>>
    \/ /\ UNCHANGED <<kind, custodyVars>>
       /\ \/ kind = "intake" /\ Intake!Next
          \/ kind = "inventory" /\ Inventory!Next
          \/ kind = "landing" /\ Landing!Next
          \/ kind = "maturity" /\ Maturity!Next
          \/ kind = "closure" /\ Closure!Next
          \/ kind = "target" /\ Target!Next
          \/ kind = "lifecycle" /\ Lifecycle!Next
          \/ kind = "credential" /\ Credential!Next
          \/ kind = "model" /\ Model!Next
          \/ kind = "proof" /\ Proof!Next /\ UNCHANGED lock

(* The controls of the proof's callers.                                    *)
MCSignals ==
    [id : {"k1"}, action : {"cancel"}, session : {"x1"}, kind : {"none"}, seen : {"none"}]
      \cup [id : {"k2"}, action : {"resume", "defer", "retry"}, session : {"x1"},
            kind : {"none"}, seen : {"none"}]
      \cup [id : {"k3"}, action : {"signal"}, session : {"x1"},
            kind : {"deterministic-replay", "backup-restore"}, seen : {"session"}]

MCVars == <<kind, custodyVars, ownerVars>>

MCSpec == MCInit /\ [][MCNext]_MCVars

Symmetry == Permutations(Calls)

(* The requests of the custody: a creation, a linkage, and corrections of  *)
(* the creation.  One whose content differs from its predecessor is        *)
(* refused, and conflicts with a stored one that does not.                 *)
Creation(r, cause, settings) ==
    [id |-> r, action |-> "provision-new", causation |-> cause,
     settings |-> settings, target |-> 0]

MCCreation == {Creation(r1, "none", "approved")}
MCLinkage == MCCreation \cup {[id |-> r3, action |-> "link-existing",
                               causation |-> "none", settings |-> "approved",
                               target |-> 1]}
MCAll == MCLinkage \cup {Creation(r2, r1, "approved"), Creation(r2, r1, "other")}

-----------------------------------------------------------------------------
(* What a record calls a success is one at the owner: a review was merged  *)
(* at its approved and checked head; a lifecycle change is in the history  *)
(* and at the provider once; a configuration that completed was made, and  *)
(* one that was rejected or cancelled was not.                             *)
SuccessIsTheOwners ==
    /\ kind \in Reviews => Review!SucceededIsReviewed
    /\ kind = "lifecycle" => Lifecycle!HistoryIsTrue
    /\ kind = "model" => Model!OutcomeIsTheOwners
    /\ kind = "proof" => /\ Proof!ProjectionAccepted
                         /\ Proof!PassedIsObserved /\ Proof!ReceiptIsTheRuns

(* Where nothing but a closed or merged review ends a published request,   *)
(* a request that ended has no open review, unless its call went on after  *)
(* it had lost the lock; and what was stopped as never issued has no       *)
(* operation at the platform.                                              *)
EndedLeavesNothingOpen ==
    /\ kind \in {"intake", "inventory", "closure", "target"} /\ ~faults.lost =>
          (journal.status \in {"succeeded", "cancelled", "rejected", "requires-action",
                               "denied", "failed", "blocked", "stale"}
              => source.review # "open")
    /\ kind = "credential" => Credential!UnissuedHasNoCredential

(* A request is not cancelled over a change that was merged meanwhile; and *)
(* no source effect is made with the credential of a stopped intent, whose *)
(* revocation nothing replaces.                                            *)
StopIsKept ==
    [][/\ kind \in Reviews => Review!CancelStep
       /\ kind = "credential" => Credential!EffectStep /\ Credential!RevokedStep
       /\ kind = "proof" => Proof!PassStep]_MCVars
=============================================================================

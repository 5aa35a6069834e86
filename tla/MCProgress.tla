----------------------------- MODULE MCProgress -----------------------------
(***************************************************************************)
(* What must happen, of four kinds of durable execution: the control API   *)
(* over a run, the retirement of a generation, a refinement run, and the   *)
(* run of a controlled proof.  kind is the one that a behaviour is about;  *)
(* the variables of the others keep their initial values.                  *)
(***************************************************************************)
EXTENDS RunControlApi

CONSTANTS Runs, Capacity, MaxManifests, Drafts, Items, MaxEdits, MaxStrays,
          Contexts, Scenarios, Signals, MaxMounts

VARIABLES
    kind,
    ingress, ordinary, starts, requested, registry, runs, signalled,
    pinned, live, resume, sealRequests, retire, receipt,
    canon, tree, edits, draft, run, attempts, receipts, held,
    env, proof, asked, handed

generationVars ==
    <<ingress, ordinary, starts, requested, registry, runs, signalled,
      pinned, live, resume, sealRequests, retire, receipt>>
refinementVars == <<canon, tree, edits, draft, run, attempts, receipts, held>>
proofVars == <<env, proof, asked, handed>>

Generation == INSTANCE GenerationRetirement
Refinement == INSTANCE RefinementRun
Proof == INSTANCE ControlledProof
             WITH run <- proof, call <- asked, receipts <- handed,
                  Callers <- {"o1"}

(* A control that defers, one that resumes, and a cancel under the key of  *)
(* the first.                                                              *)
Control(id, key, action) == [id |-> id, key |-> key, action |-> action]

MCRetirement == Control("retire", "retire-key", "cancel")

Defer  == Control("d", "d-key", "defer")
Resume == Control("s", "s-key", "resume")
Cancel == Control("c", "d-key", "cancel")   \* under the key of the defer

MCControls == {Defer, Resume, Cancel}
MCCallers == {"o1", "o2", "o3"}
MCControlOf == "o1" :> Defer @@ "o2" :> Resume @@ "o3" :> Cancel

MCInit ==
    /\ kind \in {"api", "retirement", "refinement", "proof"}
    /\ ApiInit /\ Generation!Init /\ Refinement!Init /\ Proof!Init
    /\ approvalExpired => kind = "api"

MCVars == <<kind, apiVars, generationVars, refinementVars, proofVars>>

IsApi == kind = "api" /\ UNCHANGED <<kind, generationVars, refinementVars, proofVars>>
IsRetirement == kind = "retirement" /\ UNCHANGED <<kind, apiVars, refinementVars, proofVars>>
IsRefinement == kind = "refinement" /\ UNCHANGED <<kind, apiVars, generationVars, proofVars>>
IsProof == kind = "proof" /\ UNCHANGED <<kind, apiVars, generationVars, refinementVars>>

MCNext ==
    \/ IsApi /\ ApiNext
    \/ IsRetirement /\ Generation!Next
    \/ IsRefinement /\ Refinement!Next
    \/ IsProof /\ Proof!Next

(* The controls of the proof's caller.                                     *)
MCSignals ==
    [id : {"k1"}, action : {"cancel"}, session : {"x1"}, kind : {"none"}, seen : {"none"}]
      \cup [id : {"k2"}, action : {"resume", "defer"}, session : {"x1"},
            kind : {"none"}, seen : {"none"}]

(* The control API by itself.                                              *)
ApiOnly == MCInit /\ kind = "api" /\ [][IsApi /\ ApiNext]_MCVars

(* Fair are the steps that the specifications of the kinds are fair to; of *)
(* the proof, time, its worker, and Temporal's tasks and activities.       *)
MCSpec ==
    /\ MCInit /\ [][MCNext]_MCVars
    /\ WF_MCVars(IsApi /\ Workflow /\ UNCHANGED call)
    /\ WF_MCVars(IsApi /\ ActivityReturn /\ UNCHANGED call)
    /\ \A o \in Callers : WF_MCVars(IsApi /\ ReadBack(o))
    /\ WF_MCVars(IsRetirement /\ Generation!RetirementProcess)
    /\ \A m \in 1..MaxManifests : WF_MCVars(IsRetirement /\ Generation!HandleSeal(m))
    /\ \A w \in Runs :
          WF_MCVars(IsRetirement /\ w \in signalled /\ Generation!RunCloses(w))
    /\ \A d \in Drafts :
          /\ WF_MCVars(IsRefinement /\ Refinement!Proceeds(d))
          /\ WF_MCVars(IsRefinement /\ Refinement!AttemptEnds(d))
    /\ WF_MCVars(IsProof /\ Proof!Tick)
    /\ WF_MCVars(IsProof /\ Proof!WorkerStarts)
    /\ WF_MCVars(IsProof /\ Proof!WorkflowTask)
    /\ WF_MCVars(IsProof /\ Proof!ActivityReturns)

(* Once the generation is drained for a manifest its retirement ends.      *)
DrainEnds == Generation!DrainEnds

(* A started refinement run ends, with a receipt or with its failure; and  *)
(* the run of a controlled proof, at the latest with its authorization,    *)
(* when a context stays mounted for its worker.                            *)
RunsEnd == Refinement!RunsEnd /\ Proof!ProofEnds
=============================================================================

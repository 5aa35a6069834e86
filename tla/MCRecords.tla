----------------------------- MODULE MCRecords ------------------------------
(***************************************************************************)
(* The records that the workflows keep, most of them in OpenProject: the   *)
(* lifecycle transitions, the proposals, the ideas, the delivery items,    *)
(* the plan of a Delivery, the accepted commands on its packages, and the  *)
(* records that a refinement run writes.  kind is what a behaviour is      *)
(* about; variables it does not have are "none".                           *)
(***************************************************************************)
EXTENDS LifecycleTransition, TLC

CONSTANTS
    t1, t2,
    Writers, Commands, Resolutions, Applications, Epics, MaxVersion, ReceiptWindow,
    Calls, Deliveries, MaxIdeaLock, MaxItemLock,
    Drafts, Items, MaxAttempts, MaxEdits, MaxStrays,
    Plans, Trees, Classified, MaxMoves, MaxFailures

(* An id names one thing: a command, a resolution or an application.       *)
ASSUME IdsAssumption ==
    /\ Commands \cap Resolutions = {}
    /\ Applications \cap (Commands \cup Resolutions) = {}
    /\ None \notin Commands \cup Resolutions

VARIABLES
    kind, entry, activity, epics, request, call, commits, last,
    faults, canon, tree, edits, draft, run, attempts, receipts, held

Proposal == INSTANCE ProposalWorkflow WITH Calls <- Writers, record <- entry
Idea == INSTANCE IdeaRecord WITH MaxLock <- MaxIdeaLock, record <- entry
Item == INSTANCE DeliveryItem WITH MaxLock <- MaxItemLock, record <- entry
Refinement == INSTANCE RefinementRun
Plan == INSTANCE DeliveryPlan WITH Calls <- Writers, record <- entry
Package == INSTANCE PackageCommandsProofs
               WITH Commands <- Applications, Payloads <- Resolutions, record <- entry
Packages == INSTANCE PackageCommandsProofs
                WITH Calls <- Writers, Payloads <- Deliveries, record <- entry

(* Of two transitions one has all its events, and the other is superseded  *)
(* by it or supersedes it.                                                 *)
MCMaxEvents == t1 :> 8 @@ t2 :> 3

allVars ==
    <<kind, record, entry, activity, epics, request, call, commits, last, faults,
      canon, tree, edits, draft, run, attempts, receipts, held>>

(* The variable of the transitions keeps its initial value in the others.  *)
MCKind ==
    \/ /\ kind = "transition"
       /\ entry = None /\ activity = None /\ epics = None /\ request = None /\ call = None
          /\ commits = None /\ last = None /\ faults = None /\ canon = None
          /\ tree = None /\ edits = None /\ draft = None /\ run = None
          /\ attempts = None /\ receipts = None /\ held = None
    \/ /\ kind = "proposal" /\ Proposal!Init
       /\ last = None /\ faults = None /\ canon = None /\ tree = None
          /\ edits = None /\ draft = None /\ run = None /\ attempts = None
          /\ receipts = None /\ held = None
    \/ /\ kind = "idea" /\ Idea!Init
       /\ activity = None /\ request = None /\ commits = None /\ canon = None
          /\ tree = None /\ edits = None /\ draft = None /\ run = None
          /\ attempts = None /\ receipts = None /\ held = None
    \/ /\ kind = "delivery item" /\ Item!Init
       /\ activity = None /\ epics = None /\ request = None /\ commits = None
          /\ canon = None /\ tree = None /\ edits = None /\ draft = None
          /\ run = None /\ attempts = None /\ receipts = None /\ held = None
    \/ /\ kind = "refinement" /\ Refinement!Init
       /\ entry = None /\ activity = None /\ epics = None /\ request = None
          /\ call = None /\ commits = None /\ last = None /\ faults = None
    \/ /\ kind = "plan" /\ Plan!Init
       /\ activity = None /\ epics = None /\ request = None /\ commits = None
          /\ last = None /\ canon = None /\ tree = None /\ edits = None
          /\ draft = None /\ run = None /\ attempts = None /\ receipts = None
          /\ held = None
    \/ /\ kind \in {"command", "two commands"}
       /\ IF kind = "command" THEN Package!Init ELSE Packages!Init
       /\ epics = None /\ last = None /\ tree = None /\ draft = None
          /\ run = None /\ attempts = None

MCInit == Init /\ MCKind

MCOthers ==
    \/ /\ kind = "proposal" /\ Proposal!Next
       /\ UNCHANGED <<kind, last, faults, canon, tree, edits, draft, run,
                      attempts, receipts, held>>
    \/ /\ kind = "idea" /\ Idea!Next
       /\ UNCHANGED <<kind, activity, request, commits, canon, tree, edits,
                      draft, run, attempts, receipts, held>>
    \/ /\ kind = "delivery item" /\ Item!Next
       /\ UNCHANGED <<kind, activity, epics, request, commits, canon, tree,
                      edits, draft, run, attempts, receipts, held>>
    \/ /\ kind = "refinement" /\ Refinement!Next
       /\ UNCHANGED <<kind, entry, activity, epics, request, call, commits,
                      last, faults>>
    \/ /\ kind = "plan" /\ Plan!Next
       /\ UNCHANGED <<kind, activity, epics, request, commits, last, canon,
                      tree, edits, draft, run, attempts, receipts, held>>
    \/ /\ \/ kind = "command" /\ Package!Next
          \/ kind = "two commands" /\ Packages!Next
       /\ UNCHANGED <<kind, epics, last, tree, draft, run, attempts>>

MCNext ==
    \/ /\ kind = "transition" /\ Next
       /\ UNCHANGED <<kind, entry, activity, epics, request, call, commits,
                      last, faults, canon, tree, edits, draft, run, attempts,
                      receipts, held>>
    \/ MCOthers /\ UNCHANGED record

(* What plans wish for, and what they may find.                            *)
Wish(status, pi) == [status |-> status, pi |-> pi]
Item0(name, parent, status) ==
    [name |-> name, parent |-> parent, status |-> status, pi |-> "planned",
     whole |-> TRUE, version |-> 0]

MCPlans ==
    {[wish |-> [objective |-> Wish("ready", "planned"),
                feature |-> Wish("ready", "planned"),
                story |-> Wish("ready", "planned")],
      missing |-> "ignore", epic |-> TRUE],
     [wish |-> [objective |-> Wish("as is", "planned"),
                feature |-> Wish("as is", "as is"),
                story |-> Wish("as is", "planned")],
      missing |-> "defer", epic |-> FALSE],
     [wish |-> [feature |-> Wish("new", "backlog")],
      missing |-> "retire", epic |-> FALSE]}

MCTrees ==
    {<<Item0("objective", 0, "ready"), Item0("feature", 0, "ready"), Item0("story", 2, "ready")>>,
     <<Item0("feature", 0, "ready"), Item0("story", 1, "done")>>}

MCSpec == MCInit /\ [][MCNext]_allVars

Symmetry ==
    Permutations(Writers) \cup Permutations(Commands) \cup Permutations(Calls)

-----------------------------------------------------------------------------
(* Every event of a proposal command names the version at which it changed *)
(* the record, once, whatever was retried, lost or repaired later.  The    *)
(* owner of a package command is asked for it once, save after overlapping *)
(* acceptances, and its results say what was done.                         *)
HistoryTellsTheCommits ==
    /\ kind = "proposal" => Proposal!HistoryTellsTheCommits
    /\ kind = "command" => Package!AskedOnce /\ Package!ResultsAreTrue
    /\ kind = "two commands" => Packages!AskedOnce /\ Packages!ResultsAreTrue

(* Every field of an idea or item holds what the calls that addressed it   *)
(* asked for, unless a refused PATCH was replayed or one sent without its  *)
(* lock version.                                                           *)
NoUpdateIsLost == kind \in {"idea", "delivery item"} => Idea!NoUpdateIsLost

(* An idea has one Delivery, however often its consumption is repeated,    *)
(* unless two consumptions were about to create it at the same time.       *)
OneDelivery == kind = "idea" => Idea!OneDelivery

(* Projecting an evidence reference takes nothing out of a description.  A *)
(* plan that is answered is there as it was asked for, whatever failed     *)
(* before it; no item is placed beside its own kind; and no feature is     *)
(* taken back over committed scope.                                        *)
DeliveryKeepsItsWork ==
    [][/\ \A c \in Calls :
             kind = "delivery item" /\ Item!IsProjection(c) => Item!NotesStay
       /\ kind = "plan" => Plan!AnswerStep /\ Plan!PlaceStep /\ Plan!DecommitStep]_allVars

(* A completed refinement run wrote or found every value of the accepted   *)
(* draft, and each of them was there after its last operation was done.    *)
CompletionIsReadBack == kind = "refinement" => Refinement!CompletionIsReadBack
=============================================================================

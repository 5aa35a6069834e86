--------------------------- MODULE SessionCleanup ---------------------------
(***************************************************************************)
(* The retirement of a work session's Git resources when the work closes:  *)
(* the resource manifest of the session, the deletion of its worktree and  *)
(* branches, and the terminal manifest and receipt that outlive it.        *)
(*                                                                         *)
(* The lock of the session admits one close at a time.  Developers go on   *)
(* with the worktree, the branch and its remote while a close runs, and    *)
(* the process may stop between any two durable steps.                     *)
(*                                                                         *)
(* A branch is the set of its commits, {} when there is none.  The         *)
(* worktree is attached to the local branch: its head is the branch's.     *)
(***************************************************************************)
EXTENDS Naturals, FiniteSets

CONSTANTS Commits,     \* commits developers may make; Base is the first
          Base,
          MaxCrashes   \* bound on the stops of the process

Resources == {"worktree", "local", "remote"}
None == "none"

VARIABLES git,       \* worktree, local, remote; what the PR merged
          dirty,     \* uncommitted changes in the worktree
          foreign,   \* the resources that were there before the session
          made,      \* commits made so far
          packet,    \* the Review Packet is finalized for the merged head
          art,       \* the covered ART items are closed
          manifest,  \* the session's resource manifest
          kept,      \* the retained terminal manifest, against the session's
          receipt, indexed,
          session,   \* "active", or "none" once removed
          process,   \* the step of the command that runs
          crashes

vars == <<git, dirty, foreign, made, packet, art, manifest, kept, receipt,
          indexed, session, process, crashes>>
world == <<git, dirty, foreign, made, packet, art>>
files == <<manifest, kept, receipt, indexed, session>>

NoManifest == [state |-> None, owned |-> {},
               outcome |-> [r \in Resources |-> "retained"]]
Idle == [at |-> "idle", resource |-> None]
At(step) == process.at = step
To(step) == process' = [at |-> step, resource |-> None]

There(r) == CASE r = "worktree" -> git.worktree
              [] r = "local"    -> git.local # {}
              [] r = "remote"   -> git.remote # {}

(* A branch, its worktree, and its remote may exist before the session.    *)
Init == /\ git \in [worktree : BOOLEAN, local : {{}, {Base}},
                    remote : {{}, {Base}}, merged : {{}}]
        /\ git.worktree => git.local # {}
        /\ git.remote # {} => git.local # {}
        /\ foreign = {r \in Resources : There(r)}
        /\ dirty = FALSE /\ made = {} /\ packet = FALSE /\ art = "open"
        /\ manifest = NoManifest /\ kept = None
        /\ receipt = FALSE /\ indexed = FALSE
        /\ session = "active" /\ process = Idle /\ crashes = 0

-----------------------------------------------------------------------------
(* Developers.                                                             *)
Edit == /\ git.worktree /\ ~dirty /\ dirty' = TRUE
        /\ UNCHANGED <<git, foreign, made, packet, art, files, process, crashes>>

Commit == /\ git.worktree /\ dirty
          /\ \E c \in Commits \ made :
                /\ made' = made \cup {c}
                /\ git' = [git EXCEPT !.local = @ \cup {c}]
          /\ dirty' = FALSE
          /\ UNCHANGED <<foreign, packet, art, files, process, crashes>>

Push == /\ git.local # {} /\ git.remote \subseteq git.local
        /\ git.remote # git.local /\ git.merged = {}
        /\ git' = [git EXCEPT !.remote = git.local]
        /\ UNCHANGED <<dirty, foreign, made, packet, art, files, process, crashes>>

(* A commit pushed from another clone.                                     *)
PushElsewhere ==
    /\ git.remote # {}
    /\ \E c \in Commits \ made :
          /\ made' = made \cup {c}
          /\ git' = [git EXCEPT !.remote = @ \cup {c}]
    /\ UNCHANGED <<dirty, foreign, packet, art, files, process, crashes>>

MergePullRequest ==
    /\ git.remote \cap Commits # {} /\ git.merged = {}
    /\ git' = [git EXCEPT !.merged = git.remote]
    /\ UNCHANGED <<dirty, foreign, made, packet, art, files, process, crashes>>

FinalizePacket == /\ git.merged # {} /\ ~packet /\ packet' = TRUE
                  /\ UNCHANGED <<git, dirty, foreign, made, art, files, process, crashes>>

CloseArtElsewhere == /\ art = "open" /\ art' = "closed"
                     /\ UNCHANGED <<git, dirty, foreign, made, packet, files,
                                    process, crashes>>

World == \/ Edit \/ Commit \/ Push \/ PushElsewhere
         \/ MergePullRequest \/ FinalizePacket \/ CloseArtElsewhere

-----------------------------------------------------------------------------
(* A new generation of the session's manifest.                             *)
WriteManifest(m) == /\ manifest' = m
                    /\ kept' = IF kept = "this" THEN "earlier" ELSE kept

(* continue: the worktree is created, and only then recorded as created.   *)
(* A worktree that is found without a manifest is of unknown origin.       *)
EnsureWorktree ==
    /\ At("idle") /\ session = "active" /\ manifest = NoManifest
    /\ IF git.worktree
         THEN /\ process' = [at |-> "own", resource |-> {}]
              /\ UNCHANGED git
         ELSE /\ ~(git.local = {} /\ git.remote # {})
              /\ git' = [git EXCEPT !.worktree = TRUE,
                            !.local = IF @ = {} THEN {Base} ELSE @]
              /\ process' = [at |-> "own", resource |->
                    {"worktree"} \cup (IF git.local = {} THEN {"local", "remote"} ELSE {})]
    /\ UNCHANGED <<dirty, foreign, made, packet, art, files, crashes>>

RecordOwnership ==
    /\ At("own")
    /\ WriteManifest([NoManifest EXCEPT !.state = "not-required",
                                        !.owned = process.resource])
    /\ To("idle")
    /\ UNCHANGED <<world, receipt, indexed, session, crashes>>

-----------------------------------------------------------------------------
(* close: the ART items are closed through the closeout, unless they are.  *)
Close ==
    /\ At("idle") /\ session = "active"
    /\ \/ receipt /\ To("confirm") /\ UNCHANGED art
       \/ /\ ~receipt /\ (packet \/ art = "closed")
          /\ art' = "closed" /\ To("prepare")
    /\ UNCHANGED <<git, dirty, foreign, made, packet, files, crashes>>

ExpectedHead == git.merged

(* The outcome planned for a resource of the session.                      *)
Planned(r) ==
    IF r \notin manifest.owned THEN "retained"
    ELSE IF ~packet THEN "blocked"
    ELSE IF ~There(r) THEN "removed"
    ELSE IF CASE r = "worktree" -> ~dirty /\ git.local = ExpectedHead
              [] r = "local"    -> git.local = ExpectedHead
              [] r = "remote"   -> git.remote = ExpectedHead
         THEN "eligible" ELSE "blocked"

Prepare ==
    /\ At("prepare")
    /\ LET outcome == [r \in Resources |-> Planned(r)]
           blocked == \E r \in Resources : outcome[r] = "blocked"
       IN  /\ WriteManifest([manifest EXCEPT !.outcome = outcome,
                                !.state = IF blocked THEN "blocked" ELSE "ready"])
           /\ To(IF blocked THEN "idle" ELSE "start")
    /\ UNCHANGED <<world, receipt, indexed, session, crashes>>

Start == /\ At("start")
         /\ WriteManifest([manifest EXCEPT !.state = "running"])
         /\ To("retire")
         /\ UNCHANGED <<world, receipt, indexed, session, crashes>>

Order == [worktree |-> 1, local |-> 2, remote |-> 3]
NextEligible(r) ==
    /\ manifest.outcome[r] = "eligible"
    /\ \A s \in Resources : manifest.outcome[s] = "eligible" => Order[r] <= Order[s]

Record(r, outcome) ==
    WriteManifest([manifest EXCEPT !.outcome[r] = outcome,
                     !.state = IF outcome = "blocked" THEN "blocked" ELSE @])

(* The plan of the resource is made again right before its deletion.       *)
Inspect(r) ==
    /\ At("retire") /\ NextEligible(r)
    /\ CASE Planned(r) = "eligible" ->
              process' = [at |-> "delete", resource |-> r] /\ UNCHANGED files
         [] Planned(r) = "removed"  ->
              /\ Record(r, "removed") /\ UNCHANGED process
              /\ UNCHANGED <<receipt, indexed, session>>
         [] OTHER                   ->
              /\ Record(r, "blocked") /\ To("idle")
              /\ UNCHANGED <<receipt, indexed, session>>
    /\ UNCHANGED <<world, crashes>>

(* Mutant: a branch is deleted whatever its head.                          *)
DeletedAnyHead(r) ==
    CASE r = "worktree" -> ~dirty
      [] r = "local"    -> TRUE
      [] r = "remote"   -> TRUE

(* Git's own check: worktree remove refuses a dirty one, update-ref and    *)
(* the leased push compare the head.                                       *)
Deleted(r) ==
    CASE r = "worktree" -> ~dirty
      [] r = "local"    -> git.local = ExpectedHead
      [] r = "remote"   -> git.remote = ExpectedHead

Delete(r) ==
    /\ At("delete") /\ process.resource = r
    /\ \/ /\ Deleted(r)
          /\ git' = [git EXCEPT ![r] = IF r = "worktree" THEN FALSE ELSE {}]
          /\ process' = [at |-> "record", resource |-> r]
          /\ UNCHANGED files
       \/ /\ ~Deleted(r)
          /\ Record(r, "blocked") /\ To("idle")
          /\ UNCHANGED <<git, receipt, indexed, session>>
    /\ UNCHANGED <<dirty, foreign, made, packet, art, crashes>>

Removed(r) == /\ At("record") /\ process.resource = r
              /\ Record(r, "removed") /\ To("retire")
              /\ UNCHANGED <<world, receipt, indexed, session, crashes>>

Complete == /\ At("retire")
            /\ \A r \in Resources : manifest.outcome[r] # "eligible"
            /\ WriteManifest([manifest EXCEPT !.state = "complete"])
            /\ To("keep")
            /\ UNCHANGED <<world, receipt, indexed, session, crashes>>

-----------------------------------------------------------------------------
(* The terminal manifest is retained unless a different one is already.    *)
KeepManifest ==
    /\ At("keep") /\ kept # "earlier"
    /\ kept' = "this" /\ To("receipt")
    /\ UNCHANGED <<world, manifest, receipt, indexed, session, crashes>>

(* Mutant: the aliases are not indexed to the receipt.                     *)
KeepReceiptOnly == /\ At("receipt") /\ receipt' = TRUE /\ To("remove")
                   /\ UNCHANGED <<world, manifest, kept, indexed, session, crashes>>

KeepReceipt == /\ At("receipt") /\ receipt' = TRUE /\ To("index")
               /\ UNCHANGED <<world, manifest, kept, indexed, session, crashes>>

(* A close that finds the receipt: the retained manifest must be the       *)
(* session's, or the close throws.                                         *)
Confirm == /\ At("confirm")
           /\ To(IF kept = "this" THEN "index" ELSE "idle")
           /\ UNCHANGED <<world, files, crashes>>

KeepIndex == /\ At("index") /\ indexed' = TRUE /\ To("remove")
             /\ UNCHANGED <<world, manifest, kept, receipt, session, crashes>>

RemoveSession == /\ At("remove") /\ session' = None /\ To("idle")
                 /\ UNCHANGED <<world, manifest, kept, receipt, indexed, crashes>>

(* A different manifest is retained, or a write fails: the manifest goes   *)
(* back to running under a new generation, the session stays blocked.      *)
Failed(step) ==
    /\ At(step)
    /\ WriteManifest([manifest EXCEPT !.state = "running"])
    /\ To("idle")
    /\ UNCHANGED <<world, receipt, indexed, session>>

Conflict == /\ kept = "earlier" /\ Failed("keep") /\ UNCHANGED crashes

WriteFails == /\ crashes < MaxCrashes /\ crashes' = crashes + 1
              /\ \E step \in {"keep", "receipt", "index", "remove"} : Failed(step)

Crash == /\ crashes < MaxCrashes /\ ~At("idle")
         /\ crashes' = crashes + 1 /\ To("idle")
         /\ UNCHANGED <<world, files>>

Step == \/ RecordOwnership \/ Prepare \/ Start \/ Complete
        \/ (\E r \in Resources : Inspect(r) \/ Delete(r) \/ Removed(r))
        \/ KeepManifest \/ KeepReceipt \/ Confirm \/ KeepIndex \/ RemoveSession
        \/ Conflict

Next == World \/ EnsureWorktree \/ Close \/ Step \/ WriteFails \/ Crash

Spec == Init /\ [][Next]_vars

(* The process goes on with a step it began; the operator repeats a close  *)
(* that did not finish.                                                    *)
FairSpec == Spec /\ WF_vars(Step) /\ WF_vars(Close)

-----------------------------------------------------------------------------
(* A close removes only what its session created, and never the last copy  *)
(* of work that is not in the base: every commit that was not merged stays *)
(* on a branch, and uncommitted changes keep their worktree.               *)
CleanupKeepsOthersWork ==
    /\ \A r \in foreign : There(r)
    /\ \A c \in made \ git.merged : c \in git.local \cup git.remote
    /\ dirty => git.worktree

(* A session goes only when what explains it stays: the receipt, found by  *)
(* its aliases, and the very manifest the receipt was made of, in which    *)
(* nothing the session owned is left.                                      *)
SessionLeavesItsReceipt ==
    session = None =>
        /\ receipt /\ indexed /\ kept = "this"
        /\ manifest.state = "complete"
        /\ \A r \in manifest.owned : manifest.outcome[r] = "removed"

(* docs/contracts/delivery-workflow-api-v1.md, "repeated close and restart *)
(* recovery idempotent": once the terminal manifest is retained, repeating *)
(* the close ends with the session removed.                                *)
RepeatedCloseFinishes == kept # None ~> session = None
=============================================================================

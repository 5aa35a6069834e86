----------------------------- MODULE MCSessions -----------------------------
(***************************************************************************)
(* What the service and its commands keep in files: the lock of a custody  *)
(* request, the journal of transitions, the saved work of a browser, the   *)
(* work sessions with their commands, their cleanup and their              *)
(* architecture, the source that is drafted for them, and the landing of   *)
(* one unit of their work; and the board of a Delivery, which is           *)
(* OpenProject's.  kind is what a behaviour is about; variables it does    *)
(* not have are "none", those of the lock as nobody had taken it.          *)
(***************************************************************************)
EXTENDS RequestLock, TLC

CONSTANTS
    p1, Requests, Events, Writers,
    Sessions, Contents, Briefs, Originals, MaxRecoveries, MaxCommands, MaxSaves,
    Runners, Hosts, Commands, Items, MaxWrites, MaxTakeovers,
    Commits, Base, Branches, Designs, MaxVersion, MaxRevision, MaxCrashes,
    MaxHead, Covering, MaxArchitecture, MaxDisturbances, MaxStops,
    PageSize, MaxBegun

MCOneProcess == [c \in Calls |-> p1]

(* Two creations under one idempotency key.                                *)
MCRequests == {[id |-> "t1", key |-> "k1", content |-> "a"],
               [id |-> "t2", key |-> "k1", content |-> "b"]}

(* The id of a transition is a digest of its idempotency key and more.     *)
ASSUME JournalAssumption ==
    /\ "none" \notin Writers \cup {r.id : r \in Requests}
    /\ \A q, r \in Requests : q.id = r.id => q.key = r.key

(* What a lock directory holds that is nobody's is not a call.             *)
ASSUME RunnersAssumption == {"none", "stopped"} \cap Runners = {}

VARIABLES
    kind, journal, lock, call, acked, overran, current, previous,
    kept, index, writing, session, record, directory, begun,
    takeovers, crashes, git, dirty, foreign, made, packet, art,
    manifest, receipt, indexed, process, arch, active, archived,
    receipts

Journal == INSTANCE TransitionJournal WITH Calls <- Writers
Saved == INSTANCE SavedWork WITH MaxRevision <- MaxSaves
Effects == INSTANCE SessionCommands
    WITH Calls <- Runners, Processes <- Hosts, MaxRevision <- MaxWrites
Cleanup == INSTANCE SessionCleanup
Architecture == INSTANCE SessionArchitecture
Landing == INSTANCE DeliveryLifecycle
Drafts == INSTANCE SourceRealizationProofs
    WITH subject <- receipt, tree <- git, remote <- foreign, exec <- process,
         results <- receipts, env <- crashes, Calls <- Runners,
         Subjects <- {"delivery", "prototype"}, ChangeSets <- Commands,
         MaxAttempts <- 2, MaxRevision <- 5, MaxHands <- 0
Controls == INSTANCE SourceRealizationProofs
    WITH subject <- receipt, tree <- git, remote <- foreign, exec <- process,
         results <- receipts, env <- crashes, Calls <- Runners,
         Subjects <- {"bootstrap"}, ChangeSets <- Items,
         MaxAttempts <- 1, MaxRevision <- 10, MaxHands <- 1

Board == INSTANCE DeliveryBoard WITH Calls <- Runners

(* A change set is named neither as what is none, nor as a hand.           *)
ASSUME SourceAssumption == Drafts!NamesDiffer /\ Controls!NamesDiffer

None == "none"

allVars ==
    <<kind, pid, file, at, journal, lock, call, acked, overran, current,
      previous, kept, index, writing, session, record, directory, begun,
      takeovers, crashes, git, dirty, foreign, made, packet, art, manifest,
      receipt, indexed, process, arch, active, archived, receipts>>

MCInit ==
    \/ /\ kind = "lock" /\ Init
       /\ journal = None /\ lock = None /\ call = None /\ acked = None
          /\ overran = None /\ current = None /\ previous = None
          /\ kept = None /\ index = None /\ writing = None /\ session = None
          /\ record = None /\ directory = None /\ begun = None
          /\ takeovers = None /\ crashes = None /\ git = None /\ dirty = None
          /\ foreign = None /\ made = None /\ packet = None /\ art = None
          /\ manifest = None /\ receipt = None /\ indexed = None
          /\ process = None /\ arch = None /\ active = None
          /\ archived = None /\ receipts = None
    \/ /\ kind = "journal" /\ Journal!Init
       /\ Init
       /\ current = None
          /\ previous = None /\ kept = None /\ index = None /\ writing = None
          /\ session = None /\ record = None /\ directory = None
          /\ begun = None /\ takeovers = None /\ crashes = None /\ git = None
          /\ dirty = None /\ foreign = None /\ made = None /\ packet = None
          /\ art = None /\ manifest = None /\ receipt = None
          /\ indexed = None /\ process = None /\ arch = None /\ active = None
          /\ archived = None /\ receipts = None
    \/ /\ kind = "saved work" /\ Saved!Init
       /\ Init
       /\ journal = None
          /\ lock = None /\ call = None /\ acked = None /\ overran = None
          /\ record = None /\ directory = None /\ begun = None
          /\ takeovers = None /\ crashes = None /\ git = None /\ dirty = None
          /\ foreign = None /\ made = None /\ packet = None /\ art = None
          /\ manifest = None /\ receipt = None /\ indexed = None
          /\ process = None /\ arch = None /\ active = None
          /\ archived = None /\ receipts = None
    \/ /\ kind = "commands" /\ Effects!Init
       /\ Init
       /\ journal = None
          /\ lock = None /\ acked = None /\ overran = None /\ current = None
          /\ previous = None /\ kept = None /\ index = None /\ writing = None
          /\ git = None /\ dirty = None /\ foreign = None /\ made = None
          /\ packet = None /\ art = None /\ manifest = None /\ receipt = None
          /\ indexed = None /\ process = None /\ arch = None /\ active = None
          /\ archived = None /\ receipts = None
    \/ /\ kind = "cleanup" /\ Cleanup!Init
       /\ Init
       /\ journal = None
          /\ lock = None /\ call = None /\ acked = None /\ overran = None
          /\ current = None /\ previous = None /\ index = None
          /\ writing = None /\ record = None /\ directory = None
          /\ begun = None /\ takeovers = None /\ arch = None /\ active = None
          /\ archived = None /\ receipts = None
    \/ /\ kind = "architecture" /\ Architecture!Init
       /\ Init
       /\ journal = None
          /\ lock = None /\ call = None /\ acked = None /\ overran = None
          /\ current = None /\ previous = None /\ kept = None /\ index = None
          /\ writing = None /\ session = None /\ record = None
          /\ directory = None /\ begun = None /\ takeovers = None
          /\ dirty = None /\ foreign = None /\ made = None /\ packet = None
          /\ art = None /\ manifest = None /\ receipt = None
          /\ indexed = None
    \/ /\ kind = "landing" /\ Landing!Init
       /\ Init
       /\ lock = None
          /\ call = None /\ acked = None /\ overran = None /\ previous = None
          /\ index = None /\ writing = None /\ session = None
          /\ directory = None /\ takeovers = None /\ dirty = None
          /\ foreign = None /\ made = None /\ packet = None /\ receipt = None
          /\ indexed = None /\ arch = None /\ active = None
          /\ archived = None /\ receipts = None
    \/ /\ kind = "drafts" /\ Drafts!Init
       /\ Init
          /\ journal = None /\ acked = None /\ overran = None
          /\ current = None /\ previous = None /\ kept = None /\ index = None
          /\ writing = None /\ session = None /\ directory = None
          /\ begun = None /\ takeovers = None /\ dirty = None /\ made = None
          /\ packet = None /\ art = None /\ manifest = None /\ indexed = None
          /\ arch = None /\ active = None /\ archived = None
    \/ /\ kind = "controls" /\ Controls!Init
       /\ Init
          /\ journal = None /\ acked = None /\ overran = None
          /\ current = None /\ previous = None /\ kept = None /\ index = None
          /\ writing = None /\ session = None /\ directory = None
          /\ begun = None /\ takeovers = None /\ dirty = None /\ made = None
          /\ packet = None /\ art = None /\ manifest = None /\ indexed = None
          /\ arch = None /\ active = None /\ archived = None
    \/ /\ kind = "board" /\ Board!Init
       /\ Init
          /\ journal = None /\ lock = None /\ acked = None
          /\ overran = None /\ current = None /\ previous = None
          /\ kept = None /\ index = None /\ writing = None
          /\ session = None /\ directory = None /\ begun = None
          /\ takeovers = None /\ crashes = None /\ git = None
          /\ dirty = None /\ foreign = None /\ made = None
          /\ packet = None /\ art = None /\ manifest = None
          /\ receipt = None /\ indexed = None /\ process = None
          /\ arch = None /\ active = None /\ archived = None
          /\ receipts = None

MCNext ==
    \/ /\ kind = "lock" /\ Next
       /\ UNCHANGED <<kind, journal, lock, call, acked, overran, current,
                      previous, kept, index, writing, session, record,
                      directory, begun, takeovers, crashes, git, dirty,
                      foreign, made, packet, art, manifest, receipt, indexed,
                      process, arch, active, archived, receipts>>
    \/ /\ kind = "journal" /\ Journal!Next
       /\ UNCHANGED <<kind, pid, file, at, current, previous, kept, index,
                      writing, session, record, directory, begun, takeovers,
                      crashes, git, dirty, foreign, made, packet, art,
                      manifest, receipt, indexed, process, arch, active,
                      archived, receipts>>
    \/ /\ kind = "saved work" /\ Saved!Next
       /\ UNCHANGED <<kind, pid, file, at, journal, lock, call, acked,
                      overran, record, directory, begun, takeovers, crashes,
                      git, dirty, foreign, made, packet, art, manifest,
                      receipt, indexed, process, arch, active, archived,
                      receipts>>
    \/ /\ kind = "commands" /\ Effects!Next
       /\ UNCHANGED <<kind, pid, file, at, journal, lock, acked, overran,
                      current, previous, kept, index, writing, git, dirty,
                      foreign, made, packet, art, manifest, receipt, indexed,
                      process, arch, active, archived, receipts>>
    \/ /\ kind = "cleanup" /\ Cleanup!Next
       /\ UNCHANGED <<kind, pid, file, at, journal, lock, call, acked,
                      overran, current, previous, index, writing, record,
                      directory, begun, takeovers, arch, active, archived,
                      receipts>>
    \/ /\ kind = "architecture" /\ Architecture!Next
       /\ UNCHANGED <<kind, pid, file, at, journal, lock, call, acked,
                      overran, current, previous, kept, index, writing,
                      session, record, directory, begun, takeovers, dirty,
                      foreign, made, packet, art, manifest, receipt, indexed>>
    \/ /\ kind = "landing" /\ Landing!Next
       /\ UNCHANGED <<kind, pid, file, at, lock, call, acked, overran,
                      previous, index, writing, session, directory, takeovers,
                      dirty, foreign, made, packet, receipt, indexed, arch,
                      active, archived, receipts>>
    \/ /\ kind = "drafts" /\ Drafts!Next
       /\ UNCHANGED <<kind, pid, file, at, journal, acked, overran, current,
                      previous, kept, index, writing, session, directory,
                      begun, takeovers, dirty, made, packet, art, manifest,
                      indexed, arch, active, archived>>
    \/ /\ kind = "controls" /\ Controls!Next
       /\ UNCHANGED <<kind, pid, file, at, journal, acked, overran, current,
                      previous, kept, index, writing, session, directory,
                      begun, takeovers, dirty, made, packet, art, manifest,
                      indexed, arch, active, archived>>
    \/ /\ kind = "board" /\ Board!Next
       /\ UNCHANGED <<kind, pid, file, at, journal, lock, acked, overran,
                      current, previous, kept, index, writing, session,
                      directory, begun, takeovers, crashes, git, dirty,
                      foreign, made, packet, art, manifest, receipt,
                      indexed, process, arch, active, archived, receipts>>

MCSpec == MCInit /\ [][MCNext]_allVars

Symmetry ==
    Permutations(Runners) \cup Permutations(Hosts) \cup Permutations(Commands)
        \cup Permutations(Items)

-----------------------------------------------------------------------------
(* An event its writer was told is recorded stays in the journal, across   *)
(* stops, failed writes and other writers, unless a transaction wrote      *)
(* after it had lost its lock.                                             *)
AcknowledgedEventsSurvive == kind = "journal" => Journal!AcknowledgedEventsSurvive

(* An acknowledged save is the only one of its revision, and only a save   *)
(* whose tab had read it replaces it; and a draft of source is replaced    *)
(* only by an operator who had read it.  On the board of a Delivery a      *)
(* dependency that was set stays until it is cleared, and an item that was *)
(* changed as it had been read is where the roadmap expects it.            *)
AcknowledgedSavesSurvive ==
    /\ kind = "saved work" => Saved!AcknowledgedSavesSurvive
    /\ kind = "drafts" => Drafts!SavesReplaceWhatWasRead
    /\ kind = "board" => Board!DependencyStays /\ Board!RoadmapFollows

(* The record of the revision before stays beside the current one, also    *)
(* after a save that was cut short; indexed originals are there.           *)
RecoveryIsComplete == kind = "saved work" => Saved!RecoveryIsComplete

(* The effects of a session command begin at most once, over retries,      *)
(* stops and locks taken from their owner; and a candidate of a landing    *)
(* that is sent again after a stop is the same durable artifact.  A draft  *)
(* of source is committed once, and when it was accepted and not cancelled.*)
(* Once a request is withdrawn no call applies its source; an executor that*)
(* was left alone by a lost call or answer before may still commit it.     *)
EffectsBeginOnce ==
    /\ kind = "commands" => Effects!EffectsBeginOnce
    /\ kind = "landing" => Landing!OneArtifactPerCandidate
    /\ kind = "drafts" => Drafts!CommitsWereAccepted
    /\ kind = "controls" => Controls!CommitsWereAccepted

(* A close removes only what its session created, and never the last copy  *)
(* of work that is not in the base.                                        *)
CleanupKeepsOthersWork == kind = "cleanup" => Cleanup!CleanupKeepsOthersWork

(* A session goes only when the receipt and manifest that explain it stay. *)
SessionLeavesItsReceipt == kind = "cleanup" => Cleanup!SessionLeavesItsReceipt

(* While a session is current, its readiness receipt is of its packet.     *)
(* What a durable review packet says of its head was found at that head;   *)
(* a finalized one is of the head that was merged and continues what was   *)
(* ready to merge; and work is done by it only.  Source that was created,  *)
(* reviewed and merged ends in the commit of the accepted draft.  What a   *)
(* review or a gate finds of a Delivery is so, as long as the work only    *)
(* went forward, and no gate is stricter than the review.                  *)
ReadinessIsOfThePacket ==
    /\ kind = "architecture" => Architecture!ReadinessIsOfThePacket
    /\ kind = "landing" =>
          Landing!PacketsAreEarned /\ Landing!FinalizedContinues /\ Landing!DoneIsFinalized
    /\ kind = "drafts" => Drafts!CreatedIsTheDraft
    /\ kind = "controls" => Controls!CreatedIsTheDraft
    /\ kind = "board" => Board!JudgementsAreTrue /\ Board!ReviewIsStricter
=============================================================================

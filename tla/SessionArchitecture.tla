------------------------- MODULE SessionArchitecture -------------------------
(***************************************************************************)
(* A delivery work session and the architecture packet it is bound to: the *)
(* refresh of a compatible packet, the reconstruction of a pristine        *)
(* session, the recovery of one that cannot be rebound, and the session    *)
(* that succeeds it.                                                       *)
(*                                                                         *)
(* One command runs at a time, under the session's lock, and the process   *)
(* may stop between any two of its writes.  The architecture may be        *)
(* superseded, and the source may move, at any moment.                     *)
(***************************************************************************)
EXTENDS Naturals, FiniteSets

CONSTANTS Branches, Designs,
          MaxVersion,   \* bound on the architecture packets
          MaxRevision,  \* bound on the writes of a session
          MaxCrashes

VARIABLES arch,       \* the designs of the packets accepted so far, by version
          active,     \* the session, with its artifacts
          archived,   \* the recovered sessions
          receipts,   \* recovery receipts
          git,        \* per branch: worktree, local work, pull request
          process,    \* the next write of the command that runs
          crashes

vars == <<arch, active, archived, receipts, git, process, crashes>>

None == "none"
Idle == [at |-> "idle", version |-> 0]
NoPacket == [state |-> None, of |-> 0]
NoGit == [worktree |-> FALSE, ahead |-> FALSE, pr |-> "missing"]

(* id is the generation in the session's id.  bound, workStart, packet and *)
(* readiness stand for the artifacts by the version they were authored on. *)
NewSession(id, branch, declared, version) ==
    [id |-> id, revision |-> 0, branch |-> branch, declared |-> declared,
     bound |-> version, workStart |-> version, packet |-> NoPacket,
     readiness |-> 0, worked |-> FALSE]
NoSession == [NewSession(0, None, {}, 0) EXCEPT !.revision = MaxRevision + 1]

Active == active # NoSession
Version == CHOOSE v \in DOMAIN arch : \A w \in DOMAIN arch : w <= v

Init == /\ arch \in [{1} -> Designs]
        /\ active = NoSession /\ archived = {} /\ receipts = {}
        /\ git = [b \in Branches |-> NoGit]
        /\ process = Idle /\ crashes = 0

-----------------------------------------------------------------------------
(* The world.                                                              *)
AcceptArchitecture(design) ==
    /\ Version < MaxVersion
    /\ arch' = [v \in 1..(Version + 1) |-> IF v <= Version THEN arch[v] ELSE design]
    /\ UNCHANGED <<active, archived, receipts, git, process, crashes>>

SourceMoves(b, change) ==
    /\ git[b].worktree /\ git' = [git EXCEPT ![b] = change]
    /\ UNCHANGED <<arch, active, archived, receipts, process, crashes>>

Commit(b) == ~git[b].ahead /\ SourceMoves(b, [git[b] EXCEPT !.ahead = TRUE])
OpenPullRequest(b) == /\ git[b].ahead /\ git[b].pr = "missing"
                      /\ SourceMoves(b, [git[b] EXCEPT !.pr = "open"])
MergeOutOfOrder(b) == /\ git[b].pr = "open"
                      /\ SourceMoves(b, [git[b] EXCEPT !.pr = "merged"])

-----------------------------------------------------------------------------
(* Mutant: a readiness receipt without its packet is not looked for.       *)
ArtifactsMatchWithoutReadiness(version) ==
    /\ active.workStart = version
    /\ active.packet.state # None => active.packet.of = active.workStart

SessionArtifactsMatchArchitecture(version) ==
    /\ active.workStart = version
    /\ active.packet.state # None => active.packet.of = active.workStart
    /\ active.packet.state = None => active.readiness = 0

Mode == IF active.bound = Version
        THEN IF SessionArtifactsMatchArchitecture(Version) THEN "current" ELSE "refresh"
        ELSE IF arch[active.bound] = arch[Version] THEN "refresh" ELSE "superseded"

EvidencePristine == ~active.worked /\ active.packet.state = None /\ active.readiness = 0
SourcePristine == ~git[active.branch].ahead /\ git[active.branch].pr = "missing"
Reconstructable == EvidencePristine /\ SourcePristine

Unsuperseded == {s \in archived : \A t \in archived : s.id \notin t.declared}

(* A receipt is read with the one session, active or archived, it binds.   *)
ReceiptReadable(id) ==
    LET found == {s \in archived \cup (IF Active THEN {active} ELSE {}) : s.id = id} IN
    \A r \in receipts : r.id = id =>
        Cardinality(found) = 1 /\ \A s \in found : s.revision = r.revision

RecoveredReadable == \A s \in archived : ReceiptReadable(s.id)

-----------------------------------------------------------------------------
Step(at) == process.at = at
Then(at) == process' = [process EXCEPT !.at = at]
Begin(at) == Step("idle") /\ process' = [at |-> at, version |-> Version]

(* start: the branch is not one of a recovered session, every recovery is  *)
(* declared, and the id is the first that no recovered session has.        *)
Start(b) ==
    /\ Step("idle") /\ ~Active /\ RecoveredReadable
    /\ \A s \in archived : s.branch # b
    /\ LET id == CHOOSE n \in 0..Cardinality(archived) :
                    /\ \A s \in archived : s.id # n
                    /\ \A m \in 0..(n - 1) : \E s \in archived : s.id = m
       IN  active' = NewSession(id, b, {s.id : s \in Unsuperseded}, Version)
    /\ UNCHANGED <<arch, archived, receipts, git, process, crashes>>

(* continue.                                                               *)
Continue ==
    /\ Active /\ RecoveredReadable /\ active.revision < MaxRevision
    /\ \/ Mode = "refresh" /\ Begin("architecture")
       \/ Mode = "current" /\ Begin("worktree")
    /\ UNCHANGED <<arch, active, archived, receipts, git, crashes>>

(* The writes of a refresh, in their order.                                *)
Refresh(at, next, session) ==
    /\ Step(at) /\ Then(next) /\ active' = session
    /\ UNCHANGED <<arch, archived, receipts, git, crashes>>
Touched == [active EXCEPT !.revision = @ + 1]

RefreshArchitecture == Refresh("architecture", "workStart", [active EXCEPT !.bound = process.version])
RefreshWorkStart == Refresh("workStart", "packet", [active EXCEPT !.workStart = process.version])
ClearPacket == Refresh("packet", "readiness", [active EXCEPT !.packet = NoPacket])
ClearReadiness == Refresh("readiness", "session", [active EXCEPT !.readiness = 0])
RefreshSession == Refresh("session", "worktree", Touched)

EnsureWorktree ==
    /\ Step("worktree") /\ Then("reconcile")
    /\ git' = [git EXCEPT ![active.branch].worktree = TRUE]
    /\ UNCHANGED <<arch, active, archived, receipts, crashes>>

(* The lifecycle goes on under the bindings the session has: evidence, a   *)
(* Review Packet for its work start, a readiness receipt for the packet.   *)
Reconcile(change) ==
    /\ Step("reconcile") /\ process' = Idle
    /\ active.revision < MaxRevision
    /\ active' = [change EXCEPT !.revision = @ + 1]
    /\ UNCHANGED <<arch, archived, receipts, git, crashes>>

ReconcileEvidence == Reconcile([active EXCEPT !.worked = TRUE])
ReconcilePacket(state) ==
    /\ Step("reconcile") /\ active.packet.state = None
    /\ Reconcile([active EXCEPT !.packet = [state |-> state, of |-> active.workStart]])
ReconcileReadiness ==
    /\ Step("reconcile") /\ Mode = "current"
    /\ active.packet.state = "merge-ready" /\ git[active.branch].pr # "missing"
    /\ Reconcile([active EXCEPT !.readiness = active.packet.of])

-----------------------------------------------------------------------------
(* reconstruct: the worktree is retired, the session removed, and only     *)
(* then its replacement written: same branch, no generation, no recovery.  *)
Reconstruct ==
    /\ Active /\ RecoveredReadable
    /\ Mode = "superseded" /\ Reconstructable /\ Begin("retire")
    /\ UNCHANGED <<arch, active, archived, receipts, git, crashes>>

RetirePristine ==
    /\ Step("retire")
    /\ IF SourcePristine THEN /\ git' = [git EXCEPT ![active.branch] = NoGit]
                              /\ Then("remove")
                         ELSE process' = Idle /\ UNCHANGED git
    /\ UNCHANGED <<arch, active, archived, receipts, crashes>>

RemoveSession ==
    /\ Step("remove") /\ active' = NoSession
    /\ process' = [at |-> "replace", version |-> process.version,
                   branch |-> active.branch]
    /\ UNCHANGED <<arch, archived, receipts, git, crashes>>

WriteReplacement ==
    /\ Step("replace") /\ process' = Idle
    /\ active' = NewSession(0, process.branch, {}, process.version)
    /\ UNCHANGED <<arch, archived, receipts, git, crashes>>

-----------------------------------------------------------------------------
(* recover: unmerged work, a merge out of order, or a merge whose evidence *)
(* has to be replaced.                                                     *)
ArchiveUnmerged == /\ Mode = "superseded" /\ EvidencePristine
                   /\ git[active.branch].worktree /\ git[active.branch].pr = "missing"
ArchiveMerged == /\ Mode = "superseded" /\ ~Reconstructable
                 /\ active.packet.state # "merge-ready" /\ active.readiness = 0
                 /\ git[active.branch].pr = "merged"
ArchiveMergedEvidence == /\ Mode # "refresh" /\ active.packet.state = "merge-ready"
                         /\ active.readiness = 0 /\ git[active.branch].pr = "merged"

Recover ==
    /\ Active /\ RecoveredReadable /\ ReceiptReadable(active.id)
    /\ ArchiveUnmerged \/ ArchiveMerged \/ ArchiveMergedEvidence
    /\ Begin("receipt")
    /\ UNCHANGED <<arch, active, archived, receipts, git, crashes>>

WriteRecoveryReceipt ==
    /\ Step("receipt") /\ Then("archive")
    /\ receipts' = receipts \cup {[id |-> active.id, revision |-> active.revision]}
    /\ UNCHANGED <<arch, active, archived, git, crashes>>

ArchiveSession ==
    /\ Step("archive") /\ process' = Idle
    /\ archived' = archived \cup {active} /\ active' = NoSession
    /\ UNCHANGED <<arch, receipts, git, crashes>>

Crash == /\ crashes < MaxCrashes /\ ~Step("idle")
         /\ crashes' = crashes + 1 /\ process' = Idle
         /\ UNCHANGED <<arch, active, archived, receipts, git>>

Next == \/ \E d \in Designs : AcceptArchitecture(d)
        \/ \E b \in Branches : \/ Commit(b) \/ OpenPullRequest(b)
                               \/ MergeOutOfOrder(b) \/ Start(b)
        \/ Continue \/ RefreshArchitecture \/ RefreshWorkStart \/ ClearPacket
        \/ ClearReadiness \/ RefreshSession \/ EnsureWorktree
        \/ ReconcileEvidence \/ ReconcileReadiness
        \/ \E s \in {"local-draft", "merge-ready"} : ReconcilePacket(s)
        \/ Reconstruct \/ RetirePristine \/ RemoveSession \/ WriteReplacement
        \/ Recover \/ WriteRecoveryReceipt \/ ArchiveSession \/ Crash

Spec == Init /\ [][Next]_vars

-----------------------------------------------------------------------------
(* While a session is current, its readiness receipt is of the packet it   *)
(* has: a refresh interrupted between any two of its writes never leaves   *)
(* an older approval beside a newer packet.                                *)
ReadinessIsOfThePacket ==
    Active /\ Step("idle") /\ Mode = "current" /\ active.readiness # 0 =>
        active.readiness = active.packet.of

=============================================================================

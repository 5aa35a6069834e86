-------------------------- MODULE DeliveryLifecycle --------------------------
(***************************************************************************)
(* One Landing Unit of a delivery, from its architecture packet to its     *)
(* closed work items: the lifecycle controller looks at files, the pull    *)
(* request and the checkout, derives the one next action or the gate it    *)
(* stops at, and carries the action out with what it had looked at.  The   *)
(* service makes a candidate durable between two looks at the ART scope.   *)
(* A developer, other operators and the owners of the ART go on meanwhile. *)
(*   record    the files: architecture, work start, evidence, packet,      *)
(*             readiness receipt                                           *)
(*   git       the checkout, the pushed branch and the pull request        *)
(*   art       the scope in OpenProject (exact, and what of it is          *)
(*             material) and its items;  current  the projected            *)
(*             architecture                                                *)
(*   journal   the durable artifacts;  kept  the runs of owner evidence    *)
(*   manifest  the finalized reference bound into the plan                 *)
(*   process   the controller, with the files it read                      *)
(*   begun     what others did out of turn;  crashes  also the clock       *)
(***************************************************************************)
EXTENDS Naturals

CONSTANTS MaxHead, Covering, MaxArchitecture, MaxDisturbances, MaxStops

VARIABLES record, git, art, current, journal, kept, manifest, process, begun, crashes

vars == <<record, git, art, current, journal, kept, manifest, process, begun, crashes>>

Heads == 1..MaxHead
Children == {"story1", "story2"}
Covered == Children \cup {"feature"}

-----------------------------------------------------------------------------
(* Artifacts.  Results are of a head, by the owner's profile or by hand.   *)
NoResult == [head |-> 0, result |-> "none", by |-> "owner"]
NoDigest == [head |-> 0, architecture |-> 0, tests |-> NoResult, operating |-> NoResult]
NoDocument ==
    [head |-> 0, ready |-> FALSE, tests |-> NoResult, operating |-> NoResult,
     exception |-> "none", digest |-> NoDigest]
NoPacket ==
    [status |-> "missing", architecture |-> 0, head |-> 0, tests |-> NoResult,
     operating |-> NoResult, exception |-> "none", stamp |-> 0]
NoArchitecture == [state |-> "missing", version |-> 0, scope |-> [exact |-> 0, material |-> 0]]
NoStart == [state |-> "missing", architecture |-> 0, scope |-> NoArchitecture.scope, stamp |-> 0]
NoReceipt == [subject |-> NoPacket, stamp |-> 0]
NoFiles ==
    [architecture |-> NoArchitecture, start |-> NoStart, evidence |-> NoDocument,
     packet |-> NoPacket, receipt |-> NoReceipt]
Idle == [at |-> "idle", files |-> NoFiles, head |-> 0, act |-> "none", out |-> NoFiles]

Init ==
    /\ record = NoFiles
    /\ git = [local |-> 0, pushed |-> 0, pr |-> "missing", head |-> 0]
    /\ art = [exact |-> 0, material |-> 0,
              item |-> [i \in Covered \cup {"sibling"} |->
                           IF i = "sibling" THEN "absent" ELSE "open"]]
    /\ current = 0 /\ journal = {} /\ kept = {} /\ manifest = NoPacket
    /\ process = Idle /\ begun = 0 /\ crashes = 0

Scope == [exact |-> art.exact, material |-> art.material]

(* Exact equality is asked of a candidate's own snapshot, equality in what *)
(* is material of the artifacts it rests on.                               *)
Exactly(scope) == scope = Scope
Materially(scope) == scope.material = art.material

ArchitectureOf(version) ==
    CHOOSE a \in journal : a.type = "architecture" /\ a.made.version = version

(* The chain an artifact on this work start rests on.                      *)
ChainHolds(start) ==
    /\ Materially(start.scope)
    /\ Materially(ArchitectureOf(start.architecture).made.scope)

-----------------------------------------------------------------------------
(* What the controller makes of the files f and of what it sees.           *)
ArchitectureState(f) ==
    CASE f.architecture.state = "missing" -> "required-missing"
      [] f.architecture.state = "local" -> "local-ready"
      [] OTHER -> "ready"

WorkStartState(f) ==
    CASE f.start.state = "missing" -> "missing"
      [] f.start.architecture # f.architecture.version
         \/ f.architecture.state # "durable" -> "invalid"
      [] OTHER -> f.start.state

MatchesInputs(f) ==
    /\ f.packet.tests = f.evidence.tests
    /\ f.packet.operating = f.evidence.operating
    /\ f.packet.exception = f.evidence.exception

ReviewPacketState(f) ==
    CASE manifest # NoPacket -> "finalized"
      [] f.packet.status = "missing" -> "missing"
      [] f.packet.architecture # f.start.architecture \/ f.start.state # "ready" -> "invalid"
      [] f.packet.status = "draft" /\ ~MatchesInputs(f) -> "invalid"
      [] OTHER -> f.packet.status

(* The pull request, as bound to the packet's head; a merge-ready packet   *)
(* whose open request moved on is of a stale head, others do not match.    *)
BoundPullRequest(f) ==
    CASE f.packet.status \notin {"draft", "finalization", "merge-ready"}
         \/ git.pr \in {"missing", "wrong-base"} -> git.pr
      [] git.head # f.packet.head ->
            IF f.packet.status = "merge-ready" /\ git.pr \in {"open", "draft"}
            THEN "stale-head" ELSE "mismatch"
      [] OTHER -> git.pr

SourceState == IF git.local # git.pushed \/ git.local = 0 THEN "unpushed" ELSE "pushed"

EvidenceState(e, head) ==
    CASE e.tests.result = "none" -> "incomplete"
      [] e.tests.result = "fail" \/ e.operating.result = "fail" -> "invalid"
      [] head # 0 /\ e.tests.head # head -> "stale"
      [] OTHER -> "ready"

OperatingState(e) ==
    CASE e.operating.result = "none" -> "required"
      [] e.operating.result = "fail" -> "invalid"
      [] OTHER -> "ready"

(* Mutant: the digest leaves out the results that are in the document.     *)
DigestOfSource(e, head, version) == [NoDigest EXCEPT !.head = head, !.architecture = version]

ProjectionDigest(e, head, version) ==
    [head |-> head, architecture |-> version, tests |-> e.tests, operating |-> e.operating]

ReadinessSubject(packet) == [packet EXCEPT !.stamp = 0]

Facts(f) ==
    LET review == ReviewPacketState(f)
        request == IF review \in {"missing", "draft", "merge-ready"}
                      /\ ArchitectureState(f) = "ready" /\ WorkStartState(f) = "ready"
                   THEN BoundPullRequest(f) ELSE "missing"
        stale == review = "merge-ready" /\ request \in {"open", "draft"} /\ ~MatchesInputs(f)
        latest == review = "missing" \/ request = "stale-head" \/ stale
        ofHead == request = "stale-head" \/ stale
                  \/ (review = "missing" /\ request \in {"open", "draft"})
        input == IF latest THEN f.evidence ELSE f.packet
    IN [architecture |-> IF review = "finalized" THEN "ready" ELSE ArchitectureState(f),
        start |-> IF review = "finalized" THEN "ready" ELSE WorkStartState(f),
        review |-> review,
        receipt |-> CASE f.receipt = NoReceipt -> "missing"
                      [] f.receipt.subject = ReadinessSubject(f.packet) -> "ready"
                      [] OTHER -> "invalid",
        art |-> IF \A i \in Covered : art.item[i] = "done" THEN "closed" ELSE "open",
        request |-> request,
        source |-> IF request # "merged" /\ git.pr # "missing" /\ git.head # git.local
                   THEN "unpushed" ELSE SourceState,
        projection |-> IF f.evidence.head # 0
                          /\ f.evidence.digest =
                               ProjectionDigest(f.evidence, git.local, f.start.architecture)
                       THEN "current" ELSE "required",
        evidence |-> EvidenceState(input, IF ofHead THEN git.head ELSE 0),
        fresh |-> ~stale,
        exceptions |-> IF input.exception = "open" THEN "unapproved" ELSE "approved",
        operating |-> OperatingState(f.evidence)]

-----------------------------------------------------------------------------
(* The first rule that applies: an action, or a gate ("gate" with the      *)
(* blocked states, "merge", "closeout", "complete" where others go on).    *)
PreMerge(f) ==
    CASE f.projection = "required" -> "project"
      [] f.evidence = "invalid" -> "project"
      [] f.evidence # "ready" -> "gate"
      [] ~f.fresh -> "draft packet"
      [] OTHER -> "none"

BeforeMerge(f) ==
    CASE f.request \in {"open", "draft", "stale-head"} /\ f.source = "unpushed" -> "gate"
      [] f.request = "stale-head" ->
            (CASE f.exceptions = "unapproved" -> "gate"
               [] f.projection = "required" -> "project"
               [] f.evidence # "ready" -> "gate"
               [] OTHER -> "draft packet")
      [] f.request \in {"wrong-base", "mismatch", "closed", "missing"} -> "gate"
      [] f.request \in {"draft", "open"} ->
            (IF PreMerge(f) # "none" THEN PreMerge(f)
             ELSE IF f.request = "open" THEN "merge" ELSE "gate")
      [] f.operating # "ready" -> "acquire"
      [] OTHER -> "draft finalization"

Derive(f) ==
    CASE f.architecture = "required-missing" -> "gate"
      [] f.architecture = "local-ready" -> "persist"
      [] f.start = "missing" -> "draft start"
      [] f.start = "draft" -> "evaluate"
      [] f.start = "invalid" -> "gate"
      [] f.review = "finalized" -> IF f.art = "closed" THEN "complete" ELSE "closeout"
      [] f.review = "invalid" -> "gate"
      [] f.review = "finalization" ->
            (CASE f.receipt = "invalid" -> "gate"
               [] f.receipt = "missing" -> "issue"
               [] OTHER -> "finalize")
      [] f.review = "merge-ready" -> BeforeMerge(f)
      [] f.exceptions = "unapproved" \/ f.source = "unpushed"
         \/ f.request \in {"merged", "mismatch"} -> "gate"
      [] PreMerge(f) # "none" -> PreMerge(f)
      [] f.request # "open" -> "gate"
      [] f.review = "missing" -> "draft packet"
      [] OTHER -> "mark"

-----------------------------------------------------------------------------
(* The controller reads the files, then sees the pull request and the      *)
(* checkout, and goes on with what it derives; a stop loses its memory.    *)
Read ==
    /\ process.at = "idle"
    /\ process' = [Idle EXCEPT !.at = "look", !.files = record, !.out = record]
    /\ UNCHANGED <<record, git, art, current, journal, kept, manifest, begun, crashes>>

Stops == {"gate", "merge", "complete", "closeout"}

Look ==
    /\ process.at = "look"
    /\ LET next == Derive(Facts(process.files))
       IN process' = IF next \in Stops THEN Idle
                     ELSE [process EXCEPT
                             !.at = "act", !.act = next,
                             !.head = IF process.files.packet.status = "merge-ready"
                                         /\ git.pr = "merged"
                                      THEN process.files.packet.head ELSE git.local]
    /\ UNCHANGED <<record, git, art, current, journal, kept, manifest, begun, crashes>>

Fails == process' = Idle

(* What the action asks the service to make; first the candidates that     *)
(* stay local.  No packet is authored with an exception without authority. *)
Files == process.files

Authorized(evidence) == evidence.exception # "open"

DraftStart ==
    /\ process.at = "act" /\ process.act = "draft start"
    /\ IF current = Files.architecture.version
          /\ Materially(ArchitectureOf(current).made.scope)
       THEN process' = [process EXCEPT
               !.at = "write",
               !.out.start = [state |-> "draft", architecture |-> current, scope |-> Scope,
                              stamp |-> crashes]]
       ELSE Fails
    /\ UNCHANGED <<record, git, art, current, journal, kept, manifest, begun, crashes>>

DraftPacket ==
    /\ process.at = "act" /\ process.act = "draft packet"
    /\ IF ChainHolds(Files.start) /\ Authorized(Files.evidence)
       THEN process' = [process EXCEPT
               !.at = "write",
               !.out.packet = [status |-> "draft", architecture |-> Files.start.architecture,
                               head |-> process.head, tests |-> Files.evidence.tests,
                               operating |-> Files.evidence.operating,
                               exception |-> Files.evidence.exception, stamp |-> crashes]]
       ELSE Fails
    /\ UNCHANGED <<record, git, art, current, journal, kept, manifest, begun, crashes>>

(* Mutant: a successor must keep the exceptions only.                      *)
ContinuesExceptions(evidence, packet) ==
    packet.exception # "none" => evidence.exception = packet.exception

(* A finalization candidate keeps the results and exceptions of the packet *)
(* that was merge-ready.                                                   *)
Continues(evidence, packet) ==
    /\ evidence.tests = packet.tests
    /\ packet.operating # NoResult => evidence.operating = packet.operating
    /\ packet.exception # "none" => evidence.exception = packet.exception

CasesPass(evidence) == evidence.operating.result = "pass"

DraftFinalization ==
    /\ process.at = "act" /\ process.act = "draft finalization"
    /\ IF /\ ChainHolds(Files.start) /\ Authorized(Files.evidence)
          /\ Continues(Files.evidence, Files.packet) /\ CasesPass(Files.evidence)
       THEN process' = [process EXCEPT
               !.at = "write",
               !.out.packet = [Files.packet EXCEPT
                   !.status = "finalization", !.tests = Files.evidence.tests,
                   !.operating = Files.evidence.operating,
                   !.exception = Files.evidence.exception]]
       ELSE Fails
    /\ UNCHANGED <<record, git, art, current, journal, kept, manifest, begun, crashes>>

-----------------------------------------------------------------------------
(* The owner's evidence is acquired from the exact clean pushed head, with *)
(* the profile of the base, which the head's own profile must cover; a     *)
(* head that moved meanwhile makes the run void.                           *)
ExactSource == git.local = process.head /\ git.pushed = git.local

Acquire ==
    /\ process.at = "act" /\ process.act \in {"project", "acquire"}
    /\ process' = IF ExactSource THEN [process EXCEPT !.at = "run"] ELSE Idle
    /\ UNCHANGED <<record, git, art, current, journal, kept, manifest, begun, crashes>>

(* Mutant: the profile of the head itself need not cover.                  *)
RunResultsOfBase(head) == {"pass", "fail"}

RunResults(head) == IF head \in Covering THEN {"pass", "fail"} ELSE {"fail"}

Conflicts(e, head, result) == e.head = head /\ e.ready /\ e.tests.result # result

(* The projection replaces the results of every collection; operating      *)
(* evidence is added to them, and only a failed one is replaced.           *)
Projected(e, head, result) ==
    IF process.act = "project"
    THEN [e EXCEPT !.head = head, !.ready = result = "pass",
                   !.tests = [head |-> head, result |-> result, by |-> "owner"],
                   !.operating = NoResult]
    ELSE [e EXCEPT !.head = head, !.ready = result = "pass",
                   !.operating = [head |-> head, result |-> result, by |-> "owner"]]

RunEnds(result) ==
    /\ process.at = "run" /\ result \in RunResults(git.local)
    /\ kept' = IF process.act = "project"
               THEN kept \cup {[head |-> git.local, result |-> result]} ELSE kept
    /\ LET e == Projected(Files.evidence, process.head, result)
       IN process' =
            IF /\ ExactSource /\ ChainHolds(Files.start)
               /\ process.act = "project" => ~Conflicts(Files.evidence, process.head, result)
            THEN [process EXCEPT
                    !.at = "write",
                    !.out.evidence =
                       [e EXCEPT !.digest =
                           ProjectionDigest(e, process.head, Files.start.architecture)]]
            ELSE Idle
    /\ UNCHANGED <<record, git, art, current, journal, manifest, begun, crashes>>

-----------------------------------------------------------------------------
(* A durable transition: the candidate with what the service settles in    *)
(* it, admitted and of the scope; registered under its content; looked at  *)
(* again; projected.  Times in a candidate are those of what it is made    *)
(* from, so that what is asked again after a stop is the same artifact.    *)
Durable == {"persist", "evaluate", "mark", "finalize"}

MergeReadyTime(packet) == packet.stamp
(* Mutant: a packet is finalized at the time of the clock.                 *)
FinalizedNow(receipt) == crashes

FinalizedTime(receipt) == receipt.stamp

Candidate ==
    CASE process.act = "persist" ->
            [type |-> "architecture", from |-> Files.architecture,
             made |-> [Files.architecture EXCEPT !.state = "durable"]]
      [] process.act = "evaluate" ->
            [type |-> "start", from |-> Files.start, made |-> [Files.start EXCEPT !.state = "ready"]]
      [] process.act = "mark" ->
            [type |-> "packet", from |-> Files.packet,
             made |-> [Files.packet EXCEPT !.status = "merge-ready",
                                           !.stamp = MergeReadyTime(Files.packet)]]
      [] OTHER ->
            [type |-> "packet", from |-> Files.packet,
             made |-> [Files.packet EXCEPT !.status = "finalized",
                                           !.stamp = FinalizedTime(record.receipt)]]

(* A changed design may replace the current one at any time; work starts   *)
(* only on the one that is current; a packet is finalized on its receipt.  *)
Admitted ==
    CASE process.act = "evaluate" ->
            /\ current = Files.start.architecture
            /\ Materially(ArchitectureOf(current).made.scope)
      [] process.act = "finalize" ->
            record.receipt.subject = ReadinessSubject(Files.packet)
      [] OTHER -> TRUE

SnapshotHolds ==
    CASE process.act = "persist" -> Exactly(Files.architecture.scope)
      [] process.act = "evaluate" ->
            /\ Exactly(Files.start.scope)
            /\ Materially(ArchitectureOf(Files.start.architecture).made.scope)
      [] OTHER -> ChainHolds(Files.start)

Admit ==
    /\ process.at = "act" /\ process.act \in Durable
    /\ process' = IF Admitted /\ SnapshotHolds
                  THEN [process EXCEPT
                          !.at = "register",
                          !.out = CASE Candidate.type = "architecture" ->
                                          [@ EXCEPT !.architecture = Candidate.made]
                                    [] Candidate.type = "start" ->
                                          [@ EXCEPT !.start = Candidate.made]
                                    [] OTHER -> [@ EXCEPT !.packet = Candidate.made]]
                  ELSE Idle
    /\ UNCHANGED <<record, git, art, current, journal, kept, manifest, begun, crashes>>

Made ==
    CASE process.act = "persist" ->
            [type |-> "architecture", from |-> Files.architecture, made |-> process.out.architecture]
      [] process.act = "evaluate" ->
            [type |-> "start", from |-> Files.start, made |-> process.out.start]
      [] OTHER -> [type |-> "packet", from |-> Files.packet, made |-> process.out.packet]

Register ==
    /\ process.at = "register"
    /\ journal' = journal \cup {Made}
    /\ process' = [process EXCEPT !.at = "confirm"]
    /\ UNCHANGED <<record, git, art, current, kept, manifest, begun, crashes>>

Confirm ==
    /\ process.at = "confirm"
    /\ IF SnapshotHolds
       THEN /\ process' = [process EXCEPT !.at = "write"]
            /\ current' = IF process.act = "persist" THEN Made.made.version ELSE current
       ELSE Fails /\ UNCHANGED current
    /\ UNCHANGED <<record, git, art, journal, kept, manifest, begun, crashes>>

(* Readiness is issued for the candidate that keeps its predecessor; the   *)
(* packet is written before its receipt.                                   *)
Issue ==
    /\ process.at = "act" /\ process.act = "issue"
    /\ process' = IF ChainHolds(Files.start)
                  THEN [process EXCEPT
                          !.at = "write",
                          !.out.receipt = [subject |-> ReadinessSubject(Files.packet),
                                           stamp |-> crashes]]
                  ELSE Idle
    /\ UNCHANGED <<record, git, art, current, journal, kept, manifest, begun, crashes>>

(* The one file of the action is written over what is there; a finalized   *)
(* packet may be bound into the plan when its call is over.                *)
Write ==
    /\ process.at = "write"
    /\ record' = CASE process.act = "persist" ->
                         [record EXCEPT !.architecture = process.out.architecture]
                   [] process.act \in {"draft start", "evaluate"} ->
                         [record EXCEPT !.start = process.out.start]
                   [] process.act \in {"project", "acquire"} ->
                         [record EXCEPT !.evidence = process.out.evidence]
                   [] process.act = "issue" ->
                         [record EXCEPT !.packet = process.out.packet,
                                        !.receipt = process.out.receipt]
                   [] OTHER -> [record EXCEPT !.packet = process.out.packet]
    /\ process' = Idle
    /\ UNCHANGED <<git, art, current, journal, kept, manifest, begun, crashes>>

BindFinalized ==
    /\ process.at = "idle" /\ record.packet.status = "finalized" /\ manifest = NoPacket
    /\ manifest' = record.packet
    /\ UNCHANGED <<record, git, art, current, journal, kept, process, begun, crashes>>

Stop ==
    /\ crashes < MaxStops /\ process.at # "idle"
    /\ process' = Idle /\ crashes' = crashes + 1
    /\ UNCHANGED <<record, git, art, current, journal, kept, manifest, begun>>

-----------------------------------------------------------------------------
(* Closeout, approved by the operator: the open children of the finalized  *)
(* packet are completed one by one up to the first that fails; then the    *)
(* feature, read again, is closed, for which the service looks once more.  *)
OpenBelow == {i \in Children \cup {"sibling"} : art.item[i] = "open"}

Closeout ==
    /\ process.at = "idle" /\ record.packet.status = "finalized"
    /\ Derive(Facts(record)) = "closeout"
    /\ process' = [Idle EXCEPT
          !.at = "complete",
          !.act = IF art.item["sibling"] = "open" \/ art.item["feature"] = "done"
                  THEN "children" ELSE "children and feature"]
    /\ UNCHANGED <<record, git, art, current, journal, kept, manifest, begun, crashes>>

Done(i) == art' = [art EXCEPT !.item[i] = "done", !.exact = 1]

Complete ==
    /\ process.at = "complete"
    /\ IF OpenBelow \cap Children # {}
       THEN \/ /\ Done(CHOOSE i \in OpenBelow \cap Children :
                          i = "story1" \/ art.item["story1"] = "done")
               /\ UNCHANGED process
            \/ Fails /\ UNCHANGED art
       ELSE /\ process' = IF process.act = "children" THEN Idle
                          ELSE [process EXCEPT !.at = "parent"]
            /\ UNCHANGED art
    /\ UNCHANGED <<record, git, current, journal, kept, manifest, begun, crashes>>

RereadParent ==
    /\ process.at = "parent"
    /\ process' = IF art.item["feature"] = "done" \/ OpenBelow # {}
                  THEN Idle ELSE [process EXCEPT !.at = "close"]
    /\ UNCHANGED <<record, git, art, current, journal, kept, manifest, begun, crashes>>

CloseStaleOpen ==
    /\ process.at = "close" /\ Fails
    /\ IF art.item["feature"] = "open" /\ OpenBelow = {}
       THEN Done("feature") ELSE UNCHANGED art
    /\ UNCHANGED <<record, git, current, journal, kept, manifest, begun, crashes>>

-----------------------------------------------------------------------------
(* The others.  A developer commits, pushes and handles the pull request;  *)
(* who merges it merges its head of that moment.                           *)
SourceStep(g) ==
    /\ g # git /\ git' = g
    /\ UNCHANGED <<record, art, current, journal, kept, manifest, process, begun, crashes>>

OpenStates == {"draft", "open", "wrong-base"}

Commit == git.local < MaxHead /\ SourceStep([git EXCEPT !.local = @ + 1])
Push ==
    SourceStep([git EXCEPT !.pushed = git.local,
                           !.head = IF git.pr \in OpenStates THEN git.local ELSE @])
OpenPullRequest ==
    /\ git.pr = "missing" /\ git.pushed > 0
    /\ SourceStep([git EXCEPT !.pr = "open", !.head = git.pushed])
Merge == git.pr = "open" /\ SourceStep([git EXCEPT !.pr = "merged"])

(* Out of turn, MaxDisturbances of them: the request is drafted, retargeted *)
(* or closed; results are edited by hand, an exception is claimed or       *)
(* approved; the ART changes, in material or other things; an architecture *)
(* is authored for this plan, or made current by someone else; work is     *)
(* added under the feature.                                                *)
Disturb == begun < MaxDisturbances /\ begun' = begun + 1

HandlePullRequest ==
    /\ Disturb /\ git.pr \in OpenStates \cup {"closed"}
    /\ \E s \in {"draft", "open", "closed", "wrong-base"} \ {git.pr} :
          git' = [git EXCEPT !.pr = s, !.head = git.pushed]
    /\ UNCHANGED <<record, art, current, journal, kept, manifest, process, crashes>>

ByHand(head) == [head |-> head, result |-> "pass", by |-> "hand"]

EditEvidence ==
    /\ Disturb
    /\ \/ record' = [record EXCEPT !.evidence.tests = ByHand(git.local)]
       \/ record' = [record EXCEPT !.evidence.operating = ByHand(git.local)]
       \/ record' = [record EXCEPT !.evidence.exception = "open"]
    /\ UNCHANGED <<git, art, current, journal, kept, manifest, process, crashes>>

ApproveException ==
    /\ record.evidence.exception = "open"
    /\ record' = [record EXCEPT !.evidence.exception = "approved"]
    /\ UNCHANGED <<git, art, current, journal, kept, manifest, process, begun, crashes>>

ChangeScope ==
    /\ Disturb
    /\ \/ art' = [art EXCEPT !.exact = 1]
       \/ art' = [art EXCEPT !.exact = 1, !.material = 1]
       \/ art.item["sibling"] = "absent" /\ art.item["feature"] = "open"
          /\ art' = [art EXCEPT !.exact = 1, !.item["sibling"] = "open"]
    /\ UNCHANGED <<record, git, current, journal, kept, manifest, process, crashes>>

Versions ==
    {0, current, record.architecture.version}
      \cup {a.made.version : a \in {b \in journal : b.type = "architecture"}}
      \cup {process.files.architecture.version}

NextVersion == CHOOSE v \in 1..(MaxArchitecture + 1) : v - 1 \in Versions /\ v \notin Versions

Local(version) == [state |-> "local", version |-> version, scope |-> Scope]

AuthorArchitecture ==
    /\ NextVersion <= MaxArchitecture
    /\ IF record.architecture.state = "missing" THEN UNCHANGED begun ELSE Disturb
    /\ record' = [record EXCEPT !.architecture = Local(NextVersion)]
    /\ UNCHANGED <<git, art, current, journal, kept, manifest, process, crashes>>

OthersArchitecture ==
    /\ Disturb /\ NextVersion <= MaxArchitecture
    /\ journal' = journal \cup
          {[type |-> "architecture", from |-> Local(NextVersion),
            made |-> [Local(NextVersion) EXCEPT !.state = "durable"]]}
    /\ current' = NextVersion
    /\ UNCHANGED <<record, git, art, kept, manifest, process, crashes>>

Controller ==
    \/ Read \/ Look \/ DraftStart \/ DraftPacket \/ DraftFinalization \/ Acquire
    \/ \E r \in {"pass", "fail"} : RunEnds(r)
    \/ Admit \/ Register \/ Confirm \/ Issue \/ Write \/ BindFinalized
    \/ Closeout \/ Complete \/ RereadParent \/ CloseStaleOpen

Next ==
    \/ Controller \/ Stop
    \/ Commit \/ Push \/ OpenPullRequest \/ Merge
    \/ HandlePullRequest \/ EditEvidence \/ ApproveException \/ ChangeScope
    \/ AuthorArchitecture \/ OthersArchitecture

Spec == Init /\ [][Next]_vars

-----------------------------------------------------------------------------
DurablePackets(status) == {a \in journal : a.type = "packet" /\ a.made.status = status}

(* What a packet says of its head was found at that head: its tests are    *)
(* the owner's and passed there, under a profile that covers, and every    *)
(* exception in it was approved; whatever was edited meanwhile.            *)
PacketsAreEarned ==
    \A a \in DurablePackets("merge-ready") \cup DurablePackets("finalized") :
        /\ a.made.tests = [head |-> a.made.head, result |-> "pass", by |-> "owner"]
        /\ [head |-> a.made.head, result |-> "pass"] \in kept
        /\ a.made.head \in Covering
        /\ a.made.exception # "open"

(* A finalized packet is of the head that was merged, and continues a      *)
(* merge-ready packet of it with its results and exceptions.               *)
FinalizedContinues ==
    \A a \in DurablePackets("finalized") :
        /\ git.pr = "merged" /\ git.head = a.made.head
        /\ \E m \in DurablePackets("merge-ready") :
              /\ m.made.head = a.made.head /\ m.made.tests = a.made.tests
              /\ m.made.exception \in {"none", a.made.exception}

(* A candidate that is sent again after a stop is the same artifact.       *)
OneArtifactPerCandidate ==
    \A a, b \in journal : a.from = b.from => a.made = b.made

(* Work is done by a finalized packet, and a feature after its stories.    *)
DoneIsFinalized ==
    /\ (\E i \in Covered : art.item[i] = "done") => DurablePackets("finalized") # {}
    /\ art.item["feature"] = "done" => \A i \in Children : art.item[i] = "done"
=============================================================================

------------------------- MODULE ProposalWorkflow -------------------------
(***************************************************************************)
(* One Proposal kept in OpenProject: its lifecycle status, the workflow    *)
(* state in a custom field, and the activity comments that are its         *)
(* history.  A command is two writes of that provider: a mutation of the   *)
(* record, which compares the lock version, and then an event.  Either may *)
(* fail, its answer may be lost, and other calls come in between.          *)
(***************************************************************************)
EXTENDS Naturals, FiniteSets, Sequences

CONSTANTS Calls,          \* requests being handled at once
          Commands,       \* command ids
          Resolutions,    \* ids of repository-gate resolutions
          Applications,   \* ids of handoff applications, to either target
          Epics,          \* Delivery Epics that may be created
          ReceiptWindow,  \* receipts that the workflow state keeps (8)
          MaxVersion      \* bound on the record's lock version

VARIABLES record,         \* the work package: version, status, workflow state
          activity,       \* the structured events among its comments
          epics,          \* the Delivery Epics of this Proposal
          request,        \* what was submitted under each id
          call,           \* the calls being handled
          commits         \* <<id, version>> of every accepted mutation (history)

vars == <<record, activity, epics, request, call, commits>>

None == "none"
Prototype == "prototype"    \* the record of a Prototype target
Ids == Commands \cup Resolutions \cup Applications

NoHandoff == [state |-> "not-requested", packet |-> None, receipt |-> None, target |-> None]
NoRequest == [op |-> None, version |-> 0, status |-> None, packet |-> None]

(* A Proposal that was triaged before it had any workflow state.           *)
FirstRecord == [version |-> 1, status |-> "triaged", route |-> None, gate |-> None,
                handoff |-> NoHandoff, last |-> None, receipts |-> << >>,
                resolved |-> None, delivery |-> None]

Event(i, kind, version) == [id |-> i, kind |-> kind, version |-> version]
Idle == [at |-> "idle", id |-> None, record |-> FirstRecord,
         event |-> Event(None, None, 0), epic |-> None]

Init == /\ record = FirstRecord
        /\ activity = {} /\ epics = {} /\ commits = {}
        /\ request = [i \in Ids |-> NoRequest]
        /\ call = [c \in Calls |-> Idle]

(* What a command may be sent for: the statuses its contract admits.       *)
Admitted(op) ==
    CASE op = "triage" -> {"captured", "triaged"}
      [] op \in {"accept", "accept-new", "accept-prototype", "park"} ->
             {"triaged", "parked", "accepted", "rejected"}
      [] OTHER -> {"accepted"}

Operations(i) ==
    IF i \in Commands
    THEN {"triage", "accept", "accept-new", "accept-prototype", "park", "ready", "block"}
    ELSE IF i \in Resolutions THEN {"resolve"} ELSE {"apply", "acknowledge"}

(* The operator binds a request to the projection on the screen.  Only an  *)
(* application to Delivery is bound again, to a refreshed version.         *)
Submit(i, op) ==
    /\ op \in Operations(i) /\ record.status \in Admitted(op)
    /\ \/ request[i] = NoRequest
       \/ /\ op = "apply" /\ request[i].op = op
          /\ request[i].packet = record.handoff.packet
    /\ request' = [request EXCEPT ![i] = [op |-> op, version |-> record.version,
                      status |-> record.status, packet |-> record.handoff.packet]]
    /\ UNCHANGED <<record, activity, epics, call, commits>>

-----------------------------------------------------------------------------
(* The record as a command leaves it, with the last of the receipts.       *)
Received(r, receipt) ==
    LET kept == Append(SelectSeq(r.receipts, LAMBDA other : other # receipt), receipt)
        first == Len(kept) - ReceiptWindow + 1
    IN  SubSeq(kept, IF first > 1 THEN first ELSE 1, Len(kept))
HasReceipt(r, receipt) == \E n \in DOMAIN r.receipts : r.receipts[n] = receipt

Route(op) == [target |-> CASE op \in {"accept", "accept-new"} -> "delivery"
                           [] op = "accept-prototype" -> "prototype"
                           [] OTHER -> None,
              gate |-> CASE op = "accept-new" -> "pending"
                         [] op \in {"accept", "accept-prototype"} -> "resolved"
                         [] OTHER -> None]

ApplyProposalCommandToState(i, r) ==
    LET op == request[i].op
        kept == [r EXCEPT !.last = i, !.receipts = Received(r, i)]
    IN  CASE op = "triage" -> [kept EXCEPT !.status = "triaged"]
          [] op \in {"ready", "block"} ->
               [kept EXCEPT !.status = "accepted",
                  !.handoff = [NoHandoff EXCEPT !.packet = i,
                       !.state = IF op = "ready" THEN "ready" ELSE "blocked"]]
          [] OTHER ->
               [kept EXCEPT !.status = IF op = "park" THEN "parked" ELSE "accepted",
                  !.route = Route(op).target, !.gate = Route(op).gate,
                  !.handoff = NoHandoff]

ResolvedState(i, r) ==
    [r EXCEPT !.gate = "resolved", !.resolved = i, !.receipts = Received(r, i)]

ApplicationReceipt(i) == <<i, request[i].packet>>
FailureReceipt(i) == <<i, request[i].packet, "failed">>

Applied(i, target) == [state |-> "applied", packet |-> request[i].packet,
                       receipt |-> ApplicationReceipt(i), target |-> target]

ApplyHandoffToState(i, r, target) ==
    [r EXCEPT !.status = "accepted", !.handoff = Applied(i, target),
              !.receipts = Received(r, ApplicationReceipt(i))]

ApplyHandoffFailureToState(i, r) ==
    [r EXCEPT !.status = "accepted",
              !.handoff = [NoHandoff EXCEPT !.state = "blocked", !.packet = request[i].packet],
              !.receipts = Received(r, FailureReceipt(i))]

-----------------------------------------------------------------------------
Go(c, next) == call' = [call EXCEPT ![c] = next]

(* Mutant: only the status is compared with the source of the command.     *)
SourceStatusIsCurrent(i, r) == request[i].status = r.status

SourceIsCurrent(i, r) == request[i].version = r.version /\ request[i].status = r.status

(* The mutation is guarded by the lock version that was read.  conflict or *)
(* failure ends the call; the answer of a mutation may be lost.            *)
Patch(c, next, then) ==
    \/ /\ record.version = call[c].record.version /\ record.version < MaxVersion
       /\ record' = [next EXCEPT !.version = record.version + 1]
       /\ commits' = commits \cup {<<call[c].id, record.version + 1>>}
       /\ \/ Go(c, [then EXCEPT !.record = record']) \/ Go(c, Idle)
       /\ UNCHANGED <<activity, epics, request>>
    \/ /\ Go(c, Idle)
       /\ UNCHANGED <<record, activity, epics, request, commits>>

Recorded(i) == \E e \in activity : e.id = i /\ e.kind # "failed"

(* Mutant: a replayed event carries the version of the record as it is.    *)
ReplayAtCurrentVersion(i, r) == Event(i, "accepted", r.version)

ReplayedEvent(i, r) == Event(i, "accepted", request[i].version + 1)

(* applyCommand: reads the record, then the events, and decides.  What is  *)
(* recorded is answered as it is; what is not current is refused.          *)
ApplyCommand(c, i) ==
    LET reading == [Idle EXCEPT !.id = i, !.record = record] IN
    /\ call[c] = Idle /\ i \in Commands /\ request[i] # NoRequest
    /\ ~Recorded(i)
    /\ \/ /\ record.last = i /\ HasReceipt(record, i)
          /\ Go(c, [reading EXCEPT !.at = "event", !.event = ReplayedEvent(i, record)])
       \/ /\ record.last # i /\ SourceIsCurrent(i, record)
          /\ Go(c, [reading EXCEPT !.at = "mutate"])
    /\ UNCHANGED <<record, activity, epics, request, commits>>

MutateByCommand(c) ==
    LET i == call[c].id IN
    /\ call[c].at = "mutate" /\ i \in Commands
    /\ Patch(c, ApplyProposalCommandToState(i, call[c].record),
             [call[c] EXCEPT !.at = "event", !.event = Event(i, "accepted", call[c].record.version + 1)])

(* resolveRepositoryGate, with the succeeded custody bound to the request. *)
ResolveRepositoryGate(c, i) ==
    LET reading == [Idle EXCEPT !.id = i, !.record = record]
        pending == record.gate = "pending" /\ record.handoff.state \in {"not-requested", "blocked"}
    IN
    /\ call[c] = Idle /\ i \in Resolutions /\ request[i] # NoRequest
    /\ ~Recorded(i)
    /\ \/ /\ record.resolved = i /\ record.gate = "resolved"
          /\ Go(c, [reading EXCEPT !.at = "event", !.event = ReplayedEvent(i, record)])
       \/ /\ record.resolved # i /\ ~HasReceipt(record, i)
          /\ SourceIsCurrent(i, record) /\ pending
          /\ Go(c, [reading EXCEPT !.at = "mutate"])
    /\ UNCHANGED <<record, activity, epics, request, commits>>

MutateByResolution(c) ==
    LET i == call[c].id IN
    /\ call[c].at = "mutate" /\ i \in Resolutions
    /\ Patch(c, ResolvedState(i, call[c].record),
             [call[c] EXCEPT !.at = "event", !.event = Event(i, "accepted", call[c].record.version + 1)])

(* The event is the last write of every call.  It may fail.                *)
AppendEvent(c) ==
    /\ call[c].at = "event"
    /\ activity' \in {activity \cup {call[c].event}, activity}
    /\ Go(c, Idle)
    /\ UNCHANGED <<record, epics, request, commits>>

-----------------------------------------------------------------------------
HandoffIsReady(i, r) ==
    /\ r.status = "accepted" /\ r.route = "delivery" /\ r.gate = "resolved"
    /\ \/ r.handoff.state = "ready"
       \/ r.handoff.state = "blocked" /\ HasReceipt(r, FailureReceipt(i))

HandoffSourceIsCurrent(i, r) ==
    /\ request[i].packet = r.handoff.packet
    /\ request[i].version = r.version \/ r.delivery # None

(* applyHandoff: an application found applied only completes its event.    *)
ApplyHandoff(c, i) ==
    LET reading == [Idle EXCEPT !.id = i, !.record = record] IN
    /\ call[c] = Idle /\ i \in Applications /\ request[i].op = "apply"
    /\ \/ /\ record.handoff.state = "applied"
          /\ record.handoff.receipt = ApplicationReceipt(i)
          /\ ~Recorded(i)
          /\ Go(c, [reading EXCEPT !.at = "event", !.event = Event(i, "accepted", record.version)])
       \/ /\ record.handoff.state # "applied"
          /\ HandoffIsReady(i, record) /\ HandoffSourceIsCurrent(i, record)
          /\ Go(c, [reading EXCEPT !.at = "lookup"])
    /\ UNCHANGED <<record, activity, epics, request, commits>>

(* acknowledgePrototypeHandoff: the application to a Prototype target is   *)
(* done elsewhere, and the Proposal must be as it was evaluated.           *)
AcknowledgePrototypeHandoff(c, i) ==
    LET reading == [Idle EXCEPT !.id = i, !.record = record] IN
    /\ call[c] = Idle /\ i \in Applications /\ request[i].op = "acknowledge"
    /\ \/ /\ record.handoff = Applied(i, Prototype) /\ ~Recorded(i)
          /\ Go(c, [reading EXCEPT !.at = "event", !.event = Event(i, "accepted", record.version)])
       \/ /\ record.status = "accepted" /\ record.route = "prototype"
          /\ record.gate = "resolved" /\ record.handoff.state = "ready"
          /\ request[i].packet = record.handoff.packet
          /\ request[i].version = record.version
          /\ Go(c, [reading EXCEPT !.at = "applied", !.epic = Prototype])
    /\ UNCHANGED <<record, activity, epics, request, commits>>

(* consumeAcceptedIdea: the Epic of the backlink, or one whose origin is   *)
(* this Proposal, or a new one.                                            *)
FindEpic(c) ==
    /\ call[c].at = "lookup"
    /\ \/ /\ call[c].record.delivery # None
          /\ Go(c, [call[c] EXCEPT !.at = "applied", !.epic = call[c].record.delivery])
       \/ /\ call[c].record.delivery = None
          /\ \E e \in epics : Go(c, [call[c] EXCEPT !.at = "backlink", !.epic = e])
       \/ /\ call[c].record.delivery = None /\ epics = {}
          /\ Go(c, [call[c] EXCEPT !.at = "create"])
    /\ UNCHANGED <<record, activity, epics, request, commits>>

CreateEpic(c, e) ==
    /\ call[c].at = "create" /\ e \in Epics \ epics
    /\ epics' = epics \cup {e}
    /\ \/ Go(c, [call[c] EXCEPT !.at = "backlink", !.epic = e])
       \/ Go(c, [call[c] EXCEPT !.at = "failed"])
    /\ UNCHANGED <<record, activity, request, commits>>

(* setIdeaDeliveryRef reads the record again and writes the one field; the *)
(* call goes on from the record that this write returns.                   *)
SetIdeaDeliveryRef(c) ==
    /\ call[c].at = "backlink" /\ record.version < MaxVersion
    /\ record' = [record EXCEPT !.version = @ + 1, !.delivery = call[c].epic]
    /\ Go(c, [call[c] EXCEPT !.at = "applied", !.record = record'])
    /\ UNCHANGED <<activity, epics, request, commits>>

TargetFails(c) ==
    /\ call[c].at \in {"lookup", "create", "backlink"}
    /\ Go(c, [call[c] EXCEPT !.at = "failed"])
    /\ UNCHANGED <<record, activity, epics, request, commits>>

(* A failure is kept as a blocked handoff, and then as an event.           *)
MutateByFailure(c) ==
    /\ call[c].at = "failed"
    /\ Patch(c, ApplyHandoffFailureToState(call[c].id, call[c].record),
             [call[c] EXCEPT !.at = "event",
                 !.event = Event(call[c].id, "failed", call[c].record.version + 1)])

(* The applied state is written over the record that was last read; when   *)
(* the answer is an error the record is read again, to see what it is.     *)
MutateByApplication(c) ==
    LET i == call[c].id
        done == [call[c] EXCEPT !.at = "event", !.event = Event(i, "accepted", call[c].record.version + 1)]
    IN
    /\ call[c].at = "applied"
    /\ \/ Patch(c, ApplyHandoffToState(i, call[c].record, call[c].epic), done)
       \/ /\ record.handoff = Applied(i, call[c].epic)
          /\ Go(c, [done EXCEPT !.event = Event(i, "accepted", record.version)])
          /\ UNCHANGED <<record, activity, epics, request, commits>>

Next ==
    \/ \E i \in Ids : \E op \in Operations(i) : Submit(i, op)
    \/ \E c \in Calls :
          \/ \E i \in Ids :
                \/ ApplyCommand(c, i) \/ ResolveRepositoryGate(c, i)
                \/ ApplyHandoff(c, i) \/ AcknowledgePrototypeHandoff(c, i)
          \/ MutateByCommand(c) \/ MutateByResolution(c)
          \/ MutateByApplication(c) \/ MutateByFailure(c)
          \/ AppendEvent(c) \/ FindEpic(c) \/ SetIdeaDeliveryRef(c) \/ TargetFails(c)
          \/ \E e \in Epics : CreateEpic(c, e)

Spec == Init /\ [][Next]_vars

-----------------------------------------------------------------------------
(* A command or a resolution changes the record at most once, and every    *)
(* event of one names the version at which it did, whatever was retried,   *)
(* lost or repaired after later changes.                                   *)
HistoryTellsTheCommits ==
    \A i \in Commands \cup Resolutions :
        /\ \A v, w \in 1..MaxVersion : <<i, v>> \in commits /\ <<i, w>> \in commits => v = w
        /\ \A e \in activity : e.id = i => <<i, e.version>> \in commits

(* "limited to accepted Proposals whose prepared route targets Delivery"   *)
(* (docs/contracts/proposal-workflow-v1.md:115): a handoff that was applied*)
(* to Delivery is of a Proposal that is routed there.                      *)
AppliedIsRoutedToDelivery ==
    record.handoff.target \in Epics => record.status = "accepted" /\ record.route = "delivery"

=============================================================================

------------------------ MODULE LifecycleTransition ------------------------
(***************************************************************************)
(* The records of the lifecycle-transition journal: how a transition is    *)
(* created, superseded and moved by the events of its owners.              *)
(*                                                                         *)
(* The service keeps the events and computes the projection from them at   *)
(* every use; the projection here is that fold, kept up to date.  Requests *)
(* and events that fail authentication, the contract, the owner binding or *)
(* the order of times are refused without a change and left out, as is the *)
(* storage, which is TransitionJournal.                                    *)
(***************************************************************************)
EXTENDS Naturals, FiniteSets

CONSTANTS Transitions,  \* the ids of requests, for one source record and route
          Controls,     \* controls an authority decides
          MaxEvents     \* bound on the sequence, per transition

VARIABLE record         \* per id: the stored transition

None == "none"

States == {"prepared", "validating", "awaiting-authority", "awaiting-admission",
           "authorized", "applying", "blocked", "returned", "deferred",
           "rejected", "failed", "applied", "cancelled", "superseded"}
TerminalStates == {"applied", "cancelled", "superseded"}
Live == States \ TerminalStates

(* The states in which nothing holds a transition back, or did.            *)
Going == States \ {"blocked", "returned", "deferred", "rejected",
                   "cancelled", "superseded"}

(* What the projection keeps.  A gate, a correction, a deferral, a         *)
(* rejection and a decision are copied from an event: at is the sequence   *)
(* of that event, 0 where there is none.  A gate may have a fix; a deferral*)
(* has somebody who deferred.                                              *)
NoGate == [at |-> 0, fixed |-> FALSE]
NoDeferral == [at |-> 0, by |-> None]

Prepared(predecessor) ==
    [state |-> "prepared", sequence |-> 0, validation |-> "not-started",
     decisions |-> [c \in Controls |-> [outcome |-> None, at |-> 0]],
     admission |-> "not-started", application |-> "not-started",
     gate |-> NoGate, correction |-> 0, deferred |-> NoDeferral, rejection |-> 0,
     supersedes |-> predecessor, supersededBy |-> None]

NoRecord == [Prepared(None) EXCEPT !.state = None]
Stored(t) == record[t].state # None

-----------------------------------------------------------------------------
(* Events: the kind and as much of its details as the projection tells     *)
(* apart.                                                                  *)
Event(kind, outcome, control) ==
    [kind |-> kind, outcome |-> outcome, control |-> control]

Events ==
    {Event(k, None, None) : k \in
        {"validation-started", "application-started", "target-application-recorded",
         "application-failed", "gate-blocked", "source-correction-returned",
         "transition-deferred", "transition-cancelled"}}
    \cup {Event("validation-completed", o, None) : o \in
             {"passed", "passed-authority-required",
              "blocked-first-fixed", "blocked-first-unfixed"}}
    \cup {Event("authority-decision-recorded", o, c) :
             o \in {"approved", "deferred", "pending"}, c \in Controls}
    \cup {Event("target-admission-recorded", o, None) : o \in {"admitted", "rejected"}}

(* Mutant: an application may be recorded as soon as it is authorized.     *)
AllowedAfterAuthorization(kind) ==
    IF kind = "target-application-recorded" THEN {"authorized", "applying"}
    ELSE IF kind = "application-started" THEN {"awaiting-admission", "authorized", "failed"}
    ELSE Live

(* The states an event may follow.                                         *)
AllowedAfter(kind) ==
    CASE kind = "validation-started" ->
            {"prepared", "blocked", "returned", "deferred", "rejected"}
      [] kind = "validation-completed" -> {"validating"}
      [] kind = "authority-decision-recorded" -> {"awaiting-authority"}
      [] kind = "target-admission-recorded" -> {"awaiting-admission"}
      [] kind = "application-started" -> {"authorized", "failed"}
      [] kind \in {"target-application-recorded", "application-failed"} -> {"applying"}
      [] kind = "gate-blocked" ->
            {"validating", "awaiting-authority", "awaiting-admission",
             "authorized", "applying"}
      [] kind = "source-correction-returned" ->
            {"validating", "awaiting-authority", "awaiting-admission",
             "blocked", "rejected"}
      [] kind = "transition-deferred" -> Live \ {"deferred"}
      [] kind \in {"transition-cancelled", "transition-superseded"} -> Live

AssertEventTransition(p, e) ==
    /\ p.state \notin TerminalStates
    /\ p.state \in AllowedAfter(e.kind)

(* Mutant: a new validation keeps what ended the last one.                 *)
ApplyValidationKeepingGate(p, e) ==
    IF e.kind = "validation-started"
    THEN [p EXCEPT !.state = "validating", !.validation = "running"]
    ELSE CASE e.outcome = "passed" -> [p EXCEPT !.state = "awaiting-admission",
                                                !.validation = "passed"]
           [] e.outcome = "passed-authority-required" ->
                [p EXCEPT !.state = "awaiting-authority", !.validation = "passed"]
           [] OTHER -> [p EXCEPT !.state = "blocked", !.validation = "blocked"]

(* The gate a blocked validation names is the first of the blocked ones.   *)
ApplyValidation(p, e) ==
    CASE e.kind = "validation-started" ->
            [p EXCEPT !.state = "validating", !.validation = "running",
                      !.gate = NoGate, !.correction = 0, !.deferred = NoDeferral,
                      !.rejection = 0]
      [] e.outcome = "passed" ->
            [p EXCEPT !.state = "awaiting-admission", !.validation = "passed"]
      [] e.outcome = "passed-authority-required" ->
            [p EXCEPT !.state = "awaiting-authority", !.validation = "passed"]
      [] OTHER ->
            [p EXCEPT !.state = "blocked", !.validation = "blocked",
                      !.gate = [at |-> p.sequence,
                                fixed |-> e.outcome = "blocked-first-fixed"]]

ApplyDecision(p, e) ==
    LET q == [p EXCEPT !.decisions[e.control] = [outcome |-> e.outcome, at |-> p.sequence]]
    IN  CASE e.outcome = "approved" -> [q EXCEPT !.state = "awaiting-admission"]
          [] e.outcome = "deferred" -> [q EXCEPT !.state = "deferred",
                       !.deferred = [at |-> p.sequence, by |-> e.control]]
          [] e.outcome = "pending" -> [q EXCEPT !.state = "awaiting-authority"]

ApplyAdmission(p, e) ==
    IF e.outcome = "admitted"
    THEN [p EXCEPT !.state = "authorized", !.admission = "admitted", !.rejection = 0]
    ELSE [p EXCEPT !.state = "rejected", !.admission = "rejected",
                   !.rejection = p.sequence]

ApplyEvent(p, e) ==
    LET q == [p EXCEPT !.sequence = @ + 1]
    IN  CASE e.kind \in {"validation-started", "validation-completed"} ->
                ApplyValidation(q, e)
          [] e.kind = "authority-decision-recorded" -> ApplyDecision(q, e)
          [] e.kind = "target-admission-recorded" -> ApplyAdmission(q, e)
          [] e.kind = "application-started" ->
                [q EXCEPT !.state = "applying", !.application = "running"]
          [] e.kind = "target-application-recorded" ->
                [q EXCEPT !.state = "applied", !.application = "applied"]
          [] e.kind = "application-failed" ->
                [q EXCEPT !.state = "failed", !.application = "failed"]
          [] e.kind = "gate-blocked" ->
                [q EXCEPT !.state = "blocked",
                          !.gate = [at |-> q.sequence, fixed |-> TRUE]]
          [] e.kind = "source-correction-returned" ->
                [q EXCEPT !.state = "returned", !.correction = q.sequence]
          [] e.kind = "transition-deferred" ->
                [q EXCEPT !.state = "deferred",
                          !.deferred = [at |-> q.sequence, by |-> "source"]]
          [] e.kind = "transition-cancelled" -> [q EXCEPT !.state = "cancelled"]

(* nextAction: whom the projection asks to act.  Of the decisions that are *)
(* found it is the first, a new one being put behind the others.           *)
Decided(p, outcomes) == {c \in Controls : p.decisions[c].outcome \in outcomes}
FirstOf(p, decided) ==
    CHOOSE c \in decided : \A d \in decided : p.decisions[c].at <= p.decisions[d].at

NextOwner(p) ==
    LET open == Decided(p, {"deferred", "pending"})
        deferred == Decided(p, {"deferred"}) IN
    CASE p.state \in {"prepared", "validating"} -> "validation"
      [] p.state = "awaiting-authority" ->
            IF open # {} THEN FirstOf(p, open) ELSE "validation"
      [] p.state = "awaiting-admission" -> "admission"
      [] p.state \in {"authorized", "applying", "failed"} -> "execution"
      [] p.state = "blocked" -> IF p.gate # NoGate THEN "gate" ELSE "validation"
      [] p.state = "returned" -> IF p.correction # 0 THEN "correction" ELSE "source"
      [] p.state = "deferred" -> IF deferred # {} THEN FirstOf(p, deferred) ELSE "source"
      [] p.state = "rejected" -> "source"
      [] OTHER -> None

-----------------------------------------------------------------------------
Init == record = [t \in Transitions |-> NoRecord]

(* A request whose idempotency key is new.                                 *)
Create(t) ==
    /\ ~Stored(t)
    /\ record' = [record EXCEPT ![t] = Prepared(None)]

(* A request that supersedes a live transition: both in one transaction.   *)
CreateSuperseding(t, old) ==
    /\ ~Stored(t) /\ Stored(old) /\ record[old].state \notin TerminalStates
    /\ record' = [record EXCEPT ![t] = Prepared(old),
                                ![old].state = "superseded",
                                ![old].sequence = @ + 1,
                                ![old].supersededBy = t]

Append(t, e) ==
    /\ Stored(t) /\ record[t].sequence < MaxEvents[t]
    /\ AssertEventTransition(record[t], e)
    /\ record' = [record EXCEPT ![t] = ApplyEvent(@, e)]

Next == \E t \in Transitions :
            \/ Create(t)
            \/ \E old \in Transitions : CreateSuperseding(t, old)
            \/ \E e \in Events : Append(t, e)

Spec == Init /\ [][Next]_record
-----------------------------------------------------------------------------
(* contracts/lifecycle-transition/project-lifecycle.yaml:416: whatever was *)
(* blocked, returned, deferred or rejected on the way, a transition is     *)
(* applied only with a passed validation, an admission and an application  *)
(* that was started under them.                                            *)
AppliedIsEarned ==
    \A t \in Transitions : record[t].state = "applied" =>
        /\ record[t].validation = "passed"
        /\ record[t].admission = "admitted"
        /\ record[t].application = "applied"
        /\ record[t].sequence >= 5

(* contracts/lifecycle-transition/project-lifecycle.yaml:412-414: a stop is*)
(* explained by the event that stopped the transition, and not by one of   *)
(* an earlier stop; a transition that goes on shows nothing of any stop    *)
(* that it had, nor does an applied one.  A deferral asks whoever deferred,*)
(* unless an authority's earlier deferral was not decided since: then the  *)
(* projection may ask that one.  A gate names its fix, unless it is the    *)
(* first of those that a validation found blocked: of these only some one  *)
(* must have a fix.                                                        *)
StopIsExplained ==
    \A t \in Transitions : LET p == record[t] IN
        /\ p.state = "blocked" =>
              /\ p.gate.at = p.sequence
              /\ p.validation # "blocked" => p.gate.fixed
        /\ p.state = "returned" => p.correction = p.sequence
        /\ p.state = "rejected" => p.rejection = p.sequence
        /\ p.state = "deferred" =>
              /\ p.deferred.at = p.sequence
              /\ \/ NextOwner(p) = p.deferred.by
                 \/ \E c \in Decided(p, {"deferred"}) : p.decisions[c].at < p.sequence
        /\ p.state \in Going =>
              /\ p.gate = NoGate /\ p.correction = 0
              /\ p.deferred = NoDeferral /\ p.rejection = 0

=============================================================================

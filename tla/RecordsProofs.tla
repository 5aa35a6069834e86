---------------------------- MODULE RecordsProofs ----------------------------
(***************************************************************************)
(* Proofs about the records of MCRecords: lifecycle transitions, runs of   *)
(* refinements, ideas and delivery items in OpenProject, proposals with    *)
(* their events, and package commands, whose invariant is of               *)
(* PackageCommandsProofs.  All are for any number of calls.                *)
(*                                                                         *)
(* Each part has the inductive invariant of one component; the last lifts  *)
(* them to the specification of the run, in which a behaviour is about one *)
(* of them and leaves the variables of the others alone.                   *)
(*                                                                         *)
(* The first part is about LifecycleTransition.  Its invariant is per      *)
(* record: the validation and admission a state has behind it, what a stop *)
(* leaves in the projection, and how many events it takes to come so far.  *)
(* It is inductive because a new validation is the only way out of a stop. *)
(***************************************************************************)
EXTENDS MCRecords, FiniteSetTheorems, TLAPS

Outcomes == {"approved", "deferred", "pending"}

Decision == [outcome : Outcomes \cup {None}, at : Nat]
Decisions == [Controls -> Decision]
Names == Transitions \cup {None}
AllStates == States \cup {None}
Validations == {"not-started", "running", "passed", "blocked"}
Admissions == {"not-started", "admitted", "rejected"}
ApplicationStates == {"not-started", "running", "applied", "failed"}
Gates == [at : Nat, fixed : BOOLEAN]
Deferrals == [at : Nat, by : Controls \cup {None, "source"}]

Projections ==
    [state : AllStates, sequence : Nat, validation : Validations,
     decisions : Decisions,
     admission : Admissions, application : ApplicationStates,
     gate : Gates, correction : Nat, deferred : Deferrals, rejection : Nat,
     supersedes : Names, supersededBy : Names]

TypeOK == record \in [Transitions -> Projections]

(* What a state has behind it.                                             *)
Earned(p) ==
    /\ p.state \in {"awaiting-authority", "awaiting-admission", "authorized",
                    "applying", "failed", "applied"} => p.validation = "passed"
    /\ p.state \in {"authorized", "applying", "failed", "applied"}
          => p.admission = "admitted"
    /\ p.state = "applied" => p.application = "applied"

(* The fewest events that lead to a state.                                 *)
Counted(p) ==
    /\ p.state = "validating" => p.sequence >= 1
    /\ p.state \in {"awaiting-authority", "awaiting-admission"} => p.sequence >= 2
    /\ p.state = "authorized" => p.sequence >= 3
    /\ p.state = "applying" => p.sequence >= 4
    /\ p.state \in {"failed", "applied"} => p.sequence >= 5

(* A stop is of the last event; the deferrals of the authorities are of it *)
(* or of earlier ones.                                                     *)
Deferred(p) == Decided(p, {"deferred"})
DeferralExplained(p) ==
    /\ p.deferred.at = p.sequence
    /\ \/ Deferred(p) = {} /\ p.deferred.by = "source"
       \/ p.deferred.by \in Controls /\ Deferred(p) = {p.deferred.by}
       \/ \E c \in Deferred(p) : p.decisions[c].at < p.sequence

Explained(p) ==
    /\ p.state = "blocked" => /\ p.gate.at = p.sequence
                              /\ p.validation # "blocked" => p.gate.fixed
    /\ p.state = "returned" => p.correction = p.sequence
    /\ p.state = "deferred" => DeferralExplained(p)
    /\ p.state = "rejected" => p.rejection = p.sequence
    /\ \A c \in Controls : p.decisions[c].at <= p.sequence

(* Where nothing holds a transition back, nothing of a stop is left.       *)
Clear(p) ==
    p.state \in Going => /\ p.gate = NoGate /\ p.correction = 0
                         /\ p.deferred = NoDeferral /\ p.rejection = 0

Sound(p) == Earned(p) /\ Counted(p) /\ Explained(p) /\ Clear(p)

Inv == \A t \in Transitions : Sound(record[t])

-----------------------------------------------------------------------------
(* Records.                                                                *)

(* The values the events write are of the sets of their fields.            *)
LEMMA FieldValues ==
    /\ "prepared" \in AllStates /\ "validating" \in AllStates
    /\ "awaiting-authority" \in AllStates /\ "awaiting-admission" \in AllStates
    /\ "authorized" \in AllStates /\ "applying" \in AllStates
    /\ "blocked" \in AllStates /\ "returned" \in AllStates
    /\ "deferred" \in AllStates /\ "rejected" \in AllStates
    /\ "failed" \in AllStates /\ "applied" \in AllStates
    /\ "cancelled" \in AllStates /\ "superseded" \in AllStates
    /\ "not-started" \in Validations /\ "running" \in Validations
    /\ "passed" \in Validations /\ "blocked" \in Validations
    /\ "not-started" \in Admissions /\ "admitted" \in Admissions
    /\ "rejected" \in Admissions
    /\ "not-started" \in ApplicationStates /\ "running" \in ApplicationStates
    /\ "applied" \in ApplicationStates /\ "failed" \in ApplicationStates
    /\ NoGate \in Gates /\ NoDeferral \in Deferrals
    /\ None \in AllStates
    /\ None \in Names /\ \A t \in Transitions : t \in Names
    /\ [c \in Controls |-> [outcome |-> None, at |-> 0]] \in Decisions
    /\ \A d \in Decisions, c \in Controls, o \in Decision : [d EXCEPT ![c] = o] \in Decisions
  BY DEF AllStates, States, Validations, Admissions, ApplicationStates, Gates, Deferrals,
         Names, Decision, Decisions, NoGate, NoDeferral

(* A created transition is typed and sound, as is the absence of one.      *)
LEMMA PreparedSound ==
    ASSUME NEW t \in Transitions \cup {None}
    PROVE  /\ Prepared(t) \in Projections /\ Sound(Prepared(t))
           /\ NoRecord \in Projections /\ Sound(NoRecord)
<1>1. Prepared(t) \in Projections /\ NoRecord \in Projections
  BY FieldValues DEF Prepared, NoRecord, Projections, Names
<1>. QED BY <1>1 DEF Prepared, NoRecord, Sound, Earned, Counted, Explained, Clear, None

(* An event counts one more in the sequence.                               *)
LEMMA Counting ==
    ASSUME NEW p \in Projections
    PROVE  LET q == [p EXCEPT !.sequence = @ + 1]
           IN  /\ q \in Projections /\ p.sequence \in Nat
               /\ q.sequence = p.sequence + 1 /\ q.state = p.state
               /\ q.validation = p.validation /\ q.admission = p.admission
               /\ q.application = p.application /\ q.decisions = p.decisions
               /\ q.gate = p.gate /\ q.correction = p.correction
               /\ q.deferred = p.deferred /\ q.rejection = p.rejection
  BY DEF Projections

(* The projections that the events build have the types of a projection.   *)
LEMMA EventTypes ==
    ASSUME NEW q \in Projections
    PROVE  /\ [q EXCEPT !.state = "validating", !.validation = "running",
                        !.gate = NoGate, !.correction = 0, !.deferred = NoDeferral,
                        !.rejection = 0] \in Projections
           /\ [q EXCEPT !.state = "awaiting-admission", !.validation = "passed"]
                 \in Projections
           /\ [q EXCEPT !.state = "awaiting-authority", !.validation = "passed"]
                 \in Projections
           /\ \A g \in Gates :
                 [q EXCEPT !.state = "blocked", !.validation = "blocked",
                           !.gate = g] \in Projections
           /\ [q EXCEPT !.state = "awaiting-admission"] \in Projections
           /\ [q EXCEPT !.state = "awaiting-authority"] \in Projections
           /\ [q EXCEPT !.state = "authorized", !.admission = "admitted",
                        !.rejection = 0] \in Projections
           /\ \A n \in Nat :
                 [q EXCEPT !.state = "rejected", !.admission = "rejected",
                           !.rejection = n] \in Projections
           /\ [q EXCEPT !.state = "applying", !.application = "running"]
                 \in Projections
           /\ [q EXCEPT !.state = "applied", !.application = "applied"]
                 \in Projections
           /\ [q EXCEPT !.state = "failed", !.application = "failed"]
                 \in Projections
           /\ \A g \in Gates :
                 [q EXCEPT !.state = "blocked", !.gate = g] \in Projections
           /\ \A n \in Nat :
                 [q EXCEPT !.state = "returned", !.correction = n] \in Projections
           /\ \A d \in Deferrals :
                 [q EXCEPT !.state = "deferred", !.deferred = d] \in Projections
           /\ [q EXCEPT !.state = "cancelled"] \in Projections
  BY FieldValues DEF Projections

(* A step of the events between states that stop nothing keeps the reasons.*)
LEMMA StillSound ==
    ASSUME NEW p \in Projections, NEW x \in Projections, Sound(p),
           p.state \in Going, x.state \in Going \cup {"cancelled"},
           x.sequence = p.sequence + 1, x.decisions = p.decisions,
           x.gate = p.gate, x.correction = p.correction,
           x.deferred = p.deferred, x.rejection = p.rejection
    PROVE  Explained(x) /\ Clear(x)
<1>1. p.sequence \in Nat /\ \A c \in Controls : p.decisions[c].at \in Nat
  BY DEF Projections, Decisions, Decision
<1>2. x.state \notin {"blocked", "returned", "deferred", "rejected"}
  BY DEF Going
<1>. QED BY <1>1, <1>2 DEF Sound, Explained, Clear

(* The states that follow a validation event, and what it leaves.          *)
LEMMA ValidationSound ==
    ASSUME NEW p \in Projections, NEW e \in Events, Sound(p),
           AssertEventTransition(p, e),
           e.kind \in {"validation-started", "validation-completed"}
    PROVE  ApplyEvent(p, e) \in Projections /\ Sound(ApplyEvent(p, e))
<1>. SUFFICES ASSUME NEW x, x = ApplyEvent(p, e)
              PROVE  x \in Projections /\ Sound(x)
  OBVIOUS
<1>0. PICK q \in Projections : q = [p EXCEPT !.sequence = @ + 1]
  BY Counting
<1>1. /\ p.sequence \in Nat
      /\ q.sequence = p.sequence + 1 /\ q.state = p.state
      /\ q.validation = p.validation /\ q.admission = p.admission
      /\ q.application = p.application /\ q.decisions = p.decisions
      /\ q.gate = p.gate /\ q.correction = p.correction
      /\ q.deferred = p.deferred /\ q.rejection = p.rejection
  BY <1>0, Counting
<1>e. \A c \in Controls : p.decisions[c].at \in Nat /\ p.decisions[c].at <= p.sequence
  BY DEF Projections, Decisions, Decision, Sound, Explained
<1>2. x = ApplyValidation(q, e)
  BY <1>0 DEF ApplyEvent
<1>3. CASE e.kind = "validation-started"
  <2>1. e.outcome = None
    BY <1>3 DEF Events, Event
  <2>2. x = [q EXCEPT !.state = "validating", !.validation = "running",
                      !.gate = NoGate, !.correction = 0, !.deferred = NoDeferral,
                      !.rejection = 0]
    BY <1>2, <1>3, <2>1 DEF ApplyValidation, None
  <2>3. [q EXCEPT !.state = "validating", !.validation = "running",
                  !.gate = NoGate, !.correction = 0, !.deferred = NoDeferral,
                  !.rejection = 0] \in Projections
    BY EventTypes
  <2>8. x \in Projections
    BY <2>2, <2>3
  <2>9. Sound(x)
    BY <1>1, <1>e, <2>2 DEF Projections, Sound, Earned, Counted, Explained, Clear
  <2>. QED BY <2>8, <2>9
<1>4. CASE e.kind = "validation-completed"
  <2>1. p.state = "validating"
    BY <1>4 DEF AssertEventTransition, AllowedAfter
  <2>2. e.outcome \in {"passed", "passed-authority-required",
                       "blocked-first-fixed", "blocked-first-unfixed"}
    BY <1>4 DEF Events, Event
  <2>3. CASE e.outcome = "passed"
    <3>1. x = [q EXCEPT !.state = "awaiting-admission", !.validation = "passed"]
      BY <1>2, <1>4, <2>3 DEF ApplyValidation
    <3>7. x \in Projections
      BY <2>1, <3>1, EventTypes
    <3>8. Earned(x) /\ Counted(x)
      BY <1>1, <2>1, <3>1 DEF Projections, Sound, Earned, Counted
    <3>9. Explained(x) /\ Clear(x)
      <4>1. /\ x.sequence = q.sequence /\ x.decisions = q.decisions /\ x.gate = q.gate
            /\ x.correction = q.correction /\ x.deferred = q.deferred
            /\ x.rejection = q.rejection /\ x.state \in Going
        BY <1>1, <2>1, <3>1 DEF Projections, Going, States
      <4>. QED BY <1>1, <3>7, <2>1, <3>1, <4>1, StillSound DEF Going, States
    <3>. QED BY <3>7, <3>8, <3>9 DEF Sound
  <2>4. CASE e.outcome = "passed-authority-required"
    <3>1. x = [q EXCEPT !.state = "awaiting-authority", !.validation = "passed"]
      BY <1>2, <1>4, <2>4 DEF ApplyValidation
    <3>7. x \in Projections
      BY <2>1, <3>1, EventTypes
    <3>8. Earned(x) /\ Counted(x)
      BY <1>1, <2>1, <3>1 DEF Projections, Sound, Earned, Counted
    <3>9. Explained(x) /\ Clear(x)
      <4>1. /\ x.sequence = q.sequence /\ x.decisions = q.decisions /\ x.gate = q.gate
            /\ x.correction = q.correction /\ x.deferred = q.deferred
            /\ x.rejection = q.rejection /\ x.state \in Going
        BY <1>1, <2>1, <3>1 DEF Projections, Going, States
      <4>. QED BY <1>1, <3>7, <2>1, <3>1, <4>1, StillSound DEF Going, States
    <3>. QED BY <3>7, <3>8, <3>9 DEF Sound
  <2>5. CASE e.outcome \in {"blocked-first-fixed", "blocked-first-unfixed"}
    <3>. DEFINE g == [at |-> q.sequence, fixed |-> e.outcome = "blocked-first-fixed"]
    <3>1. x = [q EXCEPT !.state = "blocked", !.validation = "blocked", !.gate = g]
      BY <1>2, <1>4, <2>5 DEF ApplyValidation
    <3>2. g \in Gates /\ g.at = p.sequence + 1
      BY <1>1 DEF Gates
    <3>. HIDE DEF g
    <3>3. [q EXCEPT !.state = "blocked", !.validation = "blocked", !.gate = g] \in Projections
      BY <3>2, EventTypes
    <3>8. x \in Projections
      BY <3>1, <3>3
    <3>9. Sound(x)
      BY <1>1, <1>e, <3>1, <3>2
      DEF Projections, Sound, Earned, Counted, Explained, Clear, Going
    <3>. QED BY <3>8, <3>9
  <2>. QED BY <2>2, <2>3, <2>4, <2>5
<1>. QED BY <1>3, <1>4

(* A decision of an authority, and the admission of the target.            *)
LEMMA DecisionSound ==
    ASSUME NEW p \in Projections, NEW e \in Events, Sound(p),
           AssertEventTransition(p, e),
           e.kind \in {"authority-decision-recorded", "target-admission-recorded"}
    PROVE  ApplyEvent(p, e) \in Projections /\ Sound(ApplyEvent(p, e))
<1>. SUFFICES ASSUME NEW x, x = ApplyEvent(p, e)
              PROVE  x \in Projections /\ Sound(x)
  OBVIOUS
<1>0. PICK q \in Projections : q = [p EXCEPT !.sequence = @ + 1]
  BY Counting
<1>1. /\ p.sequence \in Nat
      /\ q.sequence = p.sequence + 1 /\ q.state = p.state
      /\ q.validation = p.validation /\ q.admission = p.admission
      /\ q.application = p.application /\ q.decisions = p.decisions
      /\ q.gate = p.gate /\ q.correction = p.correction
      /\ q.deferred = p.deferred /\ q.rejection = p.rejection
  BY <1>0, Counting
<1>e. \A c \in Controls : p.decisions[c].at \in Nat /\ p.decisions[c].at <= p.sequence
  BY DEF Projections, Decisions, Decision, Sound, Explained
<1>2. CASE e.kind = "authority-decision-recorded"
  <2>1. p.state = "awaiting-authority" /\ x = ApplyDecision(q, e)
    BY <1>0, <1>2 DEF AssertEventTransition, AllowedAfter, ApplyEvent
  <2>2. e.outcome \in Outcomes /\ e.control \in Controls
    BY <1>2 DEF Events, Event, Outcomes
  <2>. DEFINE d == [outcome |-> e.outcome, at |-> q.sequence]
  <2>3. PICK r \in Projections : r = [q EXCEPT !.decisions[e.control] = d]
    BY <1>1, <2>2, FieldValues DEF Projections, Decision
  <2>4. /\ r.validation = p.validation /\ r.sequence = p.sequence + 1
        /\ r.admission = p.admission /\ r.gate = p.gate
        /\ r.correction = p.correction /\ r.deferred = p.deferred
        /\ r.rejection = p.rejection
    BY <1>1, <2>3 DEF Projections
  <2>5. \A c \in Controls : r.decisions[c] = IF c = e.control THEN d ELSE p.decisions[c]
    BY <1>1, <2>2, <2>3 DEF Projections, Decisions
  <2>6. \A c \in Controls : r.decisions[c].at <= p.sequence + 1
    BY <1>1, <1>e, <2>5
  <2>7. /\ p.gate = NoGate /\ p.correction = 0
        /\ p.deferred = NoDeferral /\ p.rejection = 0 /\ p.validation = "passed"
        /\ p.sequence >= 2
    BY <2>1 DEF Sound, Clear, Earned, Counted, Going, States
  <2>8. CASE e.outcome \in {"approved", "pending"}
    <3>. DEFINE s == IF e.outcome = "approved" THEN "awaiting-admission"
                                               ELSE "awaiting-authority"
    <3>1. x = [r EXCEPT !.state = s]
      BY <2>1, <2>3, <2>8 DEF ApplyDecision
    <3>2. x \in Projections
      BY <3>1, EventTypes
    <3>3. /\ x.state = s /\ x.sequence = p.sequence + 1 /\ x.decisions = r.decisions
          /\ x.validation = "passed" /\ x.gate = NoGate /\ x.correction = 0
          /\ x.deferred = NoDeferral /\ x.rejection = 0
      BY <2>4, <2>7, <3>1 DEF Projections
    <3>4. Sound(x)
      BY <1>1, <2>6, <2>7, <3>3 DEF Sound, Earned, Counted, Explained, Clear
    <3>. QED BY <3>2, <3>4
  <2>9. CASE e.outcome = "deferred"
    <3>. DEFINE by == [at |-> q.sequence, by |-> e.control]
    <3>1. x = [r EXCEPT !.state = "deferred", !.deferred = by]
      BY <2>1, <2>3, <2>9 DEF ApplyDecision
    <3>2. by \in Deferrals /\ by.at = p.sequence + 1 /\ by.by = e.control
      BY <1>1, <2>2 DEF Deferrals
    <3>. HIDE DEF by
    <3>0. [r EXCEPT !.state = "deferred", !.deferred = by] \in Projections
      BY <3>2, EventTypes
    <3>3. x \in Projections
      BY <3>0, <3>1
    <3>4. /\ x.state = "deferred" /\ x.sequence = p.sequence + 1
          /\ x.decisions = r.decisions /\ x.deferred = by
      BY <2>4, <3>1 DEF Projections
    <3>5. DeferralExplained(x)
      <4>1. e.control \in Deferred(x)
        BY <2>2, <2>5, <2>9, <3>4 DEF Deferred, Decided
      <4>2. \A c \in Deferred(x) \ {e.control} :
               c \in Controls /\ x.decisions[c].at < x.sequence
        BY <1>1, <1>e, <2>5, <3>4 DEF Deferred, Decided
      <4>3. CASE Deferred(x) = {e.control}
        BY <2>2, <3>2, <3>4, <4>3 DEF DeferralExplained
      <4>4. CASE Deferred(x) # {e.control}
        <5>1. PICK c \in Deferred(x) : c # e.control
          BY <4>1, <4>4
        <5>. QED BY <3>2, <3>4, <4>2, <5>1 DEF DeferralExplained
      <4>. QED BY <4>3, <4>4
    <3>6. Sound(x)
      BY <1>1, <2>6, <3>4, <3>5 DEF Sound, Earned, Counted, Explained, Clear, Going
    <3>. QED BY <3>3, <3>6
  <2>. QED BY <2>2, <2>8, <2>9 DEF Outcomes
<1>3. CASE e.kind = "target-admission-recorded"
  <2>1. p.state = "awaiting-admission" /\ x = ApplyAdmission(q, e)
    BY <1>0, <1>3 DEF AssertEventTransition, AllowedAfter, ApplyEvent
  <2>2. CASE e.outcome = "admitted"
    <3>1. x = [q EXCEPT !.state = "authorized", !.admission = "admitted",
                        !.rejection = 0]
      BY <2>1, <2>2 DEF ApplyAdmission
    <3>2. q.rejection = 0
      BY <1>1, <2>1 DEF Sound, Clear, Going, States
    <3>7. x \in Projections
      BY <2>1, <3>1, <3>2, EventTypes
    <3>8. Earned(x) /\ Counted(x)
      BY <1>1, <2>1, <3>1, <3>2 DEF Projections, Sound, Earned, Counted
    <3>9. Explained(x) /\ Clear(x)
      <4>1. /\ x.sequence = q.sequence /\ x.decisions = q.decisions /\ x.gate = q.gate
            /\ x.correction = q.correction /\ x.deferred = q.deferred
            /\ x.rejection = q.rejection /\ x.state \in Going
        BY <1>1, <2>1, <3>1, <3>2 DEF Projections, Going, States
      <4>. QED BY <1>1, <3>7, <2>1, <3>1, <3>2, <4>1, StillSound DEF Going, States
    <3>. QED BY <3>7, <3>8, <3>9 DEF Sound
  <2>3. CASE e.outcome # "admitted"
    <3>1. x = [q EXCEPT !.state = "rejected", !.admission = "rejected",
                        !.rejection = q.sequence]
      BY <2>1, <2>3 DEF ApplyAdmission
    <3>2. q.sequence \in Nat
      BY <1>1
    <3>3. [q EXCEPT !.state = "rejected", !.admission = "rejected", !.rejection = q.sequence]
             \in Projections
      BY <3>2, EventTypes
    <3>8. x \in Projections
      BY <3>1, <3>3
    <3>9. Sound(x)
      BY <1>1, <1>e, <3>1
      DEF Projections, Sound, Earned, Counted, Explained, Clear, Going
    <3>. QED BY <3>8, <3>9
  <2>. QED BY <2>2, <2>3
<1>. QED BY <1>2, <1>3

(* The application, and the events that stop or end a transition.          *)
LEMMA ProgressSound ==
    ASSUME NEW p \in Projections, NEW e \in Events, Sound(p),
           AssertEventTransition(p, e),
           e.kind \in {"application-started", "target-application-recorded",
                       "application-failed", "gate-blocked",
                       "source-correction-returned", "transition-deferred",
                       "transition-cancelled"}
    PROVE  ApplyEvent(p, e) \in Projections /\ Sound(ApplyEvent(p, e))
<1>. SUFFICES ASSUME NEW x, x = ApplyEvent(p, e)
              PROVE  x \in Projections /\ Sound(x)
  OBVIOUS
<1>0. PICK q \in Projections : q = [p EXCEPT !.sequence = @ + 1]
  BY Counting
<1>1. /\ p.sequence \in Nat
      /\ q.sequence = p.sequence + 1 /\ q.state = p.state
      /\ q.validation = p.validation /\ q.admission = p.admission
      /\ q.application = p.application /\ q.decisions = p.decisions
      /\ q.gate = p.gate /\ q.correction = p.correction
      /\ q.deferred = p.deferred /\ q.rejection = p.rejection
  BY <1>0, Counting
<1>e. \A c \in Controls : p.decisions[c].at \in Nat /\ p.decisions[c].at <= p.sequence
  BY DEF Projections, Decisions, Decision, Sound, Explained
<1>2. CASE e.kind = "application-started"
  <2>1. p.state \in {"authorized", "failed"}
    BY <1>2 DEF AssertEventTransition, AllowedAfter
  <2>2. x = [q EXCEPT !.state = "applying", !.application = "running"]
    BY <1>0, <1>2 DEF ApplyEvent
  <2>7. x \in Projections
    BY <2>1, <2>2, EventTypes
  <2>8. Earned(x) /\ Counted(x)
    BY <1>1, <2>1, <2>2 DEF Projections, Sound, Earned, Counted
  <2>9. Explained(x) /\ Clear(x)
    <3>1. /\ x.sequence = q.sequence /\ x.decisions = q.decisions /\ x.gate = q.gate
          /\ x.correction = q.correction /\ x.deferred = q.deferred
          /\ x.rejection = q.rejection /\ x.state \in Going
      BY <1>1, <2>1, <2>2 DEF Projections, Going, States
    <3>. QED BY <1>1, <2>7, <2>1, <2>2, <3>1, StillSound DEF Going, States
  <2>. QED BY <2>7, <2>8, <2>9 DEF Sound
<1>3. CASE e.kind = "target-application-recorded"
  <2>1. p.state = "applying"
    BY <1>3 DEF AssertEventTransition, AllowedAfter
  <2>2. x = [q EXCEPT !.state = "applied", !.application = "applied"]
    BY <1>0, <1>3 DEF ApplyEvent
  <2>7. x \in Projections
    BY <2>1, <2>2, EventTypes
  <2>8. Earned(x) /\ Counted(x)
    BY <1>1, <2>1, <2>2 DEF Projections, Sound, Earned, Counted
  <2>9. Explained(x) /\ Clear(x)
    <3>1. /\ x.sequence = q.sequence /\ x.decisions = q.decisions /\ x.gate = q.gate
          /\ x.correction = q.correction /\ x.deferred = q.deferred
          /\ x.rejection = q.rejection /\ x.state \in Going
      BY <1>1, <2>1, <2>2 DEF Projections, Going, States
    <3>. QED BY <1>1, <2>7, <2>1, <2>2, <3>1, StillSound DEF Going, States
  <2>. QED BY <2>7, <2>8, <2>9 DEF Sound
<1>4. CASE e.kind = "application-failed"
  <2>1. p.state = "applying"
    BY <1>4 DEF AssertEventTransition, AllowedAfter
  <2>2. x = [q EXCEPT !.state = "failed", !.application = "failed"]
    BY <1>0, <1>4 DEF ApplyEvent
  <2>7. x \in Projections
    BY <2>1, <2>2, EventTypes
  <2>8. Earned(x) /\ Counted(x)
    BY <1>1, <2>1, <2>2 DEF Projections, Sound, Earned, Counted
  <2>9. Explained(x) /\ Clear(x)
    <3>1. /\ x.sequence = q.sequence /\ x.decisions = q.decisions /\ x.gate = q.gate
          /\ x.correction = q.correction /\ x.deferred = q.deferred
          /\ x.rejection = q.rejection /\ x.state \in Going
      BY <1>1, <2>1, <2>2 DEF Projections, Going, States
    <3>. QED BY <1>1, <2>7, <2>1, <2>2, <3>1, StillSound DEF Going, States
  <2>. QED BY <2>7, <2>8, <2>9 DEF Sound
<1>5. CASE e.kind = "gate-blocked"
  <2>. DEFINE g == [at |-> q.sequence, fixed |-> TRUE]
  <2>1. x = [q EXCEPT !.state = "blocked", !.gate = g]
    BY <1>0, <1>5 DEF ApplyEvent
  <2>2. g \in Gates /\ g.at = p.sequence + 1 /\ g.fixed
    BY <1>1 DEF Gates
  <2>. HIDE DEF g
  <2>3. [q EXCEPT !.state = "blocked", !.gate = g] \in Projections
    BY <2>2, EventTypes
  <2>8. x \in Projections
    BY <2>1, <2>3
  <2>9. Sound(x)
    BY <1>1, <1>e, <2>1, <2>2
    DEF Projections, Sound, Earned, Counted, Explained, Clear, Going
  <2>. QED BY <2>8, <2>9
<1>6. CASE e.kind = "source-correction-returned"
  <2>1. x = [q EXCEPT !.state = "returned", !.correction = q.sequence]
    BY <1>0, <1>6 DEF ApplyEvent
  <2>2. q.sequence \in Nat
    BY <1>1
  <2>3. [q EXCEPT !.state = "returned", !.correction = q.sequence] \in Projections
    BY <2>2, EventTypes
  <2>8. x \in Projections
    BY <2>1, <2>3
  <2>9. Sound(x)
    BY <1>1, <1>e, <2>1
    DEF Projections, Sound, Earned, Counted, Explained, Clear, Going
  <2>. QED BY <2>8, <2>9
<1>7. CASE e.kind = "transition-deferred"
  <2>. DEFINE d == [at |-> q.sequence, by |-> "source"]
  <2>1. x = [q EXCEPT !.state = "deferred", !.deferred = d]
    BY <1>0, <1>7 DEF ApplyEvent
  <2>2. d \in Deferrals /\ d.at = p.sequence + 1 /\ d.by = "source"
    BY <1>1 DEF Deferrals
  <2>. HIDE DEF d
  <2>3. x \in Projections
    BY <2>1, <2>2, EventTypes
  <2>4. /\ x.state = "deferred" /\ x.sequence = p.sequence + 1
        /\ x.decisions = p.decisions /\ x.deferred = d
    BY <1>1, <2>1 DEF Projections
  <2>5. DeferralExplained(x)
    <3>1. \A c \in Deferred(x) : x.decisions[c].at < x.sequence
      BY <1>1, <1>e, <2>4 DEF Deferred, Decided
    <3>. QED BY <2>2, <2>4, <3>1 DEF DeferralExplained
  <2>6. Sound(x)
    BY <1>1, <1>e, <2>4, <2>5 DEF Sound, Earned, Counted, Explained, Clear, Going
  <2>. QED BY <2>3, <2>6
<1>8. CASE e.kind = "transition-cancelled"
  <2>2. x = [q EXCEPT !.state = "cancelled"]
    BY <1>0, <1>8 DEF ApplyEvent
  <2>8. x \in Projections
    BY <2>2, EventTypes
  <2>9. Sound(x)
    BY <1>1, <1>e, <2>2 DEF Projections, Sound, Earned, Counted, Explained, Clear, Going
  <2>. QED BY <2>8, <2>9
<1>. QED BY <1>2, <1>3, <1>4, <1>5, <1>6, <1>7, <1>8

(* Every admitted event leaves a sound record.                             *)
LEMMA EventSound ==
    ASSUME NEW p \in Projections, NEW e \in Events, Sound(p),
           AssertEventTransition(p, e)
    PROVE  ApplyEvent(p, e) \in Projections /\ Sound(ApplyEvent(p, e))
<1>1. e.kind \in {"validation-started", "validation-completed",
                  "authority-decision-recorded", "target-admission-recorded",
                  "application-started", "target-application-recorded",
                  "application-failed", "gate-blocked",
                  "source-correction-returned", "transition-deferred",
                  "transition-cancelled"}
  BY DEF Events, Event
<1>. QED BY <1>1, ValidationSound, DecisionSound, ProgressSound

(* A superseded transition keeps its types and asks for nothing.           *)
LEMMA SupersededSound ==
    ASSUME NEW p \in Projections, NEW t \in Transitions, Sound(p)
    PROVE  LET q == [p EXCEPT !.state = "superseded", !.sequence = @ + 1,
                              !.supersededBy = t]
           IN  q \in Projections /\ Sound(q)
<1>. DEFINE r == [p EXCEPT !.sequence = @ + 1]
            q == [p EXCEPT !.state = "superseded", !.sequence = @ + 1,
                           !.supersededBy = t]
<1>1. r \in Projections
  BY Counting
<1>2. q = [r EXCEPT !.state = "superseded", !.supersededBy = t]
  BY DEF Projections
<1>. HIDE DEF r
<1>3. /\ q \in Projections /\ q.state = "superseded"
      /\ q.sequence = p.sequence + 1 /\ q.decisions = p.decisions
  BY <1>1, <1>2, FieldValues DEF Projections
<1>4. /\ p.sequence \in Nat
      /\ \A c \in Controls : p.decisions[c].at \in Nat /\ p.decisions[c].at <= p.sequence
  BY DEF Projections, Decisions, Decision, Sound, Explained
<1>. QED BY <1>3, <1>4 DEF Sound, Earned, Counted, Explained, Clear, Going

-----------------------------------------------------------------------------
(* Every step leaves sound records.                                        *)
LEMMA StepInv == TypeOK /\ Inv /\ [Next]_record => TypeOK' /\ Inv'
<1>. SUFFICES ASSUME TypeOK, Inv, [Next]_record PROVE TypeOK' /\ Inv'
  OBVIOUS
<1>1. CASE UNCHANGED record
  BY <1>1 DEF TypeOK, Inv
<1>2. ASSUME NEW t \in Transitions, Create(t) PROVE TypeOK' /\ Inv'
  BY <1>2, PreparedSound DEF Create, TypeOK, Inv
<1>3. ASSUME NEW t \in Transitions, NEW old \in Transitions,
             CreateSuperseding(t, old)
      PROVE  TypeOK' /\ Inv'
  <2>. DEFINE p == record[old]
              q == [p EXCEPT !.state = "superseded", !.sequence = @ + 1,
                             !.supersededBy = t]
  <2>1. t # old
    BY <1>3 DEF CreateSuperseding
  <2>2. record' = [record EXCEPT ![t] = Prepared(old), ![old] = q]
    BY <1>3, <2>1 DEF CreateSuperseding, TypeOK, Projections
  <2>3. q \in Projections /\ Sound(q)
    BY SupersededSound DEF TypeOK, Inv
  <2>4. Prepared(old) \in Projections /\ Sound(Prepared(old))
    BY PreparedSound
  <2>. QED BY <2>1, <2>2, <2>3, <2>4 DEF TypeOK, Inv
<1>4. ASSUME NEW t \in Transitions, NEW e \in Events, Append(t, e)
      PROVE  TypeOK' /\ Inv'
  <2>1. /\ AssertEventTransition(record[t], e)
        /\ record' = [record EXCEPT ![t] = ApplyEvent(record[t], e)]
    BY <1>4 DEF Append
  <2>2. ApplyEvent(record[t], e) \in Projections /\ Sound(ApplyEvent(record[t], e))
    BY <2>1, EventSound DEF TypeOK, Inv
  <2>. QED BY <2>1, <2>2 DEF TypeOK, Inv
<1>. QED BY <1>1, <1>2, <1>3, <1>4 DEF Next

(* What a state has behind it and what a stop leaves hold throughout.      *)
THEOREM RecordsAreSound == Spec => [](TypeOK /\ Inv)
<1>1. Init => TypeOK /\ Inv
  BY PreparedSound DEF Init, TypeOK, Inv
<1>. QED BY <1>1, StepInv, PTL DEF Spec

(* An applied transition has a passed validation, an admission and an      *)
(* application behind it, whatever stopped it on the way.                  *)
THEOREM AppliedWasEarned == Spec => []AppliedIsEarned
<1>1. Inv => AppliedIsEarned
  BY DEF Inv, Sound, Earned, Counted, AppliedIsEarned
<1>. QED BY <1>1, RecordsAreSound, PTL

(* A deferral asks whoever deferred, or an authority that did before.      *)
LEMMA DeferrerAsked ==
    ASSUME NEW p \in Projections, DeferralExplained(p), p.state = "deferred"
    PROVE  \/ NextOwner(p) = p.deferred.by
           \/ \E c \in Deferred(p) : p.decisions[c].at < p.sequence
<1>1. NextOwner(p) = IF Deferred(p) # {} THEN FirstOf(p, Deferred(p)) ELSE "source"
  BY DEF NextOwner, Deferred
<1>2. ASSUME NEW c \in Controls, Deferred(p) = {c} PROVE NextOwner(p) = c
  <2>1. p.decisions[c].at \in Nat
    BY DEF Projections, Decisions, Decision
  <2>2. FirstOf(p, {c}) = c
    BY <2>1 DEF FirstOf
  <2>. QED BY <1>1, <1>2, <2>2
<1>. QED BY <1>1, <1>2 DEF DeferralExplained

(* What stops a transition is of the event that stopped it: what an earlier*)
(* stop left does not pass for it.  Where nothing holds it back, nothing of*)
(* a stop is left.                                                         *)
THEOREM StopsAreExplained == Spec => []StopIsExplained
<1>1. TypeOK /\ Inv => StopIsExplained
  BY DeferrerAsked
  DEF TypeOK, Inv, Sound, Explained, Clear, DeferralExplained, Deferred, StopIsExplained
<1>. QED BY <1>1, RecordsAreSound, PTL

(* The next event on a transition that was superseded, applied or          *)
(* cancelled is refused.                                                   *)
THEOREM EndsAreFinal ==
    Spec => [][\A t \in Transitions :
                  record[t].state \in TerminalStates
                     => record'[t].state = record[t].state]_record
<1>1. TypeOK /\ [Next]_record
        => [\A t \in Transitions : record[t].state \in TerminalStates
               => record'[t].state = record[t].state]_record
  <2>. SUFFICES ASSUME TypeOK, Next, NEW t \in Transitions,
                       record[t].state \in TerminalStates
                PROVE  record'[t].state = record[t].state
    OBVIOUS
  <2>0. Stored(t)
    BY DEF Stored, TerminalStates, None
  <2>1. ASSUME NEW u \in Transitions, Create(u) PROVE record'[t] = record[t]
    BY <2>0, <2>1 DEF Create, TypeOK
  <2>2. ASSUME NEW u \in Transitions, NEW old \in Transitions,
               CreateSuperseding(u, old)
        PROVE  record'[t] = record[t]
    BY <2>0, <2>2 DEF CreateSuperseding, TypeOK
  <2>3. ASSUME NEW u \in Transitions, NEW e \in Events, Append(u, e)
        PROVE  record'[t] = record[t]
    BY <2>3 DEF Append, AssertEventTransition, TypeOK
  <2>. QED BY <2>1, <2>2, <2>3 DEF Next
<1>. QED BY <1>1, RecordsAreSound, PTL DEF Spec

-----------------------------------------------------------------------------
(* The refinement runs.  The invariant says of an attempt that reads the   *)
(* tree back that what it has found of the draft so far is in held: Noted  *)
(* puts it there at every step, so the pages may be of different moments.  *)

RefinementCells == Refinement!Cells
Values == Drafts \cup {"before", "other"}
ReadsOfTheTree ==
    [canon : [RefinementCells -> Values \cup {"none"}], places : SUBSET (Items \cup {"none"})]

DraftRecords ==
    [packet : ReadsOfTheTree, seen : ReadsOfTheTree,
     request : {"none", "prepared", "checked", "refused", "answered", "lost"}]

DraftRuns ==
    [state : {"none", "running", "failed", "completed"}, operation : 1..5, attempt : Nat,
     begun : BOOLEAN, written : SUBSET RefinementCells, reused : SUBSET RefinementCells]

WorkerAttempts ==
    [draft : Drafts, operation : 1..4, attempt : Nat, reads : BOOLEAN,
     seen : ReadsOfTheTree, todo : SUBSET RefinementCells,
     written : SUBSET RefinementCells, reused : SUBSET RefinementCells]

RefinementTypeOK ==
    /\ canon \in [RefinementCells -> Values] /\ tree \in SUBSET Items
    /\ draft \in [Drafts -> DraftRecords]
    /\ run \in [Drafts -> DraftRuns]
    /\ attempts \in SUBSET WorkerAttempts

(* A draft that has a run, or an attempt of one, was sent, and its packet  *)
(* does not change any more.                                               *)
RunsWereSent ==
    \A d \in Drafts : IF run[d].state = "none" THEN run[d].operation = 1
                      ELSE draft[d].request # "none"

(* A run has the results of all the operations that are behind it.         *)
OperationsAreWhole ==
    \A d \in Drafts :
        run[d].written \cup run[d].reused
           = {c \in Refinement!Targets(d) : c[1] < run[d].operation}

(* An attempt that writes is about all the targets of its operation.  One  *)
(* that reads the tree back has found only what was there since the last   *)
(* operation.                                                              *)
AttemptOK(a) ==
    /\ draft[a.draft].request # "none"
    /\ a.reads => a.todo = {} /\ a.written = {}
    /\ ~a.reads =>
          /\ a.operation \in 1..3
          /\ a.todo \cup a.written \cup a.reused = Refinement!OperationCells(a.draft, a.operation)
    /\ a.operation = 4 =>
          /\ run[a.draft].operation >= 4
          /\ \A c \in RefinementCells :
                c[2] \in a.seen.places /\ a.seen.canon[c] = a.draft => c \in held[a.draft]

AttemptsOK == \A a \in attempts : AttemptOK(a)

(* What is there now of a draft after its last operation was noted.        *)
IsNoted ==
    \A d \in Drafts : run[d].operation >= 4 =>
        \A c \in RefinementCells :
            c[2] \in tree \cup {"none"} /\ canon[c] = d => c \in held[d]

(* The receipt is written after the read of the tree, and a run completes  *)
(* with it.                                                                *)
ReceiptAfterRead ==
    \A d \in Drafts :
        /\ run[d].operation = 5 => Refinement!Targets(d) \subseteq held[d]
        /\ run[d].state = "completed" =>
              run[d].operation = 5 /\ Refinement!Event(d) \in receipts

RefinementInv ==
    /\ RefinementTypeOK /\ RunsWereSent /\ OperationsAreWhole /\ AttemptsOK
    /\ IsNoted /\ ReceiptAfterRead

(* The invariant says what a completed run is promised to be.              *)
LEMMA CompletedIsWhole == RefinementInv => Refinement!CompletionIsReadBack
  <1> SUFFICES ASSUME RefinementInv, NEW d \in Drafts, run[d].state = "completed"
               PROVE  /\ Refinement!Event(d) \in receipts
                      /\ run[d].written \cup run[d].reused = Refinement!Targets(d)
                      /\ Refinement!Targets(d) \subseteq held[d]
    BY DEF Refinement!CompletionIsReadBack
  <1>1. /\ run[d].operation = 5 /\ Refinement!Event(d) \in receipts
        /\ Refinement!Targets(d) \subseteq held[d]
    BY DEF RefinementInv, ReceiptAfterRead
  <1>2. \A c \in Refinement!Targets(d) : c[1] < 5
    BY DEF Refinement!Targets, Refinement!Cells, Refinement!Governance,
           Refinement!PlanApply, Refinement!BulkUpdate
  <1> QED
    BY <1>1, <1>2 DEF RefinementInv, OperationsAreWhole

(* A read that has found nothing is a read.                                *)
LEMMA NothingRead ==
    /\ Refinement!NoRead \in ReadsOfTheTree /\ Refinement!NoRead.places = {}
    /\ \A seen \in ReadsOfTheTree :
          /\ [Refinement!NoRead EXCEPT !.places = seen.places] \in ReadsOfTheTree
  BY DEF Refinement!NoRead, ReadsOfTheTree, RefinementCells, Values, Refinement!None

(* What a read finds more is there now.                                    *)
LEMMA PageIsRead ==
    ASSUME RefinementTypeOK, NEW old \in ReadsOfTheTree, NEW seen \in Refinement!Reads(old)
    PROVE  /\ seen \in ReadsOfTheTree
           /\ \A c \in RefinementCells : c[2] \in seen.places =>
                 \/ c[2] \in old.places /\ seen.canon[c] = old.canon[c]
                 \/ c[2] \in tree \cup {"none"} /\ seen.canon[c] = canon[c]
  <1>1. PICK page \in SUBSET ((tree \cup {"none"}) \ old.places) :
           seen = Refinement!WithPage(old, page)
    BY DEF Refinement!Reads, Refinement!None
  <1>2. /\ seen.places = old.places \cup page
        /\ seen.canon = [c \in RefinementCells |->
                            IF c[2] \in page THEN canon[c] ELSE old.canon[c]]
        /\ seen = [canon |-> seen.canon, places |-> seen.places]
    BY <1>1 DEF Refinement!WithPage, RefinementCells
  <1>3. page \subseteq Items \cup {"none"}
    BY DEF RefinementTypeOK
  <1>4. /\ old.canon \in [RefinementCells -> Values \cup {"none"}]
        /\ old.places \in SUBSET (Items \cup {"none"})
    BY DEF ReadsOfTheTree
  <1>5. /\ seen.canon \in [RefinementCells -> Values \cup {"none"}]
        /\ seen.places \in SUBSET (Items \cup {"none"})
    BY <1>2, <1>3, <1>4 DEF RefinementTypeOK
  <1>6. seen \in ReadsOfTheTree
    BY <1>2, <1>5 DEF ReadsOfTheTree
  <1>7. ASSUME NEW c \in RefinementCells, c[2] \in seen.places
        PROVE  \/ c[2] \in old.places /\ seen.canon[c] = old.canon[c]
               \/ c[2] \in tree \cup {"none"} /\ seen.canon[c] = canon[c]
    <2>1. CASE c[2] \in page
      BY <1>2, <2>1
    <2>2. CASE c[2] \notin page
      BY <1>2, <1>7, <2>2
    <2> QED
      BY <2>1, <2>2
  <1> QED
    BY <1>6, <1>7

(* No run and no attempt satisfies the invariant.                          *)
LEMMA RefinementInit == Refinement!Init => RefinementInv
  <1> SUFFICES ASSUME Refinement!Init PROVE RefinementInv
    OBVIOUS
  <1>1. /\ Refinement!NoRun \in DraftRuns /\ Refinement!NoRun.state = "none"
        /\ Refinement!NoRun.operation = 1
        /\ Refinement!NoRun.written = {} /\ Refinement!NoRun.reused = {}
    BY DEF Refinement!NoRun, DraftRuns, Refinement!None, Refinement!Governance
  <1>2. RefinementTypeOK
    BY <1>1, NothingRead
    DEF Refinement!Init, RefinementTypeOK, DraftRecords, Values, RefinementCells,
        Refinement!Before, Refinement!None
  <1>3. \A d \in Drafts : \A c \in Refinement!Targets(d) : ~(c[1] < 1)
    BY DEF Refinement!Targets, Refinement!Cells, Refinement!Governance,
           Refinement!PlanApply, Refinement!BulkUpdate
  <1> QED
    BY <1>1, <1>2, <1>3
    DEF Refinement!Init, RefinementInv, RunsWereSent, OperationsAreWhole, AttemptsOK,
        IsNoted, ReceiptAfterRead

(* An attempt stays what it is while its run goes on.                      *)
LEMMA AttemptStays ==
    ASSUME NEW a \in WorkerAttempts, AttemptOK(a),
           draft'[a.draft].packet = draft[a.draft].packet,
           draft'[a.draft].request # "none",
           run'[a.draft].operation >= run[a.draft].operation,
           run[a.draft].operation \in 1..5, run'[a.draft].operation \in 1..5,
           held[a.draft] \subseteq held'[a.draft]
    PROVE  AttemptOK(a)'
  <1>1. Refinement!OperationCells(a.draft, a.operation)'
           = Refinement!OperationCells(a.draft, a.operation)
    BY DEF Refinement!OperationCells, Refinement!Targets
  <1> QED
    BY <1>1 DEF AttemptOK

(* A step that moves no run on keeps the invariant.                        *)
LEMMA QuietStep ==
    ASSUME RefinementInv, RefinementTypeOK', IsNoted', receipts \subseteq receipts',
           \A d \in Drafts :
              /\ held[d] \subseteq held'[d]
              /\ draft'[d].packet = draft[d].packet
              /\ draft[d].request # "none" => draft'[d].request # "none"
              /\ run'[d].operation = run[d].operation
              /\ run'[d].written = run[d].written /\ run'[d].reused = run[d].reused
              /\ run'[d].state # run[d].state =>
                    /\ draft[d].request # "none"
                    /\ \/ run'[d].state \in {"running", "failed"}
                       \/ /\ run'[d].state = "completed"
                          /\ run[d].operation = 5 /\ Refinement!Event(d) \in receipts',
           \A a \in attempts' : AttemptOK(a)
    PROVE  RefinementInv'
  <1> USE DEF RefinementInv
  <1>1. \A d \in Drafts : Refinement!Targets(d)' = Refinement!Targets(d)
    BY DEF Refinement!Targets
  <1>2. \A d \in Drafts : Refinement!Event(d)' = Refinement!Event(d)
    BY DEF Refinement!Event
  <1>3. RunsWereSent'
    <2>1. ASSUME NEW d \in Drafts
          PROVE  IF run'[d].state = "none" THEN run'[d].operation = 1
                 ELSE draft'[d].request # "none"
      <3>1. CASE run'[d].state = run[d].state
        BY <3>1 DEF RunsWereSent
      <3>2. CASE run'[d].state # run[d].state
        BY <3>2 DEF RunsWereSent
      <3> QED
        BY <3>1, <3>2
    <2> QED
      BY <2>1 DEF RunsWereSent
  <1>4. OperationsAreWhole'
    <2>1. ASSUME NEW d \in Drafts
          PROVE  run'[d].written \cup run'[d].reused
                   = {c \in Refinement!Targets(d)' : c[1] < run'[d].operation}
      BY <1>1 DEF OperationsAreWhole
    <2> QED
      BY <2>1 DEF OperationsAreWhole
  <1>5. ReceiptAfterRead'
    <2>1. ASSUME NEW d \in Drafts
          PROVE  /\ run'[d].operation = 5 => Refinement!Targets(d)' \subseteq held'[d]
                 /\ run'[d].state = "completed" =>
                      run'[d].operation = 5 /\ Refinement!Event(d)' \in receipts'
      BY <1>1, <1>2 DEF ReceiptAfterRead
    <2> QED
      BY <2>1 DEF ReceiptAfterRead
  <1>6. AttemptsOK'
    <2>1. ASSUME NEW a \in attempts' PROVE AttemptOK(a)'
      <3>1. a \in WorkerAttempts /\ a.draft \in Drafts
        BY DEF RefinementTypeOK, WorkerAttempts
      <3>2. run[a.draft].operation \in 1..5 /\ run'[a.draft].operation \in 1..5
        BY <3>1 DEF RefinementTypeOK, DraftRuns
      <3>3. AttemptOK(a) /\ draft'[a.draft].request # "none"
        BY <3>1 DEF AttemptOK
      <3>4. /\ draft'[a.draft].packet = draft[a.draft].packet
            /\ run'[a.draft].operation >= run[a.draft].operation
            /\ held[a.draft] \subseteq held'[a.draft]
        BY <3>1, <3>2
      <3> QED
        BY <3>1, <3>2, <3>3, <3>4, AttemptStays
    <2> QED
      BY <2>1 DEF AttemptsOK
  <1> QED
    BY <1>3, <1>4, <1>5, <1>6

(* An attempt that failed moves its run no further.                        *)
LEMMA FailedRun ==
    ASSUME RefinementTypeOK, NEW d \in Drafts, run[d].state = "running",
           run' = Refinement!AttemptFailed(d)
    PROVE  /\ run' \in [Drafts -> DraftRuns]
           /\ \A e \in Drafts :
                 /\ run'[e].operation = run[e].operation
                 /\ run'[e].written = run[e].written /\ run'[e].reused = run[e].reused
                 /\ run'[e].state # run[e].state => e = d /\ run'[e].state = "failed"
  <1> DEFINE next == IF run[d].attempt < MaxAttempts
                     THEN [run[d] EXCEPT !.attempt = run[d].attempt + 1, !.begun = FALSE]
                     ELSE [run[d] EXCEPT !.state = "failed"]
  <1>1. run' = [run EXCEPT ![d] = next]
    BY DEF Refinement!AttemptFailed
  <1>2. /\ next \in DraftRuns /\ next.operation = run[d].operation
        /\ next.written = run[d].written /\ next.reused = run[d].reused
        /\ next.state \in {"running", "failed"}
    <2>1. run[d] \in DraftRuns
      BY DEF RefinementTypeOK
    <2>2. run[d].attempt + 1 \in Nat
      BY <2>1 DEF DraftRuns
    <2>3. CASE run[d].attempt < MaxAttempts
      <3> DEFINE tried == [run[d] EXCEPT !.attempt = run[d].attempt + 1, !.begun = FALSE]
      <3>1. /\ tried \in DraftRuns /\ tried.operation = run[d].operation
            /\ tried.written = run[d].written /\ tried.reused = run[d].reused
            /\ tried.state = run[d].state
        BY <2>1, <2>2 DEF DraftRuns
      <3> QED
        BY <2>3, <3>1
    <2>4. CASE ~(run[d].attempt < MaxAttempts)
      <3> DEFINE ended == [run[d] EXCEPT !.state = "failed"]
      <3>1. /\ ended \in DraftRuns /\ ended.operation = run[d].operation
            /\ ended.written = run[d].written /\ ended.reused = run[d].reused
            /\ ended.state = "failed"
        BY <2>1 DEF DraftRuns
      <3> QED
        BY <2>4, <3>1
    <2> QED
      BY <2>3, <2>4
  <1> HIDE DEF next
  <1> QED
    BY <1>1, <1>2 DEF RefinementTypeOK

(* A draft is prepared before it has a run, so what its run has to write   *)
(* does not change under it.                                               *)
LEMMA PrepareKeeps ==
    ASSUME RefinementInv, NEW d \in Drafts, Refinement!Prepare(d), IsNoted',
           \A e \in Drafts : held[e] \subseteq held'[e]
    PROVE  RefinementInv'
  <1> USE DEF RefinementInv
  <1>1. draft[d].seen \in ReadsOfTheTree
    BY DEF RefinementTypeOK, DraftRecords
  <1>2. PICK seen \in ReadsOfTheTree :
           draft' = [draft EXCEPT ![d] = [packet |-> seen, request |-> "prepared",
                                          seen |-> Refinement!NoRead]]
    BY <1>1, PageIsRead DEF Refinement!Prepare
  <1>3. draft[d].request = "none" /\ UNCHANGED <<canon, tree, run, attempts, receipts>>
    BY DEF Refinement!Prepare, Refinement!None
  <1>4. [packet |-> seen, request |-> "prepared", seen |-> Refinement!NoRead] \in DraftRecords
    BY NothingRead DEF DraftRecords
  <1>5. RefinementTypeOK'
    BY <1>2, <1>3, <1>4 DEF RefinementTypeOK
  <1>6. /\ \A e \in Drafts \ {d} : draft'[e] = draft[e]
        /\ draft'[d].request = "prepared"
    BY <1>2 DEF RefinementTypeOK
  <1>7. /\ run[d].state = "none" /\ run[d].operation = 1
        /\ \A a \in attempts : a \in WorkerAttempts /\ a.draft \in Drafts \ {d}
    BY <1>3 DEF RunsWereSent, AttemptsOK, AttemptOK, RefinementTypeOK, WorkerAttempts
  <1>8. RunsWereSent'
    BY <1>3, <1>6 DEF RunsWereSent
  <1>9. \A e \in Drafts : Refinement!Event(e)' = Refinement!Event(e)
    BY <1>3 DEF Refinement!Event
  <1>10. \A e \in Drafts \ {d} : Refinement!Targets(e)' = Refinement!Targets(e)
    BY <1>6 DEF Refinement!Targets
  <1>11. ReceiptAfterRead'
    <2>1. ASSUME NEW e \in Drafts
          PROVE  /\ run[e].operation = 5 => Refinement!Targets(e)' \subseteq held'[e]
                 /\ run[e].state = "completed" =>
                      run[e].operation = 5 /\ Refinement!Event(e)' \in receipts
      BY <1>7, <1>9, <1>10 DEF ReceiptAfterRead
    <2> QED
      BY <1>3, <2>1 DEF ReceiptAfterRead
  <1>12. /\ \A c \in Refinement!Targets(d) : ~(c[1] < 1)
         /\ \A c \in Refinement!Targets(d)' : ~(c[1] < 1)
    BY DEF Refinement!Targets, Refinement!Cells, Refinement!Governance,
           Refinement!PlanApply, Refinement!BulkUpdate
  <1>13. ASSUME NEW e \in Drafts
         PROVE  run[e].written \cup run[e].reused
                  = {c \in Refinement!Targets(e)' : c[1] < run[e].operation}
    <2>1. run[e].written \cup run[e].reused
            = {c \in Refinement!Targets(e) : c[1] < run[e].operation}
      BY DEF OperationsAreWhole
    <2>2. CASE e = d
      BY <2>1, <2>2, <1>7, <1>12
    <2>3. CASE e # d
      BY <2>1, <2>3, <1>10
    <2> QED
      BY <2>2, <2>3
  <1>14. OperationsAreWhole'
    BY <1>3, <1>13 DEF OperationsAreWhole
  <1>15. AttemptsOK'
    <2>1. ASSUME NEW a \in attempts PROVE AttemptOK(a)'
      <3>1. /\ a \in WorkerAttempts /\ AttemptOK(a) /\ a.draft \in Drafts \ {d}
            /\ draft'[a.draft] = draft[a.draft]
        BY <1>6, <1>7 DEF AttemptsOK
      <3>2. run[a.draft].operation \in 1..5
        BY <3>1 DEF RefinementTypeOK, DraftRuns
      <3>3. draft'[a.draft].request # "none" /\ held[a.draft] \subseteq held'[a.draft]
        BY <3>1 DEF AttemptOK
      <3> QED
        BY <1>3, <3>1, <3>2, <3>3, AttemptStays
    <2> QED
      BY <1>3, <2>1 DEF AttemptsOK
  <1> QED
    BY <1>5, <1>8, <1>11, <1>14, <1>15

(* An operation that is behind the run adds its targets to what the run    *)
(* wrote or found.                                                         *)
LEMMA RunGoesOn ==
    ASSUME RefinementInv, NEW d \in Drafts, NEW next \in DraftRuns,
           run[d].state = "running", run[d].operation \in 1..4,
           run' = [run EXCEPT ![d] = next],
           next.state = "running", next.operation = run[d].operation + 1,
           next.written \cup next.reused
              = run[d].written \cup run[d].reused
                \cup Refinement!OperationCells(d, run[d].operation),
           attempts' \in SUBSET attempts,
           UNCHANGED <<canon, tree, draft, receipts>>, IsNoted',
           \A e \in Drafts : held[e] \subseteq held'[e],
           next.operation = 5 => Refinement!Targets(d) \subseteq held[d]
    PROVE  RefinementInv'
  <1> USE DEF RefinementInv
  <1>1. /\ run'[d] = next /\ \A e \in Drafts \ {d} : run'[e] = run[e]
    BY DEF RefinementTypeOK
  <1>2. RefinementTypeOK'
    BY DEF RefinementTypeOK
  <1>3. RunsWereSent'
    BY <1>1 DEF RunsWereSent
  <1>4. \A e \in Drafts \ {d} : Refinement!Event(e)' = Refinement!Event(e)
    BY <1>1 DEF Refinement!Event
  <1>5. \A e \in Drafts : Refinement!Targets(e)' = Refinement!Targets(e)
    BY DEF Refinement!Targets
  <1>6. ReceiptAfterRead'
    <2>1. ASSUME NEW e \in Drafts
          PROVE  /\ run'[e].operation = 5 => Refinement!Targets(e)' \subseteq held'[e]
                 /\ run'[e].state = "completed" =>
                      run'[e].operation = 5 /\ Refinement!Event(e)' \in receipts'
      <3>1. CASE e = d
        BY <1>1, <1>5, <3>1
      <3>2. CASE e # d
        BY <1>1, <1>4, <1>5, <3>2 DEF ReceiptAfterRead
      <3> QED
        BY <3>1, <3>2
    <2> QED
      BY <2>1 DEF ReceiptAfterRead
  <1>7. ASSUME NEW e \in Drafts
        PROVE  run'[e].written \cup run'[e].reused
                 = {c \in Refinement!Targets(e) : c[1] < run'[e].operation}
    <2>1. run[e].written \cup run[e].reused
            = {c \in Refinement!Targets(e) : c[1] < run[e].operation}
      BY DEF OperationsAreWhole
    <2>2. CASE e = d
      <3>1. next.written \cup next.reused
              = {c \in Refinement!Targets(d) : c[1] < run[d].operation}
                \cup {c \in Refinement!Targets(d) : c[1] = run[d].operation}
        BY <2>1, <2>2 DEF Refinement!OperationCells
      <3>2. \A c \in Refinement!Targets(d) : c[1] \in 1..3
        BY DEF Refinement!Targets, Refinement!Cells, Refinement!Governance,
               Refinement!PlanApply, Refinement!BulkUpdate
      <3> QED
        BY <2>2, <3>1, <3>2, <1>1
    <2>3. CASE e # d
      BY <2>1, <2>3, <1>1
    <2> QED
      BY <2>2, <2>3
  <1>8. OperationsAreWhole'
    BY <1>5, <1>7 DEF OperationsAreWhole
  <1>9. AttemptsOK'
    <2>1. ASSUME NEW a \in attempts PROVE AttemptOK(a)'
      <3>1. a \in WorkerAttempts /\ AttemptOK(a) /\ a.draft \in Drafts
        BY DEF AttemptsOK, RefinementTypeOK, WorkerAttempts
      <3>2. run[a.draft].operation \in 1..5 /\ run'[a.draft].operation \in 1..5
        BY <1>2, <3>1 DEF RefinementTypeOK, DraftRuns
      <3>3. run'[a.draft].operation >= run[a.draft].operation
        BY <1>1, <3>1, <3>2
      <3>4. draft[a.draft].request # "none" /\ held[a.draft] \subseteq held'[a.draft]
        BY <3>1 DEF AttemptOK
      <3> QED
        BY <3>1, <3>2, <3>3, <3>4, AttemptStays
    <2> QED
      BY <2>1 DEF AttemptsOK
  <1> QED
    BY <1>2, <1>3, <1>6, <1>8, <1>9

(* The run that takes the results of an operation stays a run.             *)
Answered(old, w, r, o, n) ==
    [old EXCEPT !.written = w, !.reused = r, !.operation = o, !.attempt = n, !.begun = FALSE]

(* What it then is.                                                        *)
LEMMA AnsweredRun ==
    ASSUME NEW old \in DraftRuns, NEW o \in 1..5, NEW n \in Nat,
           NEW w \in SUBSET RefinementCells, NEW r \in SUBSET RefinementCells
    PROVE  /\ Answered(old, w, r, o, n) \in DraftRuns
           /\ Answered(old, w, r, o, n).state = old.state
           /\ Answered(old, w, r, o, n).operation = o
           /\ Answered(old, w, r, o, n).written = w
           /\ Answered(old, w, r, o, n).reused = r
  BY DEF DraftRuns, Answered

(* Every step of the clients, the runs and their workers keeps the         *)
(* invariant.                                                              *)
LEMMA RefinementStep ==
    RefinementInv /\ [Refinement!Next]_(Refinement!vars) => RefinementInv'
  <1> SUFFICES ASSUME RefinementInv, [Refinement!Next]_(Refinement!vars)
               PROVE  RefinementInv'
    OBVIOUS
  <1> USE DEF RefinementInv
  <1>1. /\ \A a \in attempts : a \in WorkerAttempts /\ AttemptOK(a) /\ a.draft \in Drafts
        /\ \A a \in attempts : draft[a.draft].request # "none"
    BY DEF RefinementTypeOK, AttemptsOK, AttemptOK, WorkerAttempts
  <1>2. CASE UNCHANGED Refinement!vars
    <2>1. UNCHANGED <<canon, tree, draft, run, attempts, receipts, held>>
      BY <1>2 DEF Refinement!vars
    <2>2. RefinementTypeOK' /\ IsNoted'
      BY <2>1 DEF RefinementTypeOK, IsNoted
    <2> QED
      BY <1>1, <2>1, <2>2, QuietStep
  <1>3. CASE Refinement!Next
    <2>0. IsNoted' /\ \A d \in Drafts : held[d] \subseteq held'[d]
      BY <1>3 DEF Refinement!Next, Refinement!Noted, IsNoted, RefinementCells,
                  Refinement!ReadState, Refinement!None
    <2>1. ASSUME NEW c \in Refinement!Cells, Refinement!Edit(c)
          PROVE  RefinementInv'
      <3>1. /\ canon' = [canon EXCEPT ![c] = "other"]
            /\ UNCHANGED <<tree, draft, run, attempts, receipts>>
        BY <2>1 DEF Refinement!Edit, Refinement!Other
      <3>2. RefinementTypeOK'
        BY <3>1 DEF RefinementTypeOK, Values, RefinementCells
      <3> QED
        BY <1>1, <2>0, <3>1, <3>2, QuietStep
    <2>2. ASSUME NEW i \in Items, Refinement!Remove(i)
          PROVE  RefinementInv'
      <3>1. /\ tree' = tree \ {i} /\ UNCHANGED <<canon, draft, run, attempts, receipts>>
        BY <2>2 DEF Refinement!Remove
      <3>2. RefinementTypeOK'
        BY <3>1 DEF RefinementTypeOK
      <3> QED
        BY <1>1, <2>0, <3>1, <3>2, QuietStep
    <2>3. ASSUME NEW d \in Drafts, Refinement!Prepare(d)
          PROVE  RefinementInv'
      BY <2>0, <2>3, PrepareKeeps
    <2>4. ASSUME NEW d \in Drafts, Refinement!ReadForRequest(d) \/ Refinement!Check(d)
          PROVE  RefinementInv'
      <3> DEFINE asked(seen, reply) == [draft[d] EXCEPT !.seen = seen, !.request = reply]
      <3>1. draft[d] \in DraftRecords /\ draft[d].seen \in ReadsOfTheTree
        BY DEF RefinementTypeOK, DraftRecords
      <3>2. PICK seen \in ReadsOfTheTree, reply \in {draft[d].request, "checked", "refused"} :
               draft' = [draft EXCEPT ![d] = asked(seen, reply)]
        <4>1. CASE Refinement!ReadForRequest(d)
          <5>1. PICK seen \in Refinement!Reads(draft[d].seen) :
                   draft' = [draft EXCEPT ![d].seen = seen]
            BY <4>1 DEF Refinement!ReadForRequest
          <5>2. seen \in ReadsOfTheTree
            BY <3>1, <5>1, PageIsRead
          <5>3. draft' = [draft EXCEPT ![d] = asked(seen, draft[d].request)]
            <6>1. asked(seen, draft[d].request) = [draft[d] EXCEPT !.seen = seen]
              BY <3>1 DEF DraftRecords
            <6> QED
              BY <5>1, <6>1
          <5> QED
            BY <5>2, <5>3
        <4>2. CASE Refinement!Check(d)
          <5>1. PICK reply \in {"checked", "refused"} :
                   draft' = [draft EXCEPT ![d] = asked(Refinement!NoRead, reply)]
            BY <4>2 DEF Refinement!Check
          <5> QED
            BY <5>1, NothingRead
        <4> QED
          BY <2>4, <4>1, <4>2
      <3>3. UNCHANGED <<canon, tree, run, attempts, receipts>>
        BY <2>4 DEF Refinement!ReadForRequest, Refinement!Check
      <3>4. /\ asked(seen, reply) \in DraftRecords
            /\ asked(seen, reply).packet = draft[d].packet
            /\ draft[d].request # "none" => asked(seen, reply).request # "none"
        BY <3>1 DEF DraftRecords
      <3> HIDE DEF asked
      <3>5. \A e \in Drafts : /\ draft'[e] \in DraftRecords
                              /\ draft'[e].packet = draft[e].packet
                              /\ draft[e].request # "none" => draft'[e].request # "none"
        BY <3>2, <3>4 DEF RefinementTypeOK
      <3>6. RefinementTypeOK'
        BY <3>2, <3>3, <3>4 DEF RefinementTypeOK
      <3> QED
        BY <1>1, <2>0, <3>3, <3>5, <3>6, QuietStep
    <2>5. ASSUME NEW d \in Drafts, Refinement!StartRun(d)
          PROVE  RefinementInv'
      <3>1. PICK answer \in {"answered", "lost"} :
               draft' = [draft EXCEPT ![d].request = answer]
        BY <2>5 DEF Refinement!StartRun
      <3>2. UNCHANGED <<canon, tree, attempts, receipts>> /\ draft[d].request = "checked"
        BY <2>5 DEF Refinement!StartRun
      <3>3. \A e \in Drafts : /\ draft'[e] \in DraftRecords
                              /\ draft'[e].packet = draft[e].packet
                              /\ draft[e].request # "none" => draft'[e].request # "none"
        BY <3>1 DEF RefinementTypeOK, DraftRecords
      <3>4. run' = run \/ run' = [run EXCEPT ![d].state = "running"]
        BY <2>5 DEF Refinement!StartRun
      <3>5. run' \in [Drafts -> DraftRuns]
            /\ \A e \in Drafts :
                 /\ run'[e].operation = run[e].operation
                 /\ run'[e].written = run[e].written /\ run'[e].reused = run[e].reused
                 /\ run'[e].state # run[e].state => e = d /\ run'[e].state = "running"
        BY <3>4 DEF RefinementTypeOK, DraftRuns
      <3>6. RefinementTypeOK'
        BY <3>1, <3>2, <3>3, <3>5 DEF RefinementTypeOK
      <3> QED
        BY <1>1, <2>0, <3>2, <3>3, <3>5, <3>6, QuietStep
    <2>6. ASSUME NEW d \in Drafts, run[d].state = "running",
                 run' = Refinement!AttemptFailed(d), attempts' \in SUBSET attempts,
                 receipts \subseteq receipts', UNCHANGED <<canon, tree, draft>>
          PROVE  RefinementInv'
      <3>1. draft[d].request # "none"
        BY <2>6 DEF RunsWereSent
      <3>2. /\ run' \in [Drafts -> DraftRuns]
            /\ \A e \in Drafts :
                 /\ run'[e].operation = run[e].operation
                 /\ run'[e].written = run[e].written /\ run'[e].reused = run[e].reused
                 /\ run'[e].state # run[e].state => e = d /\ run'[e].state = "failed"
        BY <2>6, FailedRun
      <3>3. RefinementTypeOK'
        BY <2>6, <3>2 DEF RefinementTypeOK
      <3> QED
        BY <1>1, <2>0, <2>6, <3>1, <3>2, <3>3, QuietStep
    <2>7. ASSUME NEW d \in Drafts, Refinement!Skip(d)
          PROVE  RefinementInv'
      <3> DEFINE next == [run[d] EXCEPT !.operation = run[d].operation + 1]
      <3>1. /\ run[d].state = "running" /\ run[d].operation \in 2..3
            /\ Refinement!OperationCells(d, run[d].operation) = {}
            /\ run' = [run EXCEPT ![d] = next]
            /\ UNCHANGED <<canon, tree, draft, attempts, receipts>>
        BY <2>7 DEF Refinement!Skip, Refinement!Running, Refinement!PlanApply,
                    Refinement!BulkUpdate, RefinementTypeOK
      <3>2. /\ next \in DraftRuns /\ next.state = "running"
            /\ next.operation = run[d].operation + 1 /\ next.operation # 5
            /\ next.written = run[d].written /\ next.reused = run[d].reused
        BY <3>1 DEF RefinementTypeOK, DraftRuns
      <3> HIDE DEF next
      <3>3. next.written \cup next.reused
              = run[d].written \cup run[d].reused
                \cup Refinement!OperationCells(d, run[d].operation)
        BY <3>1, <3>2
      <3>4. /\ run[d].operation \in 1..4 /\ attempts' \in SUBSET attempts
            /\ next.operation = 5 => Refinement!Targets(d) \subseteq held[d]
        BY <3>1, <3>2
      <3> QED
        BY <2>0, <3>1, <3>2, <3>3, <3>4, RunGoesOn
    <2>8. ASSUME NEW d \in Drafts, Refinement!Begin(d)
          PROVE  RefinementInv'
      <3> DEFINE new == [draft |-> d, operation |-> run[d].operation,
                         attempt |-> run[d].attempt, reads |-> TRUE,
                         seen |-> Refinement!NoRead, todo |-> {}, written |-> {},
                         reused |-> {}]
      <3>1. /\ run[d].state = "running" /\ UNCHANGED <<canon, tree, draft, receipts>>
            /\ run' = [run EXCEPT ![d].begun = TRUE]
            /\ attempts' = attempts \cup {new}
        BY <2>8 DEF Refinement!Begin, Refinement!Running
      <3>2. run[d].operation \in 1..4
        <4>1. CASE run[d].operation = 4
          BY <4>1
        <4>2. CASE Refinement!OperationCells(d, run[d].operation) # {}
          BY <4>2 DEF Refinement!OperationCells, Refinement!Targets, Refinement!Cells,
                      Refinement!Governance, Refinement!PlanApply, Refinement!BulkUpdate
        <4> QED
          BY <2>8, <4>1, <4>2 DEF Refinement!Begin, Refinement!ReadState
      <3>3. run[d].attempt \in Nat /\ draft[d].request # "none"
        BY <3>1 DEF RefinementTypeOK, DraftRuns, RunsWereSent
      <3>4. /\ new \in WorkerAttempts /\ new.draft = d /\ new.reads
            /\ new.operation = run[d].operation /\ new.seen.places = {}
            /\ new.todo = {} /\ new.written = {}
        BY <3>2, <3>3, NothingRead DEF WorkerAttempts
      <3> HIDE DEF new
      <3>5. AttemptOK(new)
        BY <3>2, <3>3, <3>4 DEF AttemptOK
      <3>6. \A a \in attempts' : AttemptOK(a)
        BY <1>1, <3>1, <3>5
      <3>7. run' \in [Drafts -> DraftRuns]
            /\ \A e \in Drafts :
                 /\ run'[e].operation = run[e].operation /\ run'[e].state = run[e].state
                 /\ run'[e].written = run[e].written /\ run'[e].reused = run[e].reused
        BY <3>1 DEF RefinementTypeOK, DraftRuns
      <3>8. RefinementTypeOK'
        BY <3>1, <3>4, <3>7 DEF RefinementTypeOK
      <3> QED
        BY <2>0, <3>1, <3>6, <3>7, <3>8, QuietStep
    <2>9. ASSUME NEW a \in attempts, NEW new \in WorkerAttempts, AttemptOK(new),
                 attempts' = (attempts \ {a}) \cup {new},
                 canon' \in [RefinementCells -> Values],
                 UNCHANGED <<tree, draft, run, receipts>>
          PROVE  RefinementInv'
      <3>1. RefinementTypeOK'
        BY <2>9 DEF RefinementTypeOK
      <3>2. \A b \in attempts' : AttemptOK(b)
        BY <1>1, <2>9
      <3> QED
        BY <2>0, <2>9, <3>1, <3>2, QuietStep
    <2>10. ASSUME NEW a \in attempts, Refinement!ReadPage(a)
           PROVE  RefinementInv'
      <3>1. a \in WorkerAttempts /\ a.seen \in ReadsOfTheTree
        BY <1>1 DEF WorkerAttempts
      <3>2. PICK seen \in Refinement!Reads(a.seen) :
               attempts' = (attempts \ {a}) \cup {[a EXCEPT !.seen = seen]}
        BY <2>10 DEF Refinement!ReadPage
      <3> DEFINE new == [a EXCEPT !.seen = seen]
      <3>3. /\ seen \in ReadsOfTheTree
            /\ \A c \in RefinementCells : c[2] \in seen.places =>
                 \/ c[2] \in a.seen.places /\ seen.canon[c] = a.seen.canon[c]
                 \/ c[2] \in tree \cup {"none"} /\ seen.canon[c] = canon[c]
        BY <3>1, PageIsRead
      <3>4. /\ new \in WorkerAttempts /\ new.draft = a.draft /\ new.seen = seen
            /\ new.operation = a.operation /\ new.reads = a.reads /\ a.reads
            /\ new.todo = a.todo /\ new.written = a.written
        BY <2>10, <3>1, <3>3 DEF WorkerAttempts, Refinement!ReadPage
      <3> HIDE DEF new
      <3>5. AttemptOK(new)
        <4>1. ASSUME a.operation = 4, NEW c \in RefinementCells, c[2] \in seen.places,
                     seen.canon[c] = a.draft
              PROVE  c \in held[a.draft]
          BY <1>1, <3>3, <4>1 DEF AttemptOK, IsNoted
        <4> QED
          BY <1>1, <3>4, <4>1 DEF AttemptOK
      <3>6. UNCHANGED <<canon, tree, draft, run, receipts>>
        BY <2>10 DEF Refinement!ReadPage
      <3>7. attempts' = (attempts \ {a}) \cup {new}
        BY <3>2 DEF new
      <3> QED
        BY <2>9, <3>4, <3>5, <3>6, <3>7 DEF RefinementTypeOK
    <2>11. ASSUME attempts' \in SUBSET attempts,
                  UNCHANGED <<canon, tree, draft, run, receipts>>
           PROVE  RefinementInv'
      <3>1. RefinementTypeOK'
        BY <2>11 DEF RefinementTypeOK
      <3> QED
        BY <1>1, <2>0, <2>11, <3>1, QuietStep
    <2>12. ASSUME NEW a \in attempts, Refinement!Ends(a),
                  UNCHANGED <<canon, tree, draft, receipts>>
           PROVE  RefinementInv'
      <3>1. attempts' \in SUBSET attempts
        BY <2>12 DEF Refinement!Ends
      <3>2. CASE Refinement!Current(a)
        BY <1>1, <2>6, <2>12, <3>1, <3>2
        DEF Refinement!Ends, Refinement!Current, Refinement!Running
      <3>3. CASE ~Refinement!Current(a)
        BY <2>11, <2>12, <3>1, <3>3 DEF Refinement!Ends
      <3> QED
        BY <3>2, <3>3
    <2>13. ASSUME NEW a \in attempts, Refinement!BeginWrites(a)
           PROVE  RefinementInv'
      <3>1. a \in WorkerAttempts /\ a.seen \in ReadsOfTheTree
        BY <1>1 DEF WorkerAttempts
      <3>2. PICK seen \in Refinement!Reads(a.seen) :
               LET cells == Refinement!OperationCells(a.draft, a.operation)
                   done == {c \in cells : seen.canon[c] = a.draft}
                   todo == IF a.operation = 2 /\ done # cells THEN cells ELSE cells \ done
               IN  \/ Refinement!Ends(a)
                   \/ /\ attempts' = (attempts \ {a}) \cup
                            {[a EXCEPT !.reads = FALSE,
                                       !.seen = [Refinement!NoRead EXCEPT !.places = seen.places],
                                       !.todo = todo, !.reused = cells \ todo]}
                      /\ run' = run
        BY <2>13 DEF Refinement!BeginWrites, Refinement!PlanApply
      <3>3. UNCHANGED <<canon, tree, draft, receipts>>
        BY <2>13 DEF Refinement!BeginWrites
      <3> DEFINE cells == Refinement!OperationCells(a.draft, a.operation)
                 done == {c \in cells : seen.canon[c] = a.draft}
                 todo == IF a.operation = 2 /\ done # cells THEN cells ELSE cells \ done
                 found == [Refinement!NoRead EXCEPT !.places = seen.places]
                 new == [a EXCEPT !.reads = FALSE, !.seen = found,
                                  !.todo = todo, !.reused = cells \ todo]
      <3>4. CASE Refinement!Ends(a)
        BY <2>12, <3>3, <3>4
      <3>5. CASE attempts' = (attempts \ {a}) \cup {new} /\ run' = run
        <4>1. found \in ReadsOfTheTree
          BY <3>1, PageIsRead, NothingRead
        <4>2. cells \subseteq RefinementCells /\ todo \subseteq cells
          BY DEF Refinement!OperationCells, Refinement!Targets, RefinementCells
        <4>3. a.operation \in 1..3
          <5>1. a.operation # 4
            BY <2>13 DEF Refinement!BeginWrites, Refinement!ReadState
          <5> QED
            BY <3>1, <5>1 DEF WorkerAttempts
        <4> HIDE DEF found, todo, done
        <4>4. cells \ todo \subseteq RefinementCells
          BY <4>2
        <4>5. cells = Refinement!OperationCells(a.draft, a.operation)
          OBVIOUS
        <4> HIDE DEF cells
        <4>6. /\ new \in WorkerAttempts /\ new.draft = a.draft
              /\ ~new.reads /\ new.operation = a.operation /\ new.todo = todo
              /\ new.written = a.written /\ new.reused = cells \ todo
          BY <3>1, <4>1, <4>2, <4>4 DEF WorkerAttempts
        <4> HIDE DEF new
        <4>7. a.written = {}
          BY <1>1, <2>13 DEF AttemptOK, Refinement!BeginWrites
        <4>8. AttemptOK(new)
          BY <1>1, <4>2, <4>3, <4>5, <4>6, <4>7 DEF AttemptOK
        <4> QED
          BY <2>9, <3>3, <3>5, <4>6, <4>8 DEF RefinementTypeOK
      <3> QED
        BY <3>2, <3>4, <3>5
    <2>14. ASSUME NEW a \in attempts, Refinement!ReadCanonicalState(a)
           PROVE  RefinementInv'
      <3>1. /\ a \in WorkerAttempts /\ a.seen \in ReadsOfTheTree /\ a.draft \in Drafts
            /\ a.operation = 4
        BY <1>1, <2>14 DEF WorkerAttempts, Refinement!ReadCanonicalState, Refinement!ReadState
      <3> DEFINE d == a.draft
                 next == Answered(run[d], run[d].written, run[d].reused, 5, 1)
      <3>2. PICK seen \in Refinement!Reads(a.seen) :
               \/ Refinement!Ends(a)
               \/ /\ Refinement!Current(a) /\ Refinement!Readback(d, seen)
                  /\ attempts' = attempts \ {a}
                  /\ run' = [run EXCEPT ![d] = [run[d] EXCEPT !.operation = 5, !.attempt = 1,
                                                              !.begun = FALSE]]
        BY <2>14 DEF Refinement!ReadCanonicalState, Refinement!PersistReceipt
      <3>3. UNCHANGED <<canon, tree, draft, receipts>>
        BY <2>14 DEF Refinement!ReadCanonicalState
      <3>4. CASE Refinement!Ends(a)
        BY <2>12, <3>3, <3>4
      <3>5. CASE /\ Refinement!Current(a) /\ Refinement!Readback(d, seen)
                 /\ attempts' = attempts \ {a}
                 /\ run' = [run EXCEPT ![d] = [run[d] EXCEPT !.operation = 5, !.attempt = 1,
                                                             !.begun = FALSE]]
        <4>1. /\ run[d] \in DraftRuns /\ run[d].state = "running" /\ run[d].operation = 4
          BY <3>1, <3>5 DEF Refinement!Current, Refinement!Running, RefinementTypeOK
        <4>2. run' = [run EXCEPT ![d] = next]
          <5>1. next = [run[d] EXCEPT !.operation = 5, !.attempt = 1, !.begun = FALSE]
            BY <4>1 DEF Answered, DraftRuns
          <5> QED
            BY <3>5, <5>1
        <4>3. /\ run[d].written \in SUBSET RefinementCells
              /\ run[d].reused \in SUBSET RefinementCells /\ 5 \in 1..5 /\ 1 \in Nat
          BY <4>1 DEF DraftRuns
        <4>4. /\ next \in DraftRuns /\ next.state = "running" /\ next.operation = 5
              /\ next.written = run[d].written /\ next.reused = run[d].reused
          BY <4>1, <4>3, AnsweredRun
        <4> HIDE DEF next
        <4>5. Refinement!OperationCells(d, 4) = {}
          BY DEF Refinement!OperationCells, Refinement!Targets, Refinement!Cells,
                 Refinement!Governance, Refinement!PlanApply, Refinement!BulkUpdate
        <4>6. Refinement!Targets(d) \subseteq held[d]
          <5>1. SUFFICES ASSUME NEW c \in Refinement!Targets(d) PROVE c \in held[d]
            OBVIOUS
          <5>2. c \in RefinementCells /\ c[2] \in seen.places /\ seen.canon[c] = d
            BY <3>5 DEF Refinement!Readback, Refinement!Targets, RefinementCells
          <5>3. \/ c[2] \in a.seen.places /\ a.seen.canon[c] = d
                \/ c[2] \in tree \cup {"none"} /\ canon[c] = d
            BY <3>1, <5>2, PageIsRead
          <5> QED
            BY <1>1, <3>1, <4>1, <5>2, <5>3 DEF AttemptOK, IsNoted
        <4>7. next.written \cup next.reused
                = run[d].written \cup run[d].reused
                  \cup Refinement!OperationCells(d, run[d].operation)
          BY <4>1, <4>4, <4>5
        <4>8. /\ run[d].operation \in 1..4 /\ attempts' \in SUBSET attempts
              /\ next.operation = run[d].operation + 1
          BY <3>5, <4>1, <4>4
        <4> QED
          BY <2>0, <3>1, <3>3, <4>1, <4>2, <4>4, <4>6, <4>7, <4>8, RunGoesOn
      <3> QED
        BY <3>2, <3>4, <3>5
    <2>15. ASSUME NEW d \in Drafts, Refinement!Persist(d)
           PROVE  RefinementInv'
      <3>1. /\ run[d].state = "running" /\ run[d].operation = 5
            /\ UNCHANGED <<canon, tree, draft, attempts>> /\ receipts \subseteq receipts'
            /\ \/ run' = Refinement!AttemptFailed(d)
               \/ run' = [run EXCEPT ![d].state = "failed"]
               \/ run' = [run EXCEPT ![d].state = "completed"]
                  /\ Refinement!Event(d) \in receipts'
        BY <2>15 DEF Refinement!Persist, Refinement!Running, Refinement!PersistReceipt
      <3>2. CASE run' = Refinement!AttemptFailed(d)
        BY <2>6, <3>1, <3>2
      <3>3. CASE \/ run' = [run EXCEPT ![d].state = "failed"]
                 \/ run' = [run EXCEPT ![d].state = "completed"]
                    /\ Refinement!Event(d) \in receipts'
        <4>1. draft[d].request # "none"
          BY <3>1 DEF RunsWereSent
        <4>2. run' \in [Drafts -> DraftRuns]
              /\ \A e \in Drafts :
                   /\ run'[e].operation = run[e].operation
                   /\ run'[e].written = run[e].written /\ run'[e].reused = run[e].reused
                   /\ run'[e].state # run[e].state =>
                        /\ e = d
                        /\ \/ run'[e].state = "failed"
                           \/ /\ run'[e].state = "completed"
                              /\ Refinement!Event(d) \in receipts'
          BY <3>3 DEF RefinementTypeOK, DraftRuns
        <4>3. RefinementTypeOK'
          BY <3>1, <4>2 DEF RefinementTypeOK
        <4> QED
          BY <1>1, <2>0, <3>1, <4>1, <4>2, <4>3, QuietStep
      <3> QED
        BY <3>1, <3>2, <3>3
    <2>16. ASSUME NEW d \in Drafts, Refinement!PersistFails(d)
           PROVE  RefinementInv'
      BY <2>6, <2>16 DEF Refinement!PersistFails, Refinement!Running
    <2>17. ASSUME NEW a \in attempts, Refinement!Write(a)
           PROVE  RefinementInv'
      <3>1. PICK c \in a.todo :
               /\ canon' = [canon EXCEPT ![c] = a.draft]
               /\ attempts' = (attempts \ {a}) \cup
                     {[a EXCEPT !.todo = a.todo \ {c}, !.written = a.written \cup {c}]}
        BY <2>17 DEF Refinement!Write
      <3> DEFINE new == [a EXCEPT !.todo = a.todo \ {c}, !.written = a.written \cup {c}]
      <3>2. UNCHANGED <<tree, draft, run, receipts>>
        BY <2>17 DEF Refinement!Write
      <3>3. a \in WorkerAttempts /\ c \in RefinementCells
        BY <1>1, <3>1 DEF WorkerAttempts
      <3>4. /\ new \in WorkerAttempts /\ new.draft = a.draft /\ new.operation = a.operation
            /\ new.reads = a.reads /\ new.seen = a.seen
            /\ new.todo = a.todo \ {c} /\ new.written = a.written \cup {c}
            /\ new.reused = a.reused
        BY <3>1, <3>3 DEF WorkerAttempts
      <3> HIDE DEF new
      <3>5. attempts' = (attempts \ {a}) \cup {new}
        BY <3>1 DEF new
      <3>6. new.todo \cup new.written \cup new.reused = a.todo \cup a.written \cup a.reused
        BY <3>1, <3>4
      <3>7. AttemptOK(new)
        <4>1. AttemptOK(a) /\ ~a.reads
          BY <1>1, <3>1 DEF AttemptOK
        <4> QED
          BY <3>4, <3>6, <4>1 DEF AttemptOK
      <3>8. canon' \in [RefinementCells -> Values]
        BY <3>1, <3>3 DEF RefinementTypeOK, WorkerAttempts, Values
      <3> QED
        BY <2>9, <3>2, <3>4, <3>5, <3>7, <3>8
    <2>18. ASSUME NEW a \in attempts, Refinement!Fail(a) \/ Refinement!Timeout(a)
           PROVE  RefinementInv'
      <3>1. CASE Refinement!Fail(a)
        BY <2>12, <3>1 DEF Refinement!Fail
      <3>2. CASE Refinement!Timeout(a)
        BY <1>1, <2>6, <3>2
        DEF Refinement!Timeout, Refinement!Current, Refinement!Running
      <3> QED
        BY <2>18, <3>1, <3>2
    <2>19. ASSUME NEW a \in attempts, Refinement!Answer(a)
           PROVE  RefinementInv'
      <3>1. a \in WorkerAttempts /\ attempts' \in SUBSET attempts
            /\ UNCHANGED <<canon, tree, draft, receipts>>
        BY <1>1, <2>19 DEF Refinement!Answer
      <3>2. CASE ~Refinement!Current(a)
        BY <2>11, <2>19, <3>1, <3>2 DEF Refinement!Answer
      <3>3. CASE Refinement!Current(a)
        <4> DEFINE d == a.draft
                   next == Answered(run[d], run[d].written \cup a.written,
                                    run[d].reused \cup a.reused,
                                    run[d].operation + 1, 1)
        <4>1. /\ d \in Drafts /\ run[d] \in DraftRuns /\ run[d].state = "running"
              /\ run[d].operation = a.operation /\ a.operation \in 1..3 /\ a.todo = {}
          BY <1>1, <2>19, <3>1, <3>3
          DEF Refinement!Answer, Refinement!Current, Refinement!Running, AttemptOK,
              RefinementTypeOK, WorkerAttempts
        <4>2. run' = [run EXCEPT ![d] = next]
          BY <2>19, <3>3 DEF Refinement!Answer, Answered
        <4>3. /\ run[d].written \cup a.written \in SUBSET RefinementCells
              /\ run[d].reused \cup a.reused \in SUBSET RefinementCells
              /\ run[d].operation + 1 \in 2..4 /\ run[d].operation + 1 \in 1..5
              /\ 1 \in Nat
          BY <3>1, <4>1 DEF WorkerAttempts, DraftRuns
        <4>5. /\ next \in DraftRuns /\ next.state = "running"
              /\ next.operation = run[d].operation + 1 /\ next.operation # 5
              /\ next.written = run[d].written \cup a.written
              /\ next.reused = run[d].reused \cup a.reused
          <5>1. next \in DraftRuns
            BY <4>1, <4>3, AnsweredRun
          <5>2. next.state = "running"
            BY <4>1, <4>3, AnsweredRun
          <5>3. next.operation = run[d].operation + 1
            BY <4>1, <4>3, AnsweredRun
          <5>4. next.written = run[d].written \cup a.written
            BY <4>1, <4>3, AnsweredRun
          <5>5. next.reused = run[d].reused \cup a.reused
            BY <4>1, <4>3, AnsweredRun
          <5> HIDE DEF next
          <5> QED
            BY <4>3, <5>1, <5>2, <5>3, <5>4, <5>5
        <4> HIDE DEF next
        <4>6. next.written \cup next.reused
                = run[d].written \cup run[d].reused
                  \cup Refinement!OperationCells(d, run[d].operation)
          BY <1>1, <2>19, <4>1, <4>5 DEF AttemptOK, Refinement!Answer
        <4>7. /\ run[d].operation \in 1..4
              /\ next.operation = 5 => Refinement!Targets(d) \subseteq held[d]
          BY <4>1, <4>5
        <4> QED
          BY <2>0, <3>1, <4>1, <4>2, <4>5, <4>6, <4>7, RunGoesOn
      <3> QED
        BY <3>2, <3>3
    <2> QED
      BY <1>3, <2>1, <2>2, <2>3, <2>4, <2>5, <2>7, <2>8, <2>10, <2>13, <2>14, <2>15, <2>16,
         <2>17, <2>18, <2>19
      DEF Refinement!Next, Refinement!Workflow
  <1> QED
    BY <1>2, <1>3

-----------------------------------------------------------------------------
(* The ideas and the delivery items.                                       *)

PendingPlaces == {"patch", "reread", "unlocked"}
CallFields == {"op", "at", "saw", "patch", "asked", "lock", "retried", "then"}
Faults == [replayed : BOOLEAN, unlocked : BOOLEAN, overlapped : BOOLEAN]

(* A PATCH changes what was asked for, and repeats what was read.          *)
PatchIsRight(my, texts) ==
    /\ DOMAIN my.asked \subseteq DOMAIN my.patch
    /\ \A f \in DOMAIN my.patch :
          my.patch[f] = IF f \notin DOMAIN my.asked THEN my.saw[f]
                        ELSE IF f \in texts THEN my.saw[f] \cup my.asked[f]
                        ELSE my.asked[f]

(* The places that only the guided closeout of an Epic reaches.            *)
ClosePlaces == {"demonstrate", "closing", "examine", "compose", "finish"}

(* A PATCH that is sent for the first time with the current lock version   *)
(* is built from the current fields, unless it took that lock version at   *)
(* another moment than the fields.                                         *)
CallOK(my, texts, free, lock, fields) ==
    /\ DOMAIN my = CallFields /\ my.retried \in BOOLEAN
    /\ my.then \in {"answered", "closing", "examine", "compose"}
    /\ my.lock \in Nat /\ my.lock <= lock
    /\ my.at \in ClosePlaces \/ my.then # "answered" => my.op = "close"
    /\ my.at = "idle" => my.then = "answered"
    /\ my.at \in PendingPlaces => PatchIsRight(my, texts)
    /\ my.at = "unlocked" => my.op \in free
    /\ my.at = "patch" /\ ~my.retried /\ my.op \notin free /\ my.lock = lock =>
          my.saw = fields

WorkInv(texts, free) ==
    /\ DOMAIN call = Calls /\ entry.lock \in Nat /\ faults \in Faults
    /\ \A c \in Calls : CallOK(call[c], texts, free, entry.lock, entry.fields)
    /\ ~faults.replayed /\ ~faults.unlocked => entry.fields = last

(* A call that moves on and applies nothing keeps the invariant.           *)
LEMMA CallMoves ==
    ASSUME NEW texts, NEW free, WorkInv(texts, free), NEW c \in Calls,
           UNCHANGED <<entry, last>>, faults' \in Faults,
           faults'.replayed = faults.replayed, faults'.unlocked = faults.unlocked,
           DOMAIN call' = Calls, \A e \in Calls \ {c} : call'[e] = call[e],
           CallOK(call'[c], texts, free, entry.lock, entry.fields)
    PROVE  WorkInv(texts, free)'
  <1>1. \A e \in Calls : CallOK(call'[e], texts, free, entry'.lock, entry'.fields)
    BY DEF WorkInv
  <1> QED
    BY <1>1 DEF WorkInv

(* The PATCH that OpenProject applies changes a field as the history says  *)
(* it was asked to, unless it was replayed or sent without its lock.       *)
LEMMA CallApplies ==
    ASSUME NEW texts, NEW free, WorkInv(texts, free), NEW c \in Calls,
           call[c].at = "patch", call[c].lock = entry.lock,
           entry' = [lock |-> entry.lock + 1,
                     fields |-> Idea!Over(call[c].patch, entry.fields)],
           last' = [f \in DOMAIN last |->
                      IF f \notin DOMAIN call[c].asked THEN last[f]
                      ELSE IF f \in texts THEN last[f] \cup call[c].asked[f]
                      ELSE call[c].asked[f]],
           faults' \in Faults,
           ~faults'.replayed => ~faults.replayed /\
                                ~(call[c].saw # entry.fields /\ call[c].retried),
           ~faults'.unlocked => ~faults.unlocked /\
                                ~(call[c].saw # entry.fields /\ call[c].op \in free),
           DOMAIN call' = Calls, \A e \in Calls \ {c} : call'[e] = call[e],
           CallOK(call'[c], texts, free, entry.lock, entry.fields),
           call'[c].at \notin PendingPlaces
    PROVE  WorkInv(texts, free)'
  <1>1. /\ entry'.lock = entry.lock + 1 /\ entry.lock \in Nat /\ entry'.lock \in Nat
        /\ entry'.fields = Idea!Over(call[c].patch, entry.fields)
    BY DEF WorkInv
  <1>2. ASSUME NEW e \in Calls
        PROVE  CallOK(call'[e], texts, free, entry'.lock, entry'.fields)
    <2>1. CallOK(call'[e], texts, free, entry.lock, entry.fields)
      BY DEF WorkInv
    <2>2. call'[e].lock # entry'.lock /\ call'[e].lock <= entry'.lock
      BY <1>1, <2>1 DEF CallOK
    <2> QED
      BY <2>1, <2>2 DEF CallOK
  <1>3. ASSUME ~faults'.replayed, ~faults'.unlocked
        PROVE  entry'.fields = last'
    <2>1. call[c].saw = entry.fields /\ entry.fields = last
      BY <1>3 DEF WorkInv, CallOK
    <2>2. PatchIsRight(call[c], texts)
      BY DEF WorkInv, CallOK, PendingPlaces
    <2>3. ASSUME NEW f \in DOMAIN last
          PROVE  (IF f \in DOMAIN call[c].patch THEN call[c].patch[f] ELSE last[f])
                   = IF f \notin DOMAIN call[c].asked THEN last[f]
                     ELSE IF f \in texts THEN last[f] \cup call[c].asked[f]
                     ELSE call[c].asked[f]
      BY <2>1, <2>2 DEF PatchIsRight
    <2>4. entry'.fields = [f \in DOMAIN last |->
             IF f \in DOMAIN call[c].patch THEN call[c].patch[f] ELSE last[f]]
      BY <1>1, <2>1 DEF Idea!Over
    <2> QED
      BY <2>3, <2>4
  <1> QED
    BY <1>1, <1>2, <1>3 DEF WorkInv

(* The places a call goes to.                                              *)
LEMMA IdeaGoes ==
    ASSUME NEW texts, NEW free, WorkInv(texts, free), NEW c \in Calls, NEW at,
           Idea!Goes(c, at), at \notin {"patch", "unlocked", "idle"},
           at = "reread" => call[c].at = "patch",
           at \in ClosePlaces => call[c].op = "close"
    PROVE  /\ DOMAIN call' = Calls /\ \A e \in Calls \ {c} : call'[e] = call[e]
           /\ CallOK(call'[c], texts, free, entry.lock, entry.fields)
           /\ call'[c].at = IF at \in {"answered", "refused"} THEN "ended" ELSE at
  <1>1. DOMAIN call' = Calls /\ \A e \in Calls \ {c} : call'[e] = call[e]
    BY DEF Idea!Goes, WorkInv
  <1>2. CallOK(call[c], texts, free, entry.lock, entry.fields) /\ entry.lock \in Nat
    BY DEF WorkInv
  <1>3. CASE at \in {"answered", "refused"}
    <2>1. call'[c] = [Idea!Idle EXCEPT !.at = "ended"]
      BY <1>3 DEF Idea!Goes, Idea!Ended, WorkInv
    <2>2. /\ DOMAIN call'[c] = CallFields /\ call'[c].at = "ended" /\ call'[c].lock = 0
          /\ call'[c].retried = FALSE /\ call'[c].then = "answered"
      BY <2>1 DEF Idea!Idle, CallFields
    <2>3. call'[c].lock \in Nat /\ call'[c].lock <= entry.lock
      BY <1>2, <2>2
    <2>4. call'[c].retried \in BOOLEAN
      BY <2>2
    <2>5. call'[c].at \notin PendingPlaces
      BY <2>2 DEF PendingPlaces
    <2>6. CallOK(call'[c], texts, free, entry.lock, entry.fields)
      BY <2>2, <2>3, <2>4, <2>5 DEF CallOK, PendingPlaces, ClosePlaces
    <2> QED
      BY <1>1, <1>3, <2>2, <2>6
  <1>4. CASE at \notin {"answered", "refused"}
    <2>1. /\ DOMAIN call'[c] = DOMAIN call[c] /\ call'[c].at = at
          /\ call'[c].retried = FALSE /\ call'[c].then = call[c].then
          /\ call'[c].lock = call[c].lock /\ call'[c].patch = call[c].patch
          /\ call'[c].asked = call[c].asked /\ call'[c].saw = call[c].saw
          /\ call'[c].op = call[c].op
      BY <1>2, <1>4 DEF Idea!Goes, Idea!Ended, WorkInv, CallOK, CallFields
    <2>2. at = "reread" => PatchIsRight(call'[c], texts)
      BY <1>2, <2>1 DEF CallOK, PendingPlaces, PatchIsRight
    <2> QED
      BY <1>1, <1>2, <1>4, <2>1, <2>2 DEF CallOK, PendingPlaces
  <1> QED
    BY <1>3, <1>4

(* A call on an item and one on an idea go on under the same conditions.   *)
LEMMA ItemGoes == \A c, at : Item!Goes(c, at) <=> Idea!Goes(c, at)
  BY DEF Item!Goes, Idea!Goes, Item!Idle, Idea!Idle, Item!Ended, Idea!Ended,
         Item!Nothing, Idea!Nothing

(* No call has begun.                                                      *)
LEMMA CallsBegin ==
    ASSUME NEW texts, NEW free, NEW fields, Idea!WpInit(fields)
    PROVE  WorkInv(texts, free)
  <1>1. DOMAIN call = Calls /\ entry.lock = 0 /\ entry.fields = fields /\ last = fields
    BY DEF Idea!WpInit
  <1>2. /\ faults \in Faults
    BY DEF Idea!WpInit, Faults
  <1>3. ASSUME NEW c \in Calls
        PROVE  CallOK(call[c], texts, free, entry.lock, entry.fields)
    <2>1. call[c] = Idea!Idle
      BY DEF Idea!WpInit
    <2>2. /\ DOMAIN call[c] = CallFields /\ call[c].at = "idle" /\ call[c].lock = 0
          /\ call[c].retried = FALSE /\ call[c].then = "answered"
      BY <2>1 DEF Idea!Idle, CallFields
    <2>3. call[c].lock \in Nat /\ call[c].lock <= entry.lock
      BY <1>1, <2>2
    <2>4. call[c].retried \in BOOLEAN
      BY <2>2
    <2>5. call[c].at \notin PendingPlaces
      BY <2>2 DEF PendingPlaces
    <2> QED
      BY <2>2, <2>3, <2>4, <2>5 DEF CallOK, PendingPlaces, ClosePlaces
  <1> QED
    BY <1>1, <1>2, <1>3 DEF WorkInv

(* The steps that ideas and items share.                                   *)
LEMMA SharedSteps ==
    ASSUME NEW texts, NEW free, WorkInv(texts, free), NEW c \in Calls,
           \/ Idea!Fails(c)
           \/ Idea!Conflicts(c, TRUE)
           \/ Idea!Rereads(c)
           \/ Idea!TakeLock(c)
    PROVE  /\ WorkInv(texts, free)' /\ UNCHANGED faults
           /\ \A e \in Calls : call'[e].at = "create" => call[e].at = "create"
  <1>1. CallOK(call[c], texts, free, entry.lock, entry.fields) /\ entry.lock \in Nat
        /\ faults \in Faults
    BY DEF WorkInv
  <1>2. CASE Idea!Fails(c)
    <2>1. Idea!Goes(c, "refused") /\ UNCHANGED <<entry, last, faults>>
      BY <1>2 DEF Idea!Fails, Idea!Refused
    <2> QED
      BY <1>1, <2>1, IdeaGoes, CallMoves DEF ClosePlaces
  <1>3. CASE Idea!Conflicts(c, TRUE)
    <2>1. PICK at \in {"reread", "refused"} :
             Idea!Goes(c, at) /\ call[c].at = "patch" /\ UNCHANGED <<entry, last, faults>>
      BY <1>3 DEF Idea!Conflicts
    <2> QED
      BY <1>1, <2>1, IdeaGoes, CallMoves DEF ClosePlaces
  <1>4. CASE Idea!Rereads(c)
    <2>1. /\ call[c].at = "reread" /\ UNCHANGED <<entry, last, faults>>
          /\ call' = [call EXCEPT ![c].lock = entry.lock, ![c].retried = TRUE,
                                  ![c].at = "patch"]
      BY <1>4 DEF Idea!Rereads
    <2>2. /\ DOMAIN call' = Calls /\ \A e \in Calls \ {c} : call'[e] = call[e]
          /\ DOMAIN call'[c] = CallFields /\ call'[c].at = "patch"
          /\ call'[c].retried = TRUE /\ call'[c].then = call[c].then
          /\ call'[c].lock = entry.lock /\ call'[c].patch = call[c].patch
          /\ call'[c].asked = call[c].asked /\ call'[c].saw = call[c].saw
          /\ call'[c].op = call[c].op
      BY <1>1, <2>1 DEF WorkInv, CallOK, CallFields
    <2>3. PatchIsRight(call[c], texts) /\ PatchIsRight(call'[c], texts)
      <3>1. PatchIsRight(call[c], texts)
        BY <1>1, <2>1 DEF CallOK, PendingPlaces
      <3> QED
        BY <2>2, <3>1 DEF PatchIsRight
    <2>4. call'[c].retried /\ call'[c].retried \in BOOLEAN
      BY <2>2
    <2>5. call'[c].lock \in Nat /\ call'[c].lock <= entry.lock
      BY <1>1, <2>2
    <2>6. CallOK(call'[c], texts, free, entry.lock, entry.fields)
      <3>1. call'[c].then \in {"answered", "closing", "examine", "compose"}
        BY <1>1, <2>2 DEF CallOK
      <3> QED
        BY <1>1, <2>1, <2>2, <2>3, <2>4, <2>5, <3>1 DEF CallOK, ClosePlaces
    <2> QED
      BY <1>1, <2>1, <2>2, <2>6, CallMoves
  <1>5. CASE Idea!TakeLock(c)
    <2>1. /\ call[c].at = "unlocked" /\ UNCHANGED <<entry, last, faults>>
          /\ call' = [call EXCEPT ![c].lock = entry.lock, ![c].at = "patch"]
      BY <1>5 DEF Idea!TakeLock
    <2>2. /\ DOMAIN call' = Calls /\ \A e \in Calls \ {c} : call'[e] = call[e]
          /\ DOMAIN call'[c] = CallFields /\ call'[c].at = "patch"
          /\ call'[c].retried = call[c].retried /\ call'[c].then = call[c].then
          /\ call'[c].lock = entry.lock /\ call'[c].patch = call[c].patch
          /\ call'[c].asked = call[c].asked /\ call'[c].saw = call[c].saw
          /\ call'[c].op = call[c].op
      BY <1>1, <2>1 DEF WorkInv, CallOK, CallFields
    <2>3. PatchIsRight(call[c], texts)
      BY <1>1, <2>1 DEF CallOK, PendingPlaces
    <2>4. PatchIsRight(call'[c], texts)
      BY <2>2, <2>3 DEF PatchIsRight
    <2>5. CallOK(call'[c], texts, free, entry.lock, entry.fields)
      BY <1>1, <2>1, <2>2, <2>4 DEF CallOK, ClosePlaces
    <2> QED
      BY <1>1, <2>1, <2>2, <2>5, CallMoves
  <1> QED
    BY <1>2, <1>3, <1>4, <1>5

(* A call sends what it asks for, next to what it read.                    *)
LEMMA CallSends ==
    ASSUME NEW texts, NEW free, WorkInv(texts, free), NEW c \in Calls,
           NEW patch, NEW asked, NEW then, NEW at,
           Idea!Sends(c, patch, asked, then, at), UNCHANGED <<entry, last, faults>>,
           then \in {"answered", "closing", "examine", "compose"},
           then # "answered" => call[c].op = "close",
           at \in {"patch", "unlocked"}, at = "unlocked" => call[c].op \in free,
           DOMAIN asked \subseteq DOMAIN patch,
           \A f \in DOMAIN patch :
              patch[f] = IF f \notin DOMAIN asked THEN entry.fields[f]
                         ELSE IF f \in texts THEN entry.fields[f] \cup asked[f]
                         ELSE asked[f]
    PROVE  /\ WorkInv(texts, free)'
           /\ \A e \in Calls : call'[e].at = "create" => call[e].at = "create"
  <1>1. CallOK(call[c], texts, free, entry.lock, entry.fields) /\ entry.lock \in Nat
        /\ faults \in Faults
    BY DEF WorkInv
  <1>2. /\ DOMAIN call' = Calls /\ \A e \in Calls \ {c} : call'[e] = call[e]
        /\ DOMAIN call'[c] = CallFields /\ call'[c].at = at
        /\ call'[c].retried = call[c].retried /\ call'[c].then = then
        /\ call'[c].lock = entry.lock /\ call'[c].patch = patch
        /\ call'[c].asked = asked /\ call'[c].saw = entry.fields
        /\ call'[c].op = call[c].op
    BY <1>1 DEF Idea!Sends, WorkInv, CallOK, CallFields
  <1>3. PatchIsRight(call'[c], texts)
    BY <1>2 DEF PatchIsRight
  <1>4. CallOK(call'[c], texts, free, entry.lock, entry.fields)
    BY <1>1, <1>2, <1>3 DEF CallOK, ClosePlaces
  <1> QED
    BY <1>1, <1>2, <1>4, CallMoves

(* No field of an idea is extended, and no operation on one is sent without*)
(* a lock version.                                                         *)
NoNames == {}

(* An idea has one Delivery, and none before a consumption creates it.     *)
OneEpic ==
    ~faults.overlapped =>
        /\ \A d, e \in Idea!Existing : d = e
        /\ (\E c \in Calls : call[c].at = "create") => Idea!Existing = {}

IdeaInv == WorkInv(NoNames, NoNames) /\ DOMAIN epics = Deliveries /\ OneEpic

(* No call on the idea has read or written anything.                       *)
LEMMA IdeaInit == Idea!Init => IdeaInv
  <1> SUFFICES ASSUME Idea!Init PROVE IdeaInv
    OBVIOUS
  <1>1. PICK fields : Idea!WpInit(fields)
    BY DEF Idea!Init
  <1>2. WorkInv(NoNames, NoNames)
    BY <1>1, CallsBegin
  <1>3. DOMAIN epics = Deliveries /\ Idea!Existing = {}
    BY DEF Idea!Init, Idea!Existing
  <1> QED
    BY <1>2, <1>3 DEF IdeaInv, OneEpic

(* A step that creates no Epic and lets no call come to create one.        *)
LEMMA IdeaQuiet ==
    ASSUME IdeaInv, WorkInv(NoNames, NoNames)', UNCHANGED epics,
           faults'.overlapped = faults.overlapped,
           \A e \in Calls : call'[e].at = "create" => call[e].at = "create"
    PROVE  IdeaInv'
  <1>1. Idea!Existing' = Idea!Existing
    BY DEF Idea!Existing
  <1> QED
    BY <1>1 DEF IdeaInv, OneEpic

(* The PATCH of an idea.                                                   *)
LEMMA IdeaApplies ==
    ASSUME IdeaInv, NEW c \in Calls, NEW at \in {"answered", "lost"},
           Idea!Applies(c, at, FALSE, {}), UNCHANGED epics
    PROVE  IdeaInv'
  <1> DEFINE stale == call[c].saw # entry.fields
  <1>1. /\ call[c].at = "patch" /\ call[c].lock = entry.lock
        /\ entry' = [lock |-> entry.lock + 1,
                     fields |-> Idea!Over(call[c].patch, entry.fields)]
        /\ last' = [f \in DOMAIN last |->
                      IF f \notin DOMAIN call[c].asked THEN last[f]
                      ELSE IF f \in NoNames THEN last[f] \cup call[c].asked[f]
                      ELSE call[c].asked[f]]
        /\ Idea!Goes(c, at)
    BY DEF Idea!Applies, NoNames
  <1>2. faults' = [faults EXCEPT
                      !.replayed = faults.replayed \/ (stale /\ call[c].retried),
                      !.unlocked = faults.unlocked \/ (stale /\ FALSE)]
    BY DEF Idea!Applies
  <1>3. faults \in Faults /\ WorkInv(NoNames, NoNames) /\ call[c].retried \in BOOLEAN
    BY DEF IdeaInv, WorkInv, CallOK
  <1>4. /\ faults' \in Faults
        /\ faults'.replayed = (faults.replayed \/ (stale /\ call[c].retried))
        /\ faults'.unlocked = faults.unlocked
        /\ faults'.overlapped = faults.overlapped
    BY <1>2, <1>3 DEF Faults
  <1>5. /\ DOMAIN call' = Calls /\ \A e \in Calls \ {c} : call'[e] = call[e]
        /\ CallOK(call'[c], NoNames, NoNames, entry.lock, entry.fields)
        /\ call'[c].at \in {"ended", "lost"}
    BY <1>1, <1>3, IdeaGoes DEF ClosePlaces
  <1>6. /\ call'[c].at \notin PendingPlaces
        /\ ~faults'.replayed => ~faults.replayed /\ ~(stale /\ call[c].retried)
        /\ ~faults'.unlocked => ~faults.unlocked /\ ~(stale /\ call[c].op \in NoNames)
    BY <1>4, <1>5 DEF PendingPlaces, NoNames
  <1>7. WorkInv(NoNames, NoNames)'
    BY <1>1, <1>3, <1>4, <1>5, <1>6, CallApplies
  <1> QED
    BY <1>4, <1>5, <1>7, IdeaQuiet

(* A move of a call that the other calls and the record do not see.        *)
LEMMA IdeaMoves ==
    ASSUME IdeaInv, NEW c \in Calls, NEW at, Idea!Goes(c, at),
           at \in {"answered", "refused", "create"},
           at = "create" => Idea!Existing = {},
           UNCHANGED <<entry, last, faults, epics>>
    PROVE  IdeaInv'
  <1>1. /\ WorkInv(NoNames, NoNames) /\ faults \in Faults
    BY DEF IdeaInv, WorkInv
  <1>2. at \notin {"patch", "unlocked", "idle", "reread"} /\ at \notin ClosePlaces
    BY DEF ClosePlaces
  <1>3. /\ DOMAIN call' = Calls /\ \A e \in Calls \ {c} : call'[e] = call[e]
        /\ CallOK(call'[c], NoNames, NoNames, entry.lock, entry.fields)
        /\ call'[c].at = IF at \in {"answered", "refused"} THEN "ended" ELSE at
    BY <1>1, <1>2, IdeaGoes
  <1>4. WorkInv(NoNames, NoNames)'
    BY <1>1, <1>3, CallMoves
  <1>5. Idea!Existing' = Idea!Existing
    BY DEF Idea!Existing
  <1>6. OneEpic'
    BY <1>3, <1>5 DEF IdeaInv, OneEpic
  <1> QED
    BY <1>4, <1>6 DEF IdeaInv

(* Every step of the calls on an idea keeps the invariant.                 *)
LEMMA IdeaStep == IdeaInv /\ [Idea!Next]_(Idea!vars) => IdeaInv'
  <1> SUFFICES ASSUME IdeaInv, [Idea!Next]_(Idea!vars) PROVE IdeaInv'
    OBVIOUS
  <1>0. /\ WorkInv(NoNames, NoNames) /\ faults \in Faults /\ DOMAIN call = Calls
        /\ entry.lock \in Nat
        /\ \A c \in Calls : CallOK(call[c], NoNames, NoNames, entry.lock, entry.fields)
    BY DEF IdeaInv, WorkInv
  <1>1. CASE UNCHANGED Idea!vars
    <2>1. UNCHANGED <<entry, call, last, faults, epics>>
      BY <1>1 DEF Idea!vars, Idea!wpVars
    <2> QED
      BY <2>1 DEF IdeaInv, WorkInv, OneEpic, Idea!Existing
  <1>2. ASSUME NEW c \in Calls, Idea!Begin(c)
        PROVE  IdeaInv'
    <2>1. PICK op \in Idea!Ops :
             /\ call[c].at = "idle" /\ UNCHANGED <<entry, last, faults, epics>>
             /\ call' = [call EXCEPT ![c].op = op, ![c].saw = entry.fields,
                                     ![c].at = IF op = "consume" THEN "lookup" ELSE "read"]
      BY <1>2 DEF Idea!Begin
    <2>2. /\ DOMAIN call' = Calls /\ \A e \in Calls \ {c} : call'[e] = call[e]
          /\ DOMAIN call'[c] = CallFields /\ call'[c].at \in {"lookup", "read"}
          /\ call'[c].lock = call[c].lock /\ call'[c].retried = call[c].retried
          /\ call'[c].then = call[c].then
      BY <1>0, <2>1 DEF CallOK, CallFields
    <2>3. CallOK(call'[c], NoNames, NoNames, entry.lock, entry.fields)
      BY <1>0, <2>1, <2>2 DEF CallOK, PendingPlaces, ClosePlaces
    <2>4. WorkInv(NoNames, NoNames)'
      BY <1>0, <2>1, <2>2, <2>3, CallMoves
    <2> QED
      BY <2>1, <2>2, <2>4, IdeaQuiet
  <1>3. ASSUME NEW c \in Calls, Idea!Read(c)
        PROVE  IdeaInv'
    <2> DEFINE asked == Idea!Asked(c)
               patch == Idea!Both(asked, [f \in DOMAIN Idea!Text |-> entry.fields[f]])
    <2>1. Idea!Sends(c, patch, asked, "answered", "patch")
          /\ UNCHANGED <<entry, last, faults, epics>>
      BY <1>3 DEF Idea!Read
    <2> HIDE DEF asked
    <2>2. /\ DOMAIN asked \subseteq DOMAIN patch
          /\ \A f \in DOMAIN patch :
                patch[f] = IF f \notin DOMAIN asked THEN entry.fields[f]
                           ELSE IF f \in NoNames THEN entry.fields[f] \cup asked[f]
                           ELSE asked[f]
      BY DEF Idea!Both, NoNames
    <2> HIDE DEF patch
    <2> QED
      BY <1>0, <2>1, <2>2, CallSends, IdeaQuiet
  <1>4. ASSUME NEW c \in Calls, Idea!NotClosed(c)
        PROVE  IdeaInv'
    <2>1. PICK at \in {"answered", "refused"} :
             Idea!Goes(c, at) /\ UNCHANGED <<entry, last, faults, epics>>
      BY <1>4 DEF Idea!NotClosed
    <2> QED
      BY <2>1, IdeaMoves
  <1>5. ASSUME NEW c \in Calls, Idea!Lookup(c)
        PROVE  IdeaInv'
    <2>1. Idea!Goes(c, "create") /\ UNCHANGED <<entry, last, faults, epics>>
          /\ Idea!Existing = {}
      BY <1>5 DEF Idea!Lookup, Idea!Known
    <2> QED
      BY <2>1, IdeaMoves
  <1>6. ASSUME NEW c \in Calls, NEW ref,
               call' = [call EXCEPT ![c].asked = [ref |-> ref], ![c].at = "link"]
        PROVE  /\ DOMAIN call' = Calls /\ \A e \in Calls \ {c} : call'[e] = call[e]
               /\ CallOK(call'[c], NoNames, NoNames, entry.lock, entry.fields)
               /\ call'[c].at = "link"
    <2>1. /\ DOMAIN call' = Calls /\ \A e \in Calls \ {c} : call'[e] = call[e]
          /\ DOMAIN call'[c] = CallFields /\ call'[c].at = "link"
          /\ call'[c].lock = call[c].lock /\ call'[c].retried = call[c].retried
          /\ call'[c].then = call[c].then /\ call'[c].op = call[c].op
      BY <1>0, <1>6 DEF CallOK, CallFields
    <2>2. CallOK(call'[c], NoNames, NoNames, entry.lock, entry.fields)
      BY <1>0, <2>1 DEF CallOK, PendingPlaces, ClosePlaces
    <2> QED
      BY <2>1, <2>2
  <1>7. ASSUME NEW c \in Calls, Idea!Found(c)
        PROVE  IdeaInv'
    <2>1. UNCHANGED <<entry, last, faults, epics>>
      BY <1>7 DEF Idea!Found
    <2>2. CASE Idea!Goes(c, "answered")
      BY <2>1, <2>2, IdeaMoves
    <2>3. CASE \E d \in Deliveries :
                  call' = [call EXCEPT ![c].asked = [ref |-> d], ![c].at = "link"]
      <3>1. WorkInv(NoNames, NoNames)'
        BY <1>0, <1>6, <2>1, <2>3, CallMoves
      <3> QED
        BY <1>6, <2>1, <2>3, <3>1, IdeaQuiet
    <2> QED
      BY <1>7, <2>2, <2>3 DEF Idea!Found
  <1>8. ASSUME NEW c \in Calls, Idea!Create(c)
        PROVE  IdeaInv'
    <2>1. PICK d \in Deliveries \ Idea!Existing :
             /\ epics' = [epics EXCEPT ![d] = "open"]
             /\ \/ call' = [call EXCEPT ![c].asked = [ref |-> d], ![c].at = "link"]
                \/ Idea!Goes(c, "refused")
      BY <1>8 DEF Idea!Create
    <2>2. /\ call[c].at = "create" /\ UNCHANGED <<entry, last>>
          /\ faults' = [faults EXCEPT
                !.overlapped = faults.overlapped
                                  \/ \E e \in Calls \ {c} : call[e].at = "create"]
      BY <1>8 DEF Idea!Create
    <2>3. /\ faults' \in Faults /\ faults'.replayed = faults.replayed
          /\ faults'.unlocked = faults.unlocked
          /\ ~faults'.overlapped => /\ ~faults.overlapped
                                    /\ \A e \in Calls \ {c} : call[e].at # "create"
      BY <1>0, <2>2 DEF Faults
    <2>4. /\ DOMAIN call' = Calls /\ \A e \in Calls \ {c} : call'[e] = call[e]
          /\ CallOK(call'[c], NoNames, NoNames, entry.lock, entry.fields)
          /\ call'[c].at # "create"
      <3>1. CASE call' = [call EXCEPT ![c].asked = [ref |-> d], ![c].at = "link"]
        BY <1>6, <3>1
      <3>2. CASE Idea!Goes(c, "refused")
        BY <1>0, <3>2, IdeaGoes DEF ClosePlaces
      <3> QED
        BY <2>1, <3>1, <3>2
    <2>5. WorkInv(NoNames, NoNames)'
      BY <1>0, <2>2, <2>3, <2>4, CallMoves
    <2>6. DOMAIN epics' = Deliveries /\ Idea!Existing' \subseteq Idea!Existing \cup {d}
      BY <2>1 DEF IdeaInv, Idea!Existing
    <2>7. OneEpic'
      BY <2>2, <2>3, <2>4, <2>6 DEF IdeaInv, OneEpic
    <2> QED
      BY <2>5, <2>6, <2>7 DEF IdeaInv
  <1>9. ASSUME NEW c \in Calls, Idea!Link(c)
        PROVE  IdeaInv'
    <2>1. Idea!Sends(c, call[c].asked, call[c].asked, "answered", "patch")
          /\ UNCHANGED <<entry, last, faults, epics>>
      BY <1>9 DEF Idea!Link
    <2>2. \A f \in DOMAIN call[c].asked : f \notin NoNames
      BY DEF NoNames
    <2> QED
      BY <1>0, <2>1, <2>2, CallSends, IdeaQuiet
  <1>10. ASSUME NEW c \in Calls, Idea!Patch(c)
         PROVE  IdeaInv'
    BY <1>10, IdeaApplies DEF Idea!Patch
  <1>11. ASSUME NEW c \in Calls, Idea!LookAgain(c)
         PROVE  IdeaInv'
    <2>1. PICK at \in {"answered", "refused"} :
             Idea!Goes(c, at) /\ UNCHANGED <<entry, last, faults, epics>>
      BY <1>11 DEF Idea!LookAgain
    <2> QED
      BY <2>1, IdeaMoves
  <1>12. ASSUME NEW c \in Calls, Idea!Conflict(c) \/ Idea!Reread(c) \/ Idea!Fail(c)
         PROVE  IdeaInv'
    BY <1>0, <1>12, SharedSteps, IdeaQuiet DEF Idea!Conflict, Idea!Reread, Idea!Fail
  <1>13. ASSUME Idea!DeliveryEnds
         PROVE  IdeaInv'
    <2>1. PICK d \in Idea!Existing : epics' = [epics EXCEPT ![d] = "done"]
      BY <1>13 DEF Idea!DeliveryEnds
    <2>2. UNCHANGED <<entry, call, last, faults>>
      BY <1>13 DEF Idea!DeliveryEnds, Idea!wpVars
    <2>3. DOMAIN epics' = Deliveries /\ Idea!Existing' = Idea!Existing
      BY <2>1 DEF IdeaInv, Idea!Existing
    <2>4. WorkInv(NoNames, NoNames)'
      BY <1>0, <2>2 DEF WorkInv
    <2> QED
      BY <2>2, <2>3, <2>4 DEF IdeaInv, OneEpic
  <1> QED
    BY <1>1, <1>2, <1>3, <1>4, <1>5, <1>7, <1>8, <1>9, <1>10, <1>11, <1>12, <1>13
    DEF Idea!Next

(* The invariant says that an idea has one Delivery.                       *)
LEMMA IdeaIsDelivered == IdeaInv => Idea!OneDelivery
  BY DEF IdeaInv, OneEpic, Idea!OneDelivery

(* And that no update of it is lost.                                       *)
LEMMA IdeaIsKept == IdeaInv => Idea!NoUpdateIsLost
  BY DEF IdeaInv, WorkInv, Idea!NoUpdateIsLost

(* The operations that send a PATCH without a lock version: the guided     *)
(* closeout does in some of its steps.                                     *)
FreeOps == {"complete", "demo", "inspect", "review", "close"}

ItemInv == WorkInv(Item!Texts, FreeOps)

(* No call on the item has read or written anything.                       *)
LEMMA ItemInit == Item!Init => ItemInv
  <1> SUFFICES ASSUME Item!Init PROVE ItemInv
    OBVIOUS
  <1>1. PICK fields : Item!WpInit(fields)
    BY DEF Item!Init
  <1>2. Idea!WpInit(fields)
    BY <1>1 DEF Item!WpInit, Idea!WpInit, Item!Idle, Idea!Idle, Item!Nothing, Idea!Nothing
  <1> QED
    BY <1>2, CallsBegin DEF ItemInv

(* Every change of a note or a record keeps what was there.                *)
LEMMA TextsGrow ==
    ASSUME NEW c, NEW now, NEW change,
           (\E op : change \in Item!Changes(c, op, now))
             \/ \E step : change \in Item!CloseChanges(step, now),
           NEW f \in Item!Texts \cap DOMAIN change
    PROVE  now[f] \subseteq change[f]
  <1> DEFINE keeps(ch) == \A g \in Item!Texts \cap DOMAIN ch : now[g] \subseteq ch[g]
  <1>1. \A ch \in Item!ChangedInitiative(now) : keeps(ch)
    <2>1. \A ch \in Item!ChangedInitiative(now) : DOMAIN ch = {"status", "phase"}
      BY DEF Item!ChangedInitiative
    <2> QED
      BY <2>1 DEF Item!Texts
  <1>2. \A other : "notes" \notin DOMAIN other /\ "demo" \notin DOMAIN other
                     /\ "inspect" \notin DOMAIN other =>
                   keeps(Item!Both(other, Item!Noted(c, now)))
    BY DEF Item!Both, Item!Noted, Item!Texts
  <1>3. keeps(Item!Noted(c, now))
    BY DEF Item!Noted, Item!Texts
  <1>4. \A by : /\ keeps([demo |-> now.demo \cup {by}])
                /\ keeps([inspect |-> now.inspect \cup {by}])
    BY DEF Item!Texts
  <1>5. \A s, t : /\ keeps([status |-> s, blocker |-> t]) /\ keeps([phase |-> s])
    BY DEF Item!Texts
  <1>6. \A s, t, u : LET plain == [status |-> s, parking |-> t, blocker |-> u]
                     IN  keeps(Item!Both(plain, Item!Noted(c, now)))
    BY <1>2
  <1>7. \A s, t : keeps(Item!Both([status |-> s, parking |-> t], Item!Noted(c, now)))
    BY <1>2
  <1>8. \A s : /\ keeps(Item!Both([status |-> s], Item!Noted(c, now)))
               /\ keeps(Item!Both([parent |-> s], Item!Noted(c, now)))
    BY <1>2
  <1> HIDE DEF keeps
  <1>9. ASSUME NEW op, change \in Item!Changes(c, op, now)
        PROVE  keeps(change)
    <2>1. \/ change \in Item!ChangedInitiative(now)
          \/ change \in Item!UpdatedItem(c, now) \/ change \in Item!Moved(c, now)
          \/ change \in Item!Blocked(c, now) \/ change \in Item!Cleared(c, now)
          \/ change \in Item!Parked(c, now) \/ change \in Item!Resumed(c, now)
          \/ change \in Item!Completed(c, now) \/ change \in Item!Demonstrated(c, now)
          \/ change \in Item!Inspected(c, now) \/ change \in Item!Reviewed(c, now)
          \/ change \in Item!Projected(c, now)
      BY <1>9 DEF Item!Changes
    <2>2. CASE change \in Item!UpdatedItem(c, now) \/ change \in Item!Moved(c, now)
               \/ change \in Item!Completed(c, now)
      BY <1>8, <2>2 DEF Item!UpdatedItem, Item!Moved, Item!Completed
    <2>3. CASE change \in Item!Blocked(c, now) \/ change \in Item!Cleared(c, now)
      BY <1>5, <2>3 DEF Item!Blocked, Item!Cleared
    <2>4. CASE change \in Item!Parked(c, now) \/ change \in Item!Resumed(c, now)
      BY <1>6, <1>7, <2>4 DEF Item!Parked, Item!Resumed
    <2>5. CASE change \in Item!Demonstrated(c, now) \/ change \in Item!Inspected(c, now)
      BY <1>4, <2>5 DEF Item!Demonstrated, Item!Inspected
    <2>6. CASE change \in Item!Reviewed(c, now) \/ change \in Item!Projected(c, now)
      BY <1>3, <2>6 DEF Item!Reviewed, Item!Projected
    <2> QED
      BY <1>1, <2>1, <2>2, <2>3, <2>4, <2>5, <2>6
  <1>10. ASSUME NEW step, change \in Item!CloseChanges(step, now)
         PROVE  keeps(change)
    BY <1>4, <1>5, <1>10
    DEF Item!CloseChanges, Item!Demonstrated, Item!Inspected, Item!Closings
  <1>11. keeps(change)
    BY <1>9, <1>10
  <1> QED
    BY <1>11 DEF keeps

(* What differs from the read is sent.                                     *)
LEMMA ItemSends ==
    ASSUME ItemInv, NEW c \in Calls, NEW change, NEW locked \in BOOLEAN, NEW then,
           Item!SendsChange(c, change, locked, then),
           \A f \in Item!Texts \cap DOMAIN change : entry.fields[f] \subseteq change[f],
           ~locked => call[c].op \in FreeOps,
           then \in {"answered", "closing", "examine", "compose"},
           then # "answered" => call[c].op = "close"
    PROVE  ItemInv'
  <1> DEFINE now == entry.fields
             sent == [f \in {g \in DOMAIN change :
                               change[g] # now[g] \/ (g = "status" /\ call[c].op = "complete")}
                         |-> change[f]]
             asked == [f \in DOMAIN sent |->
                         IF f \in Item!Texts THEN sent[f] \ now[f] ELSE sent[f]]
  <1>1. /\ UNCHANGED <<entry, last, faults>>
        /\ \/ Item!Goes(c, then)
           \/ Item!Sends(c, sent, asked, then, IF locked THEN "patch" ELSE "unlocked")
    BY DEF Item!SendsChange
  <1>2. WorkInv(Item!Texts, FreeOps) /\ faults \in Faults
    BY DEF ItemInv, WorkInv
  <1>3. CASE Item!Goes(c, then)
    <2>1. Idea!Goes(c, then)
      BY <1>3, ItemGoes
    <2>2. then \notin {"patch", "unlocked", "idle", "reread"}
      OBVIOUS
    <2>3. then \in ClosePlaces => call[c].op = "close"
      BY DEF ClosePlaces
    <2>4. /\ DOMAIN call' = Calls /\ \A e \in Calls \ {c} : call'[e] = call[e]
          /\ CallOK(call'[c], Item!Texts, FreeOps, entry.lock, entry.fields)
      BY <1>2, <2>1, <2>2, <2>3, IdeaGoes
    <2> QED
      BY <1>1, <1>2, <2>4, CallMoves DEF ItemInv
  <1>4. CASE Item!Sends(c, sent, asked, then, IF locked THEN "patch" ELSE "unlocked")
    <2>1. /\ DOMAIN asked = DOMAIN sent
          /\ \A f \in DOMAIN sent : f \in DOMAIN change /\ sent[f] = change[f]
      OBVIOUS
    <2>2. ASSUME NEW f \in DOMAIN sent
          PROVE  sent[f] = IF f \notin DOMAIN asked THEN now[f]
                           ELSE IF f \in Item!Texts THEN now[f] \cup asked[f]
                           ELSE asked[f]
      <3>1. CASE f \in Item!Texts
        <4>1. now[f] \subseteq sent[f] /\ asked[f] = sent[f] \ now[f]
          BY <2>1, <2>2, <3>1
        <4>2. sent[f] = now[f] \cup asked[f]
          BY <4>1
        <4> QED
          BY <2>1, <3>1, <4>2
      <3>2. CASE f \notin Item!Texts
        BY <2>1, <2>2, <3>2
      <3> QED
        BY <3>1, <3>2
    <2> HIDE DEF sent, asked
    <2>3. PICK at \in {"patch", "unlocked"} :
             /\ Idea!Sends(c, sent, asked, then, at)
             /\ at = "unlocked" => call[c].op \in FreeOps
      BY <1>4 DEF Item!Sends, Idea!Sends
    <2> QED
      BY <1>1, <1>2, <2>1, <2>2, <2>3, CallSends DEF ItemInv
  <1> QED
    BY <1>1, <1>3, <1>4

(* The PATCH of an item.                                                   *)
LEMMA ItemApplies ==
    ASSUME ItemInv, NEW c \in Calls, NEW at \in {call[c].then, "refused"},
           Item!Applies(c, at, ~Item!SendsLock(call[c].op) \/ call[c].op = "close",
                        Item!Texts)
    PROVE  ItemInv'
  <1> DEFINE stale == call[c].saw # entry.fields
             unlocked == ~Item!SendsLock(call[c].op) \/ call[c].op = "close"
  <1>1. /\ call[c].at = "patch" /\ call[c].lock = entry.lock
        /\ entry' = [lock |-> entry.lock + 1,
                     fields |-> Idea!Over(call[c].patch, entry.fields)]
        /\ last' = [f \in DOMAIN last |->
                      IF f \notin DOMAIN call[c].asked THEN last[f]
                      ELSE IF f \in Item!Texts THEN last[f] \cup call[c].asked[f]
                      ELSE call[c].asked[f]]
        /\ Idea!Goes(c, at)
    BY ItemGoes DEF Item!Applies, Item!Over, Idea!Over
  <1>2. faults' = [faults EXCEPT
                      !.replayed = faults.replayed \/ (stale /\ call[c].retried),
                      !.unlocked = faults.unlocked \/ (stale /\ unlocked)]
    BY DEF Item!Applies
  <1>3. /\ faults \in Faults /\ WorkInv(Item!Texts, FreeOps) /\ call[c].retried \in BOOLEAN
        /\ CallOK(call[c], Item!Texts, FreeOps, entry.lock, entry.fields)
    BY DEF ItemInv, WorkInv, CallOK
  <1>4. call[c].op \in FreeOps => unlocked
    BY DEF FreeOps, Item!SendsLock
  <1>5. /\ faults' \in Faults
        /\ ~faults'.replayed => ~faults.replayed /\ ~(stale /\ call[c].retried)
        /\ ~faults'.unlocked => ~faults.unlocked /\ ~(stale /\ unlocked)
    <2> HIDE DEF unlocked, stale
    <2> QED
      BY <1>2, <1>3 DEF Faults
  <1>6. /\ at \in {"answered", "refused", "closing", "examine", "compose"}
        /\ at \in ClosePlaces => call[c].op = "close"
    BY <1>3 DEF CallOK, ClosePlaces
  <1>7. /\ DOMAIN call' = Calls /\ \A e \in Calls \ {c} : call'[e] = call[e]
        /\ CallOK(call'[c], Item!Texts, FreeOps, entry.lock, entry.fields)
        /\ call'[c].at \in {"ended", "closing", "examine", "compose"}
    BY <1>1, <1>3, <1>6, IdeaGoes
  <1>8. call'[c].at \notin PendingPlaces
    BY <1>7 DEF PendingPlaces
  <1>9. ~faults'.unlocked => ~faults.unlocked /\ ~(stale /\ call[c].op \in FreeOps)
    BY <1>4, <1>5
  <1> QED
    BY <1>1, <1>3, <1>5, <1>7, <1>8, <1>9, CallApplies DEF ItemInv

(* Every step of the calls on a delivery item keeps the invariant.         *)
LEMMA ItemStep == ItemInv /\ [Item!Next]_(Item!wpVars) => ItemInv'
  <1> SUFFICES ASSUME ItemInv, [Item!Next]_(Item!wpVars) PROVE ItemInv'
    OBVIOUS
  <1>0. /\ WorkInv(Item!Texts, FreeOps) /\ faults \in Faults /\ DOMAIN call = Calls
        /\ entry.lock \in Nat
        /\ \A c \in Calls : CallOK(call[c], Item!Texts, FreeOps, entry.lock, entry.fields)
    BY DEF ItemInv, WorkInv
  <1>1. CASE UNCHANGED Item!wpVars
    BY <1>1 DEF Item!wpVars, ItemInv, WorkInv
  <1>2. ASSUME NEW c \in Calls, Item!Begin(c)
        PROVE  ItemInv'
    <2> DEFINE first(op) == IF op = "close" THEN "demonstrate" ELSE "read"
    <2>1. PICK op :
             /\ call[c].at = "idle" /\ UNCHANGED <<entry, last, faults>>
             /\ call' = [call EXCEPT ![c].op = op, ![c].at = first(op)]
      BY <1>2 DEF Item!Begin
    <2>2. /\ DOMAIN call' = Calls /\ \A e \in Calls \ {c} : call'[e] = call[e]
          /\ DOMAIN call'[c] = CallFields /\ call'[c].at = first(op) /\ call'[c].op = op
          /\ call'[c].lock = call[c].lock /\ call'[c].retried = call[c].retried
          /\ call'[c].then = call[c].then
      BY <1>0, <2>1 DEF CallOK, CallFields
    <2>3. CallOK(call'[c], Item!Texts, FreeOps, entry.lock, entry.fields)
      BY <1>0, <2>1, <2>2 DEF CallOK, PendingPlaces, ClosePlaces
    <2> QED
      BY <1>0, <2>1, <2>2, <2>3, CallMoves DEF ItemInv
  <1>3. ASSUME NEW c \in Calls, Item!Read(c)
        PROVE  ItemInv'
    <2>1. PICK change \in Item!Changes(c, call[c].op, entry.fields) :
             Item!SendsChange(c, change, Item!SendsLock(call[c].op), "answered")
      BY <1>3 DEF Item!Read
    <2>2. \A f \in Item!Texts \cap DOMAIN change : entry.fields[f] \subseteq change[f]
      BY TextsGrow
    <2>3. /\ Item!SendsLock(call[c].op) \in BOOLEAN
          /\ ~Item!SendsLock(call[c].op) => call[c].op \in FreeOps
      BY DEF Item!SendsLock, FreeOps
    <2> QED
      BY <2>1, <2>2, <2>3, ItemSends
  <1>4. ASSUME NEW c \in Calls, Item!CloseStep(c)
        PROVE  ItemInv'
    <2>1. PICK step, change :
             /\ step \in DOMAIN Item!After
             /\ change \in Item!CloseChanges(step, entry.fields)
             /\ call[c].at = step
             /\ Item!SendsChange(c, change, step = "closing", Item!After[step])
      BY <1>4 DEF Item!CloseStep
    <2>2. \A f \in Item!Texts \cap DOMAIN change : entry.fields[f] \subseteq change[f]
      BY <2>1, TextsGrow
    <2>3. step \in ClosePlaces /\ Item!After[step] \in {"closing", "examine", "compose"}
      BY <2>1 DEF Item!After, ClosePlaces
    <2>4. call[c].op = "close" /\ call[c].op \in FreeOps
      BY <1>0, <2>1, <2>3 DEF CallOK, FreeOps
    <2>5. (step = "closing") \in BOOLEAN
      OBVIOUS
    <2> QED
      BY <2>1, <2>2, <2>3, <2>4, <2>5, ItemSends
  <1>5. ASSUME NEW c \in Calls, Item!Compose(c)
        PROVE  ItemInv'
    <2>1. /\ call[c].at = "compose" /\ UNCHANGED <<entry, last, faults>>
          /\ call' = [call EXCEPT ![c].saw = entry.fields, ![c].at = "finish"]
      BY <1>5 DEF Item!Compose
    <2>2. /\ DOMAIN call' = Calls /\ \A e \in Calls \ {c} : call'[e] = call[e]
          /\ DOMAIN call'[c] = CallFields /\ call'[c].at = "finish"
          /\ call'[c].op = call[c].op
          /\ call'[c].lock = call[c].lock /\ call'[c].retried = call[c].retried
          /\ call'[c].then = call[c].then
      BY <1>0, <2>1 DEF CallOK, CallFields
    <2>3. CallOK(call'[c], Item!Texts, FreeOps, entry.lock, entry.fields)
      BY <1>0, <2>1, <2>2 DEF CallOK, PendingPlaces, ClosePlaces
    <2> QED
      BY <1>0, <2>1, <2>2, <2>3, CallMoves DEF ItemInv
  <1>6. ASSUME NEW c \in Calls, Item!Finish(c)
        PROVE  ItemInv'
    <2> DEFINE asked == [status |-> "done", notes |-> {c}]
               patch == Item!Both([status |-> "done"], Item!Noted(c, call[c].saw))
    <2>1. /\ call[c].at = "finish" /\ UNCHANGED <<entry, last, faults>>
          /\ call' = [call EXCEPT ![c].patch = patch, ![c].asked = asked,
                                  ![c].lock = entry.lock, ![c].then = "answered",
                                  ![c].at = "patch"]
      BY <1>6 DEF Item!Finish
    <2>2. /\ DOMAIN asked = {"status", "notes"} /\ DOMAIN patch = {"status", "notes"}
          /\ patch.status = "done" /\ asked.status = "done"
          /\ patch.notes = call[c].saw.notes \cup asked.notes
      BY DEF Item!Both, Item!Noted
    <2> HIDE DEF asked, patch
    <2>3. /\ DOMAIN call' = Calls /\ \A e \in Calls \ {c} : call'[e] = call[e]
          /\ DOMAIN call'[c] = CallFields /\ call'[c].at = "patch"
          /\ call'[c].retried = call[c].retried /\ call'[c].then = "answered"
          /\ call'[c].lock = entry.lock /\ call'[c].patch = patch
          /\ call'[c].asked = asked /\ call'[c].saw = call[c].saw
          /\ call'[c].op = call[c].op
      BY <1>0, <2>1 DEF CallOK, CallFields
    <2>4. PatchIsRight(call'[c], Item!Texts)
      BY <2>2, <2>3 DEF PatchIsRight, Item!Texts
    <2>5. call[c].op \in FreeOps
      BY <1>0, <2>1 DEF CallOK, ClosePlaces, FreeOps
    <2>6. CallOK(call'[c], Item!Texts, FreeOps, entry.lock, entry.fields)
      BY <1>0, <2>3, <2>4, <2>5 DEF CallOK, ClosePlaces
    <2> QED
      BY <1>0, <2>1, <2>3, <2>6, CallMoves DEF ItemInv
  <1>7. ASSUME NEW c \in Calls, Item!Patch(c)
        PROVE  ItemInv'
    BY <1>7, ItemApplies DEF Item!Patch
  <1>8. ASSUME NEW c \in Calls,
               \/ Item!TakeLock(c) \/ Item!Conflict(c) \/ Item!Rereads(c) \/ Item!Fails(c)
        PROVE  ItemInv'
    <2>1. \/ Idea!TakeLock(c) \/ Idea!Conflicts(c, TRUE) \/ Idea!Rereads(c)
          \/ Idea!Fails(c)
      BY <1>8, ItemGoes
      DEF Item!TakeLock, Idea!TakeLock, Item!Conflict, Item!Conflicts, Idea!Conflicts,
          Item!Rereads, Idea!Rereads, Item!Fails, Idea!Fails, Item!Refused, Idea!Refused
    <2> QED
      BY <1>0, <2>1, SharedSteps DEF ItemInv
  <1>9. ASSUME NEW c \in Calls, Item!Rebuild(c)
        PROVE  ItemInv'
    <2>1. UNCHANGED <<entry, last, faults>>
      BY <1>9 DEF Item!Rebuild
    <2>2. CASE Item!Goes(c, "refused")
      <3>1. Idea!Goes(c, "refused") /\ "refused" \notin ClosePlaces
        BY <2>2, ItemGoes DEF ClosePlaces
      <3>2. /\ DOMAIN call' = Calls /\ \A e \in Calls \ {c} : call'[e] = call[e]
            /\ CallOK(call'[c], Item!Texts, FreeOps, entry.lock, entry.fields)
        BY <1>0, <3>1, IdeaGoes
      <3> QED
        BY <1>0, <2>1, <3>2, CallMoves DEF ItemInv
    <2>3. CASE call' = [call EXCEPT ![c].retried = TRUE, ![c].at = "read"]
      <3>1. /\ DOMAIN call' = Calls /\ \A e \in Calls \ {c} : call'[e] = call[e]
            /\ DOMAIN call'[c] = CallFields /\ call'[c].at = "read"
            /\ call'[c].op = call[c].op
            /\ call'[c].lock = call[c].lock /\ call'[c].retried = TRUE
            /\ call'[c].then = call[c].then
        BY <1>0, <2>3 DEF CallOK, CallFields
      <3>2. call'[c].retried \in BOOLEAN
        BY <3>1
      <3>3. CallOK(call'[c], Item!Texts, FreeOps, entry.lock, entry.fields)
        BY <1>0, <3>1, <3>2 DEF CallOK, PendingPlaces, ClosePlaces
      <3> QED
        BY <1>0, <2>1, <3>1, <3>3, CallMoves DEF ItemInv
    <2> QED
      BY <1>9, <2>2, <2>3 DEF Item!Rebuild
  <1> QED
    BY <1>1, <1>2, <1>3, <1>4, <1>5, <1>6, <1>7, <1>8, <1>9 DEF Item!Next

(* The invariant says that no update of an item is lost.                   *)
LEMMA ItemIsKept == ItemInv => Idea!NoUpdateIsLost
  BY DEF ItemInv, WorkInv, Idea!NoUpdateIsLost

-----------------------------------------------------------------------------
(* Proposals.  A command or resolution commits at the version after the    *)
(* one it was submitted against, and both are written once: the request    *)
(* when it has none, the record under the lock of that version.  Whoever   *)
(* finds it in the record therefore knows its commit.                      *)

Changing == Commands \cup Resolutions

EntryFields == {"version", "status", "route", "gate", "handoff", "last",
                "receipts", "resolved", "delivery"}

(* What a copy of the record tells of its last command and resolution.     *)
EntryOK(r, requests, done) ==
    /\ DOMAIN r = EntryFields /\ r.version \in Nat
    /\ r.last \in Commands => <<r.last, requests[r.last].version + 1>> \in done
    /\ r.resolved \in Resolutions =>
          <<r.resolved, requests[r.resolved].version + 1>> \in done

EventOK(e, done) == e.id \in Changing => <<e.id, e.version>> \in done

WriterOK(my, requests, done) ==
    /\ DOMAIN my = {"at", "id", "record", "event", "epic"}
    /\ EntryOK(my.record, requests, done)
    /\ my.at = "mutate" =>
          /\ my.id \in Changing /\ requests[my.id] # Proposal!NoRequest
          /\ my.record.version = requests[my.id].version
    /\ my.at \in {"lookup", "create", "backlink", "failed", "applied"} => my.id \in Applications
    /\ my.at = "event" => EventOK(my.event, done)

RequestsOK(requests) ==
    /\ DOMAIN requests = Proposal!Ids
    /\ \A i \in Proposal!Ids : requests[i].version \in Nat
    /\ \A i \in Changing : requests[i].op # "apply"

CommitsOK(requests, done) ==
    \A i \in Changing : \A v :
        <<i, v>> \in done =>
            requests[i] # Proposal!NoRequest /\ v = requests[i].version + 1

ProposalInv ==
    /\ RequestsOK(request) /\ CommitsOK(request, commits)
    /\ EntryOK(entry, request, commits)
    /\ DOMAIN call = Writers
    /\ \A c \in Writers : WriterOK(call[c], request, commits)
    /\ \A e \in activity : EventOK(e, commits)

(* A commit more takes nothing from what is known.                         *)
LEMMA MoreCommits ==
    ASSUME NEW requests, NEW done, NEW more, done \subseteq more
    PROVE  /\ \A r : EntryOK(r, requests, done) => EntryOK(r, requests, more)
           /\ \A e : EventOK(e, done) => EventOK(e, more)
           /\ \A my : WriterOK(my, requests, done) => WriterOK(my, requests, more)
  BY DEF EntryOK, EventOK, WriterOK

(* The record of a new Proposal and an idle call tell of nothing.          *)
LEMMA FirstEntry ==
    ASSUME NEW requests, NEW done
    PROVE  /\ EntryOK(Proposal!FirstRecord, requests, done)
           /\ WriterOK(Proposal!Idle, requests, done)
  <1>1. EntryOK(Proposal!FirstRecord, requests, done)
    BY IdsAssumption DEF EntryOK, EntryFields, Proposal!FirstRecord, Proposal!None, None
  <1> QED
    BY <1>1 DEF WriterOK, Proposal!Idle

(* The invariant holds of a new Proposal.                                  *)
LEMMA ProposalInit == Proposal!Init => ProposalInv
  <1> SUFFICES ASSUME Proposal!Init PROVE ProposalInv
    OBVIOUS
  <1>1. RequestsOK(request) /\ CommitsOK(request, commits)
    BY DEF Proposal!Init, RequestsOK, CommitsOK, Proposal!NoRequest, Proposal!None,
           Changing, Proposal!Ids
  <1>2. DOMAIN call = Writers /\ \A c \in Writers : call[c] = Proposal!Idle
    BY DEF Proposal!Init
  <1>3. entry = Proposal!FirstRecord /\ activity = {}
    BY DEF Proposal!Init
  <1> QED
    BY <1>1, <1>2, <1>3, FirstEntry DEF ProposalInv

(* A request is written where there is none that a commit is of.           *)
LEMMA SubmitKeeps ==
    ASSUME ProposalInv, NEW i \in Proposal!Ids, NEW op \in Proposal!Operations(i),
           Proposal!Submit(i, op)
    PROVE  ProposalInv'
  <1>1. /\ UNCHANGED <<entry, activity, call, commits>>
        /\ DOMAIN request = Proposal!Ids
        /\ request[i] = Proposal!NoRequest \/ request[i].op = "apply"
        /\ request' = [request EXCEPT ![i] = [op |-> op, version |-> entry.version,
                          status |-> entry.status, packet |-> entry.handoff.packet]]
    BY DEF Proposal!Submit, ProposalInv, RequestsOK
  <1>2. /\ DOMAIN request' = Proposal!Ids /\ request'[i].op = op
        /\ request'[i].version = entry.version
        /\ \A k \in Proposal!Ids \ {i} : request'[k] = request[k]
    BY <1>1
  <1>3. entry.version \in Nat
    BY DEF ProposalInv, EntryOK
  <1>4. i \in Changing => op # "apply"
    BY DEF Changing, Proposal!Operations
  <1>5. i \in Changing => request[i] = Proposal!NoRequest
    BY <1>1 DEF ProposalInv, RequestsOK
  <1>6. RequestsOK(request')
    BY <1>2, <1>3, <1>4 DEF ProposalInv, RequestsOK, Changing, Proposal!Ids
  <1>7. \A k \in Changing : \A v : <<k, v>> \in commits =>
            k \in Proposal!Ids /\ request'[k] = request[k]
    BY <1>2, <1>5 DEF ProposalInv, CommitsOK, Changing, Proposal!Ids
  <1>8. CommitsOK(request', commits)
    BY <1>7 DEF ProposalInv, CommitsOK
  <1>9. \A r : EntryOK(r, request, commits) => EntryOK(r, request', commits)
    <2> SUFFICES ASSUME NEW r, EntryOK(r, request, commits)
                 PROVE  EntryOK(r, request', commits)
      OBVIOUS
    <2>1. r.last \in Commands => request'[r.last] = request[r.last]
      BY <1>7 DEF EntryOK, Changing
    <2>2. r.resolved \in Resolutions => request'[r.resolved] = request[r.resolved]
      BY <1>7 DEF EntryOK, Changing
    <2> QED
      BY <2>1, <2>2 DEF EntryOK
  <1>10. ASSUME NEW c \in Writers PROVE WriterOK(call[c], request', commits)
    <2>1. WriterOK(call[c], request, commits)
      BY DEF ProposalInv
    <2>2. call[c].at = "mutate" =>
              call[c].id \in Proposal!Ids /\ request'[call[c].id] = request[call[c].id]
      BY <1>2, <1>5, <2>1 DEF WriterOK, Changing, Proposal!Ids
    <2> QED
      BY <1>9, <2>1, <2>2 DEF WriterOK
  <1> QED
    BY <1>1, <1>6, <1>8, <1>9, <1>10 DEF ProposalInv

(* A call that reads, or ends, or goes to its next place, tells the truth  *)
(* when the call it becomes does.                                          *)
LEMMA WriterMoves ==
    ASSUME ProposalInv, NEW c \in Writers, NEW my, Proposal!Go(c, my),
           WriterOK(my, request, commits), UNCHANGED <<request, commits>>,
           EntryOK(entry', request, commits),
           \A e \in activity' : EventOK(e, commits)
    PROVE  ProposalInv'
  <1>1. /\ DOMAIN call' = Writers /\ call'[c] = my
        /\ \A d \in Writers \ {c} : call'[d] = call[d]
    BY DEF ProposalInv, Proposal!Go
  <1> QED
    BY <1>1 DEF ProposalInv

(* A patch that is accepted commits its call at the next version.          *)
LEMMA PatchCommits ==
    ASSUME ProposalInv, NEW c \in Writers, NEW next, NEW then, Proposal!Patch(c, next, then),
           \/ call[c].at = "mutate"
           \/ call[c].at \in {"failed", "applied"},
           DOMAIN then = DOMAIN call[c], then.at = "event",
           then.event.id = call[c].id, then.event.version = call[c].record.version + 1,
           DOMAIN next = EntryFields,
           next.last = call[c].record.last \/ next.last = call[c].id,
           next.resolved = call[c].record.resolved \/ next.resolved = call[c].id
    PROVE  ProposalInv'
  <1> DEFINE i == call[c].id
             v == entry.version + 1
             more == commits \cup {<<i, v>>}
  <1>0. WriterOK(call[c], request, commits) /\ DOMAIN call = Writers
    BY DEF ProposalInv
  <1>1. CASE Proposal!Go(c, Proposal!Idle) /\ UNCHANGED <<entry, activity, request, commits>>
    <2>1. WriterOK(Proposal!Idle, request, commits)
      BY FirstEntry
    <2> QED
      BY <1>1, <2>1, WriterMoves DEF ProposalInv
  <1>2. CASE /\ entry.version = call[c].record.version
             /\ entry' = [next EXCEPT !.version = entry.version + 1]
             /\ commits' = more
             /\ \/ Proposal!Go(c, [then EXCEPT !.record = entry'])
                \/ Proposal!Go(c, Proposal!Idle)
             /\ UNCHANGED <<activity, request>>
    <2>1. /\ DOMAIN entry' = EntryFields /\ entry'.version = v /\ v \in Nat
          /\ entry'.last = next.last /\ entry'.resolved = next.resolved
      BY <1>2 DEF EntryFields, ProposalInv, EntryOK
    <2>2. i \in Changing => v = request[i].version + 1 /\ request[i] # Proposal!NoRequest
      BY <1>0, <1>2, IdsAssumption DEF WriterOK, Changing
    <2>3. CommitsOK(request, more)
      BY <2>2 DEF ProposalInv, CommitsOK
    <2>4. EntryOK(entry', request, more)
      <3>1. EntryOK(call[c].record, request, commits)
        BY <1>0 DEF WriterOK
      <3>2. entry'.last \in Commands =>
                <<entry'.last, request[entry'.last].version + 1>> \in more
        BY <2>1, <2>2, <3>1 DEF EntryOK, Changing
      <3>3. entry'.resolved \in Resolutions =>
                <<entry'.resolved, request[entry'.resolved].version + 1>> \in more
        BY <2>1, <2>2, <3>1 DEF EntryOK, Changing
      <3> QED
        BY <2>1, <3>2, <3>3 DEF EntryOK
    <2>5. \A d \in Writers : WriterOK(call[d], request, more)
      BY MoreCommits DEF ProposalInv
    <2>6. \A e \in activity : EventOK(e, more)
      BY MoreCommits DEF ProposalInv
    <2>7. WriterOK(Proposal!Idle, request, more)
      BY FirstEntry
    <2>8. WriterOK([then EXCEPT !.record = entry'], request, more)
      <3> DEFINE my == [then EXCEPT !.record = entry']
      <3>1. /\ DOMAIN my = {"at", "id", "record", "event", "epic"} /\ my.at = "event"
            /\ my.record = entry' /\ my.event = then.event
        BY <1>0 DEF WriterOK
      <3> HIDE DEF my
      <3>2. EventOK(my.event, more)
        BY <1>2, <3>1 DEF EventOK
      <3> QED
        BY <2>4, <3>1, <3>2 DEF WriterOK, my
    <2>9. ASSUME NEW d \in Writers PROVE WriterOK(call'[d], request, more)
      BY <1>0, <1>2, <2>5, <2>7, <2>8 DEF Proposal!Go
    <2>10. DOMAIN call' = Writers
      BY <1>0, <1>2 DEF Proposal!Go
    <2> HIDE DEF more
    <2> QED
      BY <1>2, <2>3, <2>4, <2>6, <2>9, <2>10 DEF ProposalInv
  <1> QED
    BY <1>1, <1>2 DEF Proposal!Patch

(* What a command, a resolution and an application write.                  *)
LEMMA WrittenEntries ==
    ASSUME NEW i, NEW r, NEW epic, DOMAIN r = EntryFields
    PROVE  /\ LET next == Proposal!ApplyProposalCommandToState(i, r) IN
                 DOMAIN next = EntryFields /\ next.last = i /\ next.resolved = r.resolved
           /\ LET next == Proposal!ResolvedState(i, r) IN
                 DOMAIN next = EntryFields /\ next.last = r.last /\ next.resolved = i
           /\ LET next == Proposal!ApplyHandoffToState(i, r, epic) IN
                 DOMAIN next = EntryFields /\ next.last = r.last /\ next.resolved = r.resolved
           /\ LET next == Proposal!ApplyHandoffFailureToState(i, r) IN
                 DOMAIN next = EntryFields /\ next.last = r.last /\ next.resolved = r.resolved
  <1>1. LET next == Proposal!ResolvedState(i, r) IN
           DOMAIN next = EntryFields /\ next.last = r.last /\ next.resolved = i
    BY DEF Proposal!ResolvedState, EntryFields
  <1>2. LET next == Proposal!ApplyHandoffToState(i, r, epic) IN
           DOMAIN next = EntryFields /\ next.last = r.last /\ next.resolved = r.resolved
    BY DEF Proposal!ApplyHandoffToState, EntryFields
  <1>3. LET next == Proposal!ApplyHandoffFailureToState(i, r) IN
           DOMAIN next = EntryFields /\ next.last = r.last /\ next.resolved = r.resolved
    BY DEF Proposal!ApplyHandoffFailureToState, EntryFields
  <1>4. LET next == Proposal!ApplyProposalCommandToState(i, r) IN
           DOMAIN next = EntryFields /\ next.last = i /\ next.resolved = r.resolved
    <2> DEFINE kept == [r EXCEPT !.last = i, !.receipts = Proposal!Received(r, i)]
    <2>1. DOMAIN kept = EntryFields /\ kept.last = i /\ kept.resolved = r.resolved
      BY DEF EntryFields
    <2> HIDE DEF kept
    <2>2. CASE request[i].op = "triage"
      <3>1. Proposal!ApplyProposalCommandToState(i, r) = [kept EXCEPT !.status = "triaged"]
        BY <2>2 DEF Proposal!ApplyProposalCommandToState, kept
      <3> QED
        BY <2>1, <3>1 DEF EntryFields
    <2>3. CASE request[i].op \in {"ready", "block"}
      <3>1. PICK handoff : Proposal!ApplyProposalCommandToState(i, r) =
                               [kept EXCEPT !.status = "accepted", !.handoff = handoff]
        BY <2>3 DEF Proposal!ApplyProposalCommandToState, kept
      <3> QED
        BY <2>1, <3>1 DEF EntryFields
    <2>4. CASE request[i].op \notin {"triage", "ready", "block"}
      <3> DEFINE status == IF request[i].op = "park" THEN "parked" ELSE "accepted"
                 route == Proposal!Route(request[i].op)
      <3>1. Proposal!ApplyProposalCommandToState(i, r) =
                [kept EXCEPT !.status = status, !.route = route.target, !.gate = route.gate,
                             !.handoff = Proposal!NoHandoff]
        BY <2>4 DEF Proposal!ApplyProposalCommandToState, kept
      <3> HIDE DEF status, route
      <3> QED
        BY <2>1, <3>1 DEF EntryFields
    <2> QED
      BY <2>2, <2>3, <2>4
  <1> QED
    BY <1>1, <1>2, <1>3, <1>4

(* A command or resolution that was submitted for the record as it is.     *)
Current(i) ==
    /\ i \in Changing /\ request[i] # Proposal!NoRequest
    /\ entry.version = request[i].version

(* A call that begins tells what the record tells, and one that goes on to *)
(* its Epic what it told.                                                  *)
LEMMA Reading ==
    ASSUME ProposalInv, NEW i, NEW event
    PROVE  LET reading == [Proposal!Idle EXCEPT !.id = i, !.record = entry] IN
           /\ EventOK(event, commits) =>
                 WriterOK([reading EXCEPT !.at = "event", !.event = event], request, commits)
           /\ Current(i) => WriterOK([reading EXCEPT !.at = "mutate"], request, commits)
           /\ i \in Applications =>
                 /\ WriterOK([reading EXCEPT !.at = "lookup"], request, commits)
                 /\ \A epic : WriterOK([reading EXCEPT !.at = "applied", !.epic = epic],
                                       request, commits)
  <1> DEFINE reading == [Proposal!Idle EXCEPT !.id = i, !.record = entry]
             one == [reading EXCEPT !.at = "event", !.event = event]
             two == [reading EXCEPT !.at = "mutate"]
             three == [reading EXCEPT !.at = "lookup"]
             four(epic) == [reading EXCEPT !.at = "applied", !.epic = epic]
  <1>1. DOMAIN reading = {"at", "id", "record", "event", "epic"} /\ reading.id = i
        /\ reading.record = entry
    BY DEF Proposal!Idle
  <1> HIDE DEF reading
  <1>2. /\ DOMAIN one = {"at", "id", "record", "event", "epic"} /\ one.id = i
        /\ one.record = entry /\ one.at = "event" /\ one.event = event
    BY <1>1
  <1>3. /\ DOMAIN two = {"at", "id", "record", "event", "epic"} /\ two.id = i
        /\ two.record = entry /\ two.at = "mutate"
    BY <1>1
  <1>4. /\ DOMAIN three = {"at", "id", "record", "event", "epic"} /\ three.id = i
        /\ three.record = entry /\ three.at = "lookup"
    BY <1>1
  <1>9. \A epic : /\ DOMAIN four(epic) = {"at", "id", "record", "event", "epic"}
                  /\ four(epic).id = i
                  /\ four(epic).record = entry /\ four(epic).at = "applied"
    BY <1>1
  <1>5. EntryOK(entry, request, commits)
    BY DEF ProposalInv
  <1> HIDE DEF one, two, three, four
  <1>6. EventOK(event, commits) => WriterOK(one, request, commits)
    BY <1>2, <1>5 DEF WriterOK
  <1>7. Current(i) => WriterOK(two, request, commits)
    BY <1>3, <1>5 DEF WriterOK, Current
  <1>8. i \in Applications => WriterOK(three, request, commits)
    BY <1>4, <1>5 DEF WriterOK
  <1>10. i \in Applications => \A epic : WriterOK(four(epic), request, commits)
    BY <1>5, <1>9 DEF WriterOK
  <1> QED
    BY <1>6, <1>7, <1>8, <1>10 DEF reading, one, two, three, four

(* A hand-off that goes on to its next await keeps what it has read.       *)
LEMMA GoingOn ==
    ASSUME NEW my, WriterOK(my, request, commits), my.id \in Applications,
           NEW at \in {"applied", "backlink", "create", "failed"},
           NEW epic, NEW r, EntryOK(r, request, commits)
    PROVE  /\ WriterOK([my EXCEPT !.at = at], request, commits)
           /\ WriterOK([my EXCEPT !.at = at, !.epic = epic], request, commits)
           /\ WriterOK([my EXCEPT !.at = at, !.record = r], request, commits)
  <1> DEFINE one == [my EXCEPT !.at = at]
             two == [my EXCEPT !.at = at, !.epic = epic]
             three == [my EXCEPT !.at = at, !.record = r]
  <1>1. /\ DOMAIN one = {"at", "id", "record", "event", "epic"} /\ one.id = my.id
        /\ one.record = my.record /\ one.at = at
    BY DEF WriterOK
  <1>2. /\ DOMAIN two = {"at", "id", "record", "event", "epic"} /\ two.id = my.id
        /\ two.record = my.record /\ two.at = at
    BY DEF WriterOK
  <1>3. /\ DOMAIN three = {"at", "id", "record", "event", "epic"} /\ three.id = my.id
        /\ three.record = r /\ three.at = at
    BY DEF WriterOK
  <1>4. EntryOK(my.record, request, commits)
    BY DEF WriterOK
  <1> HIDE DEF one, two, three
  <1>5. WriterOK(one, request, commits)
    BY <1>1, <1>4 DEF WriterOK
  <1>6. WriterOK(two, request, commits)
    BY <1>2, <1>4 DEF WriterOK
  <1>7. WriterOK(three, request, commits)
    BY <1>3 DEF WriterOK
  <1> QED
    BY <1>5, <1>6, <1>7 DEF one, two, three

(* Every step of a proposal keeps the invariant.                           *)
LEMMA ProposalStep == ProposalInv /\ [Proposal!Next]_(Proposal!vars) => ProposalInv'
  <1> SUFFICES ASSUME ProposalInv, [Proposal!Next]_(Proposal!vars) PROVE ProposalInv'
    OBVIOUS
  <1>0. /\ EntryOK(entry, request, commits) /\ DOMAIN call = Writers
        /\ \A c \in Writers : WriterOK(call[c], request, commits)
        /\ \A e \in activity : EventOK(e, commits)
    BY DEF ProposalInv
  <1>1. CASE UNCHANGED Proposal!vars
    BY <1>1 DEF Proposal!vars, ProposalInv
  <1>2. CASE \E i \in Proposal!Ids : \E op \in Proposal!Operations(i) : Proposal!Submit(i, op)
    BY <1>2, SubmitKeeps
  <1>4. ASSUME NEW c \in Writers, NEW i \in Proposal!Ids, Proposal!ApplyCommand(c, i)
        PROVE  ProposalInv'
    <2> DEFINE event == Proposal!ReplayedEvent(i, entry)
               reading == [Proposal!Idle EXCEPT !.id = i, !.record = entry]
    <2>1. /\ i \in Commands /\ request[i] # Proposal!NoRequest
          /\ UNCHANGED <<entry, activity, epics, request, commits>>
          /\ \/ /\ entry.last = i
                /\ Proposal!Go(c, [reading EXCEPT !.at = "event", !.event = event])
             \/ /\ Proposal!SourceIsCurrent(i, entry)
                /\ Proposal!Go(c, [reading EXCEPT !.at = "mutate"])
      BY <1>4 DEF Proposal!ApplyCommand
    <2>2. entry.last = i => EventOK(event, commits)
      BY <1>0, <2>1 DEF EventOK, EntryOK, Proposal!ReplayedEvent, Proposal!Event
    <2>3. Proposal!SourceIsCurrent(i, entry) => Current(i)
      BY <2>1 DEF Current, Changing, Proposal!SourceIsCurrent
    <2> HIDE DEF event
    <2>4. /\ entry.last = i =>
                WriterOK([reading EXCEPT !.at = "event", !.event = event], request, commits)
          /\ Proposal!SourceIsCurrent(i, entry) =>
                WriterOK([reading EXCEPT !.at = "mutate"], request, commits)
      BY <2>1, <2>2, <2>3, Reading
    <2> HIDE DEF reading
    <2> QED
      BY <1>0, <2>1, <2>4, WriterMoves
  <1>5. ASSUME NEW c \in Writers, NEW i \in Proposal!Ids, Proposal!ResolveRepositoryGate(c, i)
        PROVE  ProposalInv'
    <2> DEFINE event == Proposal!ReplayedEvent(i, entry)
               reading == [Proposal!Idle EXCEPT !.id = i, !.record = entry]
    <2>1. /\ i \in Resolutions /\ request[i] # Proposal!NoRequest
          /\ UNCHANGED <<entry, activity, epics, request, commits>>
          /\ \/ /\ entry.resolved = i
                /\ Proposal!Go(c, [reading EXCEPT !.at = "event", !.event = event])
             \/ /\ Proposal!SourceIsCurrent(i, entry)
                /\ Proposal!Go(c, [reading EXCEPT !.at = "mutate"])
      BY <1>5 DEF Proposal!ResolveRepositoryGate
    <2>2. entry.resolved = i => EventOK(event, commits)
      BY <1>0, <2>1 DEF EventOK, EntryOK, Proposal!ReplayedEvent, Proposal!Event
    <2>3. Proposal!SourceIsCurrent(i, entry) => Current(i)
      BY <2>1 DEF Current, Changing, Proposal!SourceIsCurrent
    <2> HIDE DEF event
    <2>4. /\ entry.resolved = i =>
                WriterOK([reading EXCEPT !.at = "event", !.event = event], request, commits)
          /\ Proposal!SourceIsCurrent(i, entry) =>
                WriterOK([reading EXCEPT !.at = "mutate"], request, commits)
      BY <2>1, <2>2, <2>3, Reading
    <2> HIDE DEF reading
    <2> QED
      BY <1>0, <2>1, <2>4, WriterMoves
  <1>6. ASSUME NEW c \in Writers, NEW i \in Proposal!Ids, Proposal!ApplyHandoff(c, i)
        PROVE  ProposalInv'
    <2> DEFINE event == Proposal!Event(i, "accepted", entry.version)
               reading == [Proposal!Idle EXCEPT !.id = i, !.record = entry]
    <2>1. /\ i \in Applications /\ UNCHANGED <<entry, activity, epics, request, commits>>
          /\ \/ Proposal!Go(c, [reading EXCEPT !.at = "event", !.event = event])
             \/ Proposal!Go(c, [reading EXCEPT !.at = "lookup"])
      BY <1>6 DEF Proposal!ApplyHandoff
    <2>2. EventOK(event, commits)
      BY <2>1, IdsAssumption DEF EventOK, Proposal!Event, Changing
    <2> HIDE DEF event
    <2>3. /\ WriterOK([reading EXCEPT !.at = "event", !.event = event], request, commits)
          /\ WriterOK([reading EXCEPT !.at = "lookup"], request, commits)
      BY <2>1, <2>2, Reading
    <2> HIDE DEF reading
    <2> QED
      BY <1>0, <2>1, <2>3, WriterMoves
  <1>3. ASSUME NEW c \in Writers, NEW i \in Proposal!Ids,
               Proposal!AcknowledgePrototypeHandoff(c, i)
        PROVE  ProposalInv'
    <2> DEFINE event == Proposal!Event(i, "accepted", entry.version)
               epic == Proposal!Prototype
               reading == [Proposal!Idle EXCEPT !.id = i, !.record = entry]
    <2>1. /\ i \in Applications /\ UNCHANGED <<entry, activity, epics, request, commits>>
          /\ \/ Proposal!Go(c, [reading EXCEPT !.at = "event", !.event = event])
             \/ Proposal!Go(c, [reading EXCEPT !.at = "applied", !.epic = epic])
      BY <1>3 DEF Proposal!AcknowledgePrototypeHandoff
    <2>2. EventOK(event, commits)
      BY <2>1, IdsAssumption DEF EventOK, Proposal!Event, Changing
    <2> HIDE DEF event, epic
    <2>3. /\ WriterOK([reading EXCEPT !.at = "event", !.event = event], request, commits)
          /\ WriterOK([reading EXCEPT !.at = "applied", !.epic = epic], request, commits)
      BY <2>1, <2>2, Reading
    <2> HIDE DEF reading
    <2> QED
      BY <1>0, <2>1, <2>3, WriterMoves
  <1>7. ASSUME NEW c \in Writers,
               Proposal!MutateByCommand(c) \/ Proposal!MutateByResolution(c)
        PROVE  ProposalInv'
    <2> DEFINE i == call[c].id
               r == call[c].record
               then == [call[c] EXCEPT !.at = "event",
                            !.event = Proposal!Event(i, "accepted", r.version + 1)]
    <2>1. DOMAIN r = EntryFields /\ call[c].at = "mutate"
      BY <1>0, <1>7 DEF WriterOK, EntryOK, Proposal!MutateByCommand, Proposal!MutateByResolution
    <2>2. /\ DOMAIN then = DOMAIN call[c] /\ then.at = "event"
          /\ then.event.id = i /\ then.event.version = r.version + 1
      BY <1>0 DEF WriterOK, Proposal!Event
    <2>3. \/ Proposal!Patch(c, Proposal!ApplyProposalCommandToState(i, r), then)
          \/ Proposal!Patch(c, Proposal!ResolvedState(i, r), then)
      BY <1>7 DEF Proposal!MutateByCommand, Proposal!MutateByResolution
    <2> HIDE DEF then
    <2> QED
      BY <2>1, <2>2, <2>3, WrittenEntries, PatchCommits
  <1>8. ASSUME NEW c \in Writers,
               Proposal!MutateByApplication(c) \/ Proposal!MutateByFailure(c)
        PROVE  ProposalInv'
    <2> DEFINE i == call[c].id
               r == call[c].record
               then(kind1) == [call[c] EXCEPT !.at = "event",
                            !.event = Proposal!Event(i, kind1, r.version + 1)]
               found == [then("accepted") EXCEPT
                            !.event = Proposal!Event(i, "accepted", entry.version)]
    <2>1. DOMAIN r = EntryFields /\ call[c].at \in {"failed", "applied"} /\ i \in Applications
      BY <1>0, <1>8 DEF WriterOK, EntryOK, Proposal!MutateByApplication, Proposal!MutateByFailure
    <2>2. \A k : /\ DOMAIN then(k) = DOMAIN call[c] /\ then(k).at = "event"
                 /\ then(k).event.id = i /\ then(k).event.version = r.version + 1
      BY <1>0 DEF WriterOK, Proposal!Event
    <2>3. /\ DOMAIN found = {"at", "id", "record", "event", "epic"} /\ found.at = "event"
          /\ found.record = r /\ found.event.id = i
      BY <1>0 DEF WriterOK, Proposal!Event
    <2>4. \/ Proposal!Patch(c, Proposal!ApplyHandoffToState(i, r, call[c].epic),
                            then("accepted"))
          \/ Proposal!Patch(c, Proposal!ApplyHandoffFailureToState(i, r), then("failed"))
          \/ Proposal!Go(c, found) /\ UNCHANGED <<entry, activity, epics, request, commits>>
      BY <1>8 DEF Proposal!MutateByApplication, Proposal!MutateByFailure
    <2> HIDE DEF then, found
    <2>5. CASE Proposal!Go(c, found) /\ UNCHANGED <<entry, activity, epics, request, commits>>
      <3>1. WriterOK(found, request, commits)
        BY <1>0, <2>1, <2>3, IdsAssumption DEF WriterOK, EventOK, Changing
      <3> QED
        BY <1>0, <2>5, <3>1, WriterMoves
    <2> QED
      BY <2>1, <2>2, <2>4, <2>5, WrittenEntries, PatchCommits
  <1>9. ASSUME NEW c \in Writers, Proposal!AppendEvent(c)
        PROVE  ProposalInv'
    <2>1. /\ EventOK(call[c].event, commits) /\ Proposal!Go(c, Proposal!Idle)
          /\ UNCHANGED <<entry, request, commits>>
          /\ activity' \subseteq activity \cup {call[c].event}
      BY <1>0, <1>9 DEF Proposal!AppendEvent, WriterOK
    <2>2. \A e \in activity' : EventOK(e, commits)
      BY <1>0, <2>1
    <2> QED
      BY <1>0, <2>1, <2>2, FirstEntry, WriterMoves
  <1>10. \A c \in Writers : call[c].at \in {"lookup", "create", "backlink"} =>
             call[c].id \in Applications /\ EntryOK(call[c].record, request, commits)
    BY <1>0 DEF WriterOK
  <1>11. ASSUME NEW c \in Writers, Proposal!FindEpic(c) \/ Proposal!TargetFails(c)
         PROVE  ProposalInv'
    <2>1. /\ call[c].at \in {"lookup", "create", "backlink"}
          /\ UNCHANGED <<entry, activity, request, commits>>
      BY <1>11 DEF Proposal!FindEpic, Proposal!TargetFails
    <2>2. \E at \in {"applied", "backlink", "create", "failed"} :
             \/ Proposal!Go(c, [call[c] EXCEPT !.at = at])
             \/ \E e : Proposal!Go(c, [call[c] EXCEPT !.at = at, !.epic = e])
      BY <1>11 DEF Proposal!FindEpic, Proposal!TargetFails
    <2>3. \A at \in {"applied", "backlink", "create", "failed"} : \A e :
             /\ WriterOK([call[c] EXCEPT !.at = at], request, commits)
             /\ WriterOK([call[c] EXCEPT !.at = at, !.epic = e], request, commits)
      BY <1>0, <1>10, <2>1, GoingOn
    <2> QED
      BY <1>0, <2>1, <2>2, <2>3, WriterMoves
  <1>12. ASSUME NEW c \in Writers, NEW e \in Epics, Proposal!CreateEpic(c, e)
         PROVE  ProposalInv'
    <2>1. /\ call[c].at = "create" /\ UNCHANGED <<entry, activity, request, commits>>
          /\ \/ Proposal!Go(c, [call[c] EXCEPT !.at = "backlink", !.epic = e])
             \/ Proposal!Go(c, [call[c] EXCEPT !.at = "failed"])
      BY <1>12 DEF Proposal!CreateEpic
    <2>2. /\ WriterOK([call[c] EXCEPT !.at = "backlink", !.epic = e], request, commits)
          /\ WriterOK([call[c] EXCEPT !.at = "failed"], request, commits)
      BY <1>0, <1>10, <2>1, GoingOn
    <2> QED
      BY <1>0, <2>1, <2>2, WriterMoves
  <1>13. ASSUME NEW c \in Writers, Proposal!SetIdeaDeliveryRef(c)
         PROVE  ProposalInv'
    <2>1. /\ call[c].at = "backlink" /\ UNCHANGED <<activity, request, commits>>
          /\ entry' = [entry EXCEPT !.version = entry.version + 1,
                                    !.delivery = call[c].epic]
          /\ Proposal!Go(c, [call[c] EXCEPT !.at = "applied", !.record = entry'])
      BY <1>13 DEF Proposal!SetIdeaDeliveryRef
    <2>2. /\ DOMAIN entry' = EntryFields /\ entry'.version = entry.version + 1
          /\ entry'.last = entry.last /\ entry'.resolved = entry.resolved
      BY <1>0, <2>1 DEF EntryOK, EntryFields
    <2>3. EntryOK(entry', request, commits)
      BY <1>0, <2>2 DEF EntryOK
    <2>4. WriterOK([call[c] EXCEPT !.at = "applied", !.record = entry'], request, commits)
      <3>1. \A r : EntryOK(r, request, commits) =>
                WriterOK([call[c] EXCEPT !.at = "applied", !.record = r], request, commits)
        BY <1>0, <1>10, <2>1, GoingOn
      <3> QED
        BY <2>3, <3>1
    <2> QED
      BY <1>0, <2>1, <2>3, <2>4, WriterMoves
  <1> QED
    BY <1>1, <1>2, <1>3, <1>4, <1>5, <1>6, <1>7, <1>8, <1>9, <1>11, <1>12, <1>13
    DEF Proposal!Next

(* The invariant says that events tell of the commits.                     *)
LEMMA ProposalIsTold == ProposalInv => Proposal!HistoryTellsTheCommits
  BY DEF ProposalInv, CommitsOK, EventOK, Changing, Proposal!HistoryTellsTheCommits

-----------------------------------------------------------------------------
(* The run of the records.                                                 *)

RecordsInv ==
    /\ kind = "proposal" => ProposalInv
    /\ kind = "command" => Package!PackageInv
    /\ kind = "two commands" => Packages!PackageInv
    /\ kind = "idea" => IdeaInv
    /\ kind = "delivery item" => ItemInv
    /\ kind = "refinement" => RefinementInv

(* Every record begins with its invariant.                                 *)
LEMMA RecordsInit == MCInit => RecordsInv
  BY ProposalInit, Package!PackageInit, Packages!PackageInit, IdeaInit, ItemInit, RefinementInit
  DEF MCInit, MCKind, RecordsInv

(* A step is one of its record, and leaves what the behaviour is about.    *)
LEMMA StepOfOne ==
    ASSUME [MCNext]_allVars
    PROVE  /\ UNCHANGED kind
           /\ kind = "proposal" => [Proposal!Next]_(Proposal!vars)
           /\ kind = "command" => [Package!Next]_(Package!vars)
           /\ kind = "two commands" => [Packages!Next]_(Packages!vars)
           /\ kind = "idea" => [Idea!Next]_(Idea!vars)
           /\ kind = "delivery item" => [Item!Next]_(Item!wpVars)
           /\ kind = "refinement" => [Refinement!Next]_(Refinement!vars)
  <1>1. CASE UNCHANGED allVars
    BY <1>1 DEF allVars, Proposal!vars, Package!vars, Packages!vars, Idea!vars, Idea!wpVars,
                Item!wpVars, Refinement!vars
  <1>2. CASE MCNext
    BY <1>2 DEF MCNext, MCOthers
  <1> QED
    BY <1>1, <1>2

(* Every step of the run keeps the invariants.                             *)
LEMMA RecordsStep == RecordsInv /\ [MCNext]_allVars => RecordsInv'
  BY StepOfOne, ProposalStep, Package!PackageStep, Packages!PackageStep, IdeaStep, ItemStep,
     RefinementStep
  DEF RecordsInv

(* The invariants of ideas, items and refinement runs hold in the run's    *)
(* specification.                                                          *)
THEOREM RecordsHold == MCSpec => []RecordsInv
  BY RecordsInit, RecordsStep, PTL DEF MCSpec

(* Events of proposal commands name the version of their commit; owners of *)
(* package commands are asked once, and results are true: for any number   *)
(* of calls, commands, resolutions and applications.                       *)
THEOREM HistoryIsTold == MCSpec => []HistoryTellsTheCommits
  <1>1. RecordsInv => HistoryTellsTheCommits
    BY ProposalIsTold, Package!PackageHolds, Packages!PackageHolds
    DEF RecordsInv, HistoryTellsTheCommits
  <1> QED
    BY <1>1, RecordsHold, PTL

(* A completed refinement run has its receipt, wrote or found every target *)
(* of the draft, and each target held its accepted value at some moment    *)
(* after the last operation was done: not all of them at one moment, since *)
(* the tree is read page by page.  For any number of drafts, items,        *)
(* attempts and edits by others.                                           *)
THEOREM CompletedRunsWereRead == MCSpec => []CompletionIsReadBack
  <1>1. RecordsInv => CompletionIsReadBack
    BY CompletedIsWhole DEF RecordsInv, CompletionIsReadBack
  <1> QED
    BY <1>1, RecordsHold, PTL

(* An idea has one Delivery, however many consumptions are repeated, unless*)
(* two were about to create it at the same time.                           *)
THEOREM IdeasHaveOneDelivery == MCSpec => []OneDelivery
  <1>1. RecordsInv => OneDelivery
    BY IdeaIsDelivered DEF RecordsInv, OneDelivery
  <1> QED
    BY <1>1, RecordsHold, PTL

(* The fields of an idea or a delivery item are what the calls on it asked *)
(* for, unless a call replayed a refused PATCH or sent one without the     *)
(* lock version of its read.                                               *)
THEOREM UpdatesAreKept == MCSpec => []NoUpdateIsLost
  <1>1. RecordsInv => NoUpdateIsLost
    BY IdeaIsKept, ItemIsKept DEF RecordsInv, NoUpdateIsLost
  <1> QED
    BY <1>1, RecordsHold, PTL
=============================================================================

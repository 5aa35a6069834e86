------------------------------ MODULE RunProofs ------------------------------
(***************************************************************************)
(* Proofs about a validation-readiness run, alone and under its control    *)
(* API, for any number of attempts, controls, operators and calls: what    *)
(* its projection may be, that it is an implementation of RunLifecycle,    *)
(* and what a reply to a control says of it.                               *)
(***************************************************************************)
EXTENDS RunControlApi, SequenceTheorems, FiniteSetTheorems, TLAPS

-----------------------------------------------------------------------------
(* The operators of RunProjection on projections.  The sets of field       *)
(* values stay folded in the steps that build a record.                    *)

(* What the field values written by the operators belong to.               *)
LEMMA FieldValues ==
    /\ \A s \in {"queued", "running", "waiting", "blocked", "failed",
                 "completed", "cancelled"} : s \in RunStates
    /\ 0 \in Counts /\ 1 \in Counts
    /\ \A k \in {"none", "retryable", "exhausted"} : k \in FailureKinds
    /\ "none" \in Effects /\ "verified" \in Effects
    /\ \A o \in Outcomes, r \in ReceiptSets : Aggregate(o, r) \in Aggregates
    /\ NoAggregate \in Aggregates
    /\ {} \in ReceiptSets
  BY DEF RunStates, Counts, FailureKinds, Effects, Aggregate, Aggregates,
         NoAggregate, ReceiptSets

(* An event moves the sequence and the last event and nothing else.        *)
LEMMA WithEventType ==
    ASSUME NEW p \in Projections
    PROVE  WithEvent(p) \in Projections
  BY DEF WithEvent, Projections

(* Recomputing the availability sets the published controls alone.         *)
LEMMA WithControlAvailabilityType ==
    ASSUME NEW p \in Projections
    PROVE  WithControlAvailability(p) \in Projections
<1>1. AvailableIn(p) \in ActionSets
  BY DEF AvailableIn, ActionSets
<1>. QED BY <1>1 DEF WithControlAvailability, Projections

(* The fields that WithEvent(WithControlAvailability(p)) shares with p.    *)
Shares(q, p) ==
    /\ q.state = p.state /\ q.attempts = p.attempts
    /\ q.active = p.active /\ q.completed = p.completed
    /\ q.failed = p.failed /\ q.wait = p.wait /\ q.blocker = p.blocker
    /\ q.failure = p.failure /\ q.retryAvailable = p.retryAvailable
    /\ q.effect = p.effect /\ q.receipts = p.receipts
    /\ q.controls = p.controls /\ q.aggregate = p.aggregate
    /\ q.completedAt = p.completedAt

(* Availability and acceptance depend on the shared fields only.           *)
LEMMA SharedFields ==
    ASSUME NEW p \in Projections, NEW q \in Projections, Shares(q, p)
    PROVE  /\ Terminal(q) <=> Terminal(p)
           /\ AvailableIn(q) = AvailableIn(p)
           /\ AssertRunProjection(q) <=> AssertRunProjection(p)
           /\ HasAttemptCapacity(q) <=> HasAttemptCapacity(p)
<1>1. Terminal(q) <=> Terminal(p)
  BY DEF Shares, Terminal
<1>2. AvailableIn(q) = AvailableIn(p)
  BY <1>1 DEF Shares, AvailableIn, AttemptControlAvailable
<1>3. AssertRunProjection(q) <=> AssertRunProjection(p)
  BY <1>1 DEF Shares, AssertRunProjection
<1>. QED BY <1>1, <1>2, <1>3 DEF Shares, HasAttemptCapacity

(* What a step reads of a projection after an event was added.             *)
LEMMA EventAdded ==
    ASSUME NEW p \in Projections
    PROVE  /\ Shares(WithEvent(p), p)
           /\ WithEvent(p).sequence = p.sequence + 1
           /\ WithEvent(p).available = p.available
  BY DEF Shares, WithEvent, Projections

(* What a step reads of a projection after its availability was recomputed.*)
LEMMA AvailabilityAdded ==
    ASSUME NEW p \in Projections
    PROVE  /\ Shares(WithControlAvailability(p), p)
           /\ WithControlAvailability(p).sequence = p.sequence
           /\ WithControlAvailability(p).available = AvailableIn(p)
  BY DEF Shares, WithControlAvailability, Projections

(* What a transition must ensure of the record it builds, before the       *)
(* availability is recomputed and the event appended.                      *)
Acceptable(p) ==
    /\ AssertRunProjection(p)
    /\ p.retryAvailable => HasAttemptCapacity(p)
    /\ p.completed = 1 => p.completedAt

(* Every transition but recordRunControl ends with these two calls.        *)
LEMMA Published ==
    ASSUME NEW p \in Projections,
           NEW q, q = WithEvent(WithControlAvailability(p))
    PROVE  /\ q \in Projections
           /\ Shares(q, p)
           /\ q.sequence = p.sequence + 1
           /\ Acceptable(p) => Sound(q)
<1>. DEFINE r == WithControlAvailability(p)
<1>1. r \in Projections /\ q \in Projections
  BY WithEventType, WithControlAvailabilityType
<1>2. Shares(r, p) /\ r.sequence = p.sequence /\ r.available = AvailableIn(p)
  BY AvailabilityAdded
<1>3. Shares(q, r) /\ q.sequence = r.sequence + 1 /\ q.available = r.available
  BY <1>1, EventAdded
<1>4. Shares(q, p)
  BY <1>2, <1>3 DEF Shares
<1>5. Acceptable(p) => Sound(q)
  BY <1>1, <1>2, <1>3, <1>4, SharedFields DEF Acceptable, Sound, Shares
<1>. QED BY <1>1, <1>2, <1>3, <1>4, <1>5

-----------------------------------------------------------------------------
(* One lemma per operator: the result is a projection, it is sound if the  *)
(* argument is, and what the invariant needs of its fields.                *)

(* The projection a run is created with (domain.js, createRunProjection).  *)
LEMMA CreateLemma ==
    LET q == CreateRunProjection
    IN  /\ q \in Projections /\ Sound(q)
        /\ q.state = "queued" /\ q.attempts = 0
        /\ q.controls = << >> /\ q.sequence = 1
        /\ q.receipts = {} /\ q.effect = "none"
<1>. DEFINE q == CreateRunProjection
            r == [state |-> "queued", attempts |-> 0,
                  active |-> 0, completed |-> 0, failed |-> 0,
                  wait |-> FALSE, blocker |-> FALSE, failure |-> "none",
                  retryAvailable |-> FALSE, effect |-> "none",
                  receipts |-> {}, controls |-> << >>,
                  aggregate |-> NoAggregate, completedAt |-> FALSE,
                  available |-> {}, sequence |-> 0]
<1>1. 0 \in Attempts /\ << >> \in ControlHistories /\ {} \in ActionSets
  BY AttemptsAssumption DEF Attempts, ControlHistories, ActionSets
<1>2. r \in Projections
  BY <1>1, FieldValues DEF Projections
<1>3. Acceptable(r)
  BY AttemptsAssumption, WindowAssumption
  DEF Acceptable, AssertRunProjection, UniqueControlKeys, Terminal
<1>4. /\ r.state = "queued" /\ r.attempts = 0
      /\ r.controls = << >> /\ r.sequence = 0
      /\ r.receipts = {} /\ r.effect = "none"
  OBVIOUS
<1>5. q = WithEvent(WithControlAvailability(r))
  BY DEF CreateRunProjection
<1>. HIDE DEF q, r
<1>6. /\ q \in Projections /\ Sound(q)
      /\ q.state = "queued" /\ q.attempts = 0
      /\ q.controls = << >> /\ q.sequence = 1
      /\ q.receipts = {} /\ q.effect = "none"
  BY <1>2, <1>3, <1>4, <1>5, Published DEF Shares
<1>. QED BY <1>6 DEF q

(* The start of an attempt, from a run that still has attempts.            *)
LEMMA StartLemma ==
    ASSUME NEW p \in Projections, HasAttemptCapacity(p),
           NEW q, q = StartRunAttempt(p)
    PROVE  /\ q \in Projections
           /\ Sound(p) /\ ~p.completedAt => Sound(q)
           /\ q.state = "running" /\ q.attempts = p.attempts + 1
           /\ q.controls = p.controls /\ q.sequence = p.sequence + 1
           /\ q.receipts = p.receipts /\ q.effect = p.effect
<1>. DEFINE r == [p EXCEPT !.state = "running", !.attempts = @ + 1,
                           !.active = 1, !.failed = 0,
                           !.wait = FALSE, !.blocker = FALSE,
                           !.failure = "none", !.retryAvailable = FALSE]
<1>1. p.attempts + 1 \in Attempts
  BY AttemptsAssumption DEF Projections, Attempts, HasAttemptCapacity
<1>2. r \in Projections
  BY <1>1, FieldValues DEF Projections
<1>3. /\ r.state = "running" /\ r.attempts = p.attempts + 1
      /\ r.active = 1 /\ r.completed = p.completed /\ r.failed = 0
      /\ ~r.retryAvailable
      /\ r.receipts = p.receipts /\ r.effect = p.effect /\ r.controls = p.controls
      /\ r.aggregate = p.aggregate /\ r.completedAt = p.completedAt
      /\ r.sequence = p.sequence
  BY DEF Projections
<1>4. q = WithEvent(WithControlAvailability(r))
  BY DEF StartRunAttempt
<1>. HIDE DEF r
<1>5. ASSUME Sound(p), ~p.completedAt PROVE Acceptable(r)
  <2>1. p.completed = 0 /\ p.aggregate = NoAggregate /\ p.attempts + 1 <= MaxAttempts
    BY <1>5, AttemptsAssumption
    DEF Sound, AssertRunProjection, Projections, Counts, HasAttemptCapacity,
        Attempts
  <2>. QED
    BY <1>3, <1>5, <2>1 DEF Acceptable, Sound, AssertRunProjection, Terminal
<1>. QED BY <1>2, <1>3, <1>4, <1>5, Published DEF Shares

(* The end of a run whose approval expired before it started.              *)
LEMMA RejectLemma ==
    ASSUME NEW p \in Projections, NEW q, q = RejectExpiredApproval(p)
    PROVE  /\ q \in Projections
           /\ Sound(p) => Sound(q)
           /\ Terminal(q) /\ q.attempts = p.attempts
           /\ q.aggregate.outcome = "failed-no-effect"
           /\ q.controls = p.controls /\ q.sequence = p.sequence + 1
           /\ q.receipts = p.receipts /\ q.effect = p.effect
<1>. DEFINE r == [p EXCEPT
                     !.state = "failed", !.failed = 1,
                     !.failure = "exhausted", !.retryAvailable = FALSE,
                     !.aggregate = Aggregate("failed-no-effect", p.receipts),
                     !.completedAt = TRUE]
<1>1. Aggregate("failed-no-effect", p.receipts) \in Aggregates
  BY FieldValues DEF Projections, Outcomes
<1>2. r \in Projections
  BY <1>1, FieldValues DEF Projections
<1>3. /\ r.state = "failed" /\ r.attempts = p.attempts
      /\ r.active = p.active /\ r.completed = p.completed /\ r.failed = 1
      /\ r.failure = "exhausted" /\ ~r.retryAvailable
      /\ r.receipts = p.receipts /\ r.effect = p.effect /\ r.controls = p.controls
      /\ r.aggregate = Aggregate("failed-no-effect", p.receipts)
      /\ r.completedAt /\ r.sequence = p.sequence
  BY DEF Projections
<1>4. q = WithEvent(WithControlAvailability(r))
  BY DEF RejectExpiredApproval
<1>. HIDE DEF r
<1>5. ASSUME Sound(p) PROVE Acceptable(r)
  BY <1>3, <1>5
  DEF Acceptable, Sound, AssertRunProjection, Terminal, OutcomeMatchesState,
      Aggregate, NoAggregate
<1>. QED
  BY <1>2, <1>3, <1>4, <1>5, Published DEF Shares, Terminal, Aggregate

(* An attempt that ended ready closes the run as passed.                   *)
LEMMA ReadyLemma ==
    ASSUME NEW p \in Projections, NEW receipts \in ReceiptSets,
           NEW q, q = ProjectReady(p, receipts)
    PROVE  /\ q \in Projections
           /\ Sound(p) => Sound(q)
           /\ q.state = "completed" /\ q.attempts = p.attempts
           /\ q.controls = p.controls /\ q.sequence = p.sequence + 1
           /\ q.receipts = receipts /\ q.effect = "verified"
<1>. DEFINE r == [p EXCEPT
                     !.state = "completed",
                     !.active = 0, !.completed = 1, !.failed = 0,
                     !.retryAvailable = FALSE, !.effect = "verified",
                     !.receipts = receipts,
                     !.aggregate = Aggregate("completed", receipts),
                     !.completedAt = TRUE]
<1>1. Aggregate("completed", receipts) \in Aggregates
  BY FieldValues DEF Outcomes
<1>2. r \in Projections
  BY <1>1, FieldValues DEF Projections
<1>3. /\ r.state = "completed" /\ r.attempts = p.attempts
      /\ r.active = 0 /\ r.completed = 1 /\ r.failed = 0
      /\ ~r.retryAvailable
      /\ r.receipts = receipts /\ r.effect = "verified" /\ r.controls = p.controls
      /\ r.aggregate = Aggregate("completed", receipts)
      /\ r.completedAt /\ r.sequence = p.sequence
  BY DEF Projections
<1>4. q = WithEvent(WithControlAvailability(r))
  BY DEF ProjectReady
<1>. HIDE DEF r
<1>5. ASSUME Sound(p) PROVE Acceptable(r)
  BY <1>3, <1>5
  DEF Acceptable, Sound, AssertRunProjection, Terminal, OutcomeMatchesState,
      Aggregate, NoAggregate
<1>. QED BY <1>2, <1>3, <1>4, <1>5, Published DEF Shares

(* An attempt that ended not ready leaves the run blocked; a retry is      *)
(* offered while attempts remain.                                          *)
LEMMA NotReadyLemma ==
    ASSUME NEW p \in Projections, NEW receipts \in ReceiptSets,
           NEW q, q = ProjectNotReady(p, receipts)
    PROVE  /\ q \in Projections
           /\ Sound(p) /\ ~p.completedAt => Sound(q)
           /\ q.state = "blocked" /\ q.attempts = p.attempts
           /\ q.controls = p.controls /\ q.sequence = p.sequence + 1
           /\ q.receipts = receipts /\ q.effect = p.effect
<1>. DEFINE r == [p EXCEPT !.state = "blocked", !.active = 0, !.failed = 1,
                           !.blocker = TRUE,
                           !.retryAvailable = HasAttemptCapacity(p),
                           !.receipts = receipts]
<1>1. HasAttemptCapacity(p) \in BOOLEAN
  BY DEF HasAttemptCapacity
<1>2. r \in Projections
  BY <1>1, FieldValues DEF Projections
<1>3. /\ r.state = "blocked" /\ r.attempts = p.attempts
      /\ r.active = 0 /\ r.completed = p.completed /\ r.failed = 1
      /\ r.blocker /\ r.retryAvailable = HasAttemptCapacity(p)
      /\ r.receipts = receipts /\ r.effect = p.effect /\ r.controls = p.controls
      /\ r.aggregate = p.aggregate /\ r.completedAt = p.completedAt
      /\ r.sequence = p.sequence
  BY DEF Projections
<1>4. q = WithEvent(WithControlAvailability(r))
  BY DEF ProjectNotReady
<1>. HIDE DEF r
<1>5. ASSUME Sound(p), ~p.completedAt PROVE Acceptable(r)
  <2>1. p.completed = 0 /\ p.aggregate = NoAggregate
    BY <1>5 DEF Sound, AssertRunProjection, Projections, Counts
  <2>2. AssertRunProjection(r)
    BY <1>3, <1>5, <2>1 DEF Sound, AssertRunProjection, Terminal
  <2>3. r.retryAvailable => HasAttemptCapacity(r)
    BY <1>3 DEF HasAttemptCapacity
  <2>. QED BY <1>3, <2>1, <2>2, <2>3 DEF Acceptable
<1>. QED BY <1>2, <1>3, <1>4, <1>5, Published DEF Shares

(* A cancel leaves the run cancelled, with the outcome its effect allows.  *)
LEMMA CancelLemma ==
    ASSUME NEW p \in Projections, NEW q, q = CancelRun(p)
    PROVE  /\ q \in Projections
           /\ Sound(p) => Sound(q)
           /\ q.state = "cancelled" /\ q.attempts = p.attempts
           /\ q.aggregate.outcome = CancelOutcome(p)
           /\ q.controls = p.controls /\ q.sequence = p.sequence + 1
           /\ q.receipts = p.receipts /\ q.effect = p.effect
<1>. DEFINE r == [p EXCEPT
                     !.state = "cancelled", !.active = 0, !.wait = FALSE,
                     !.retryAvailable = FALSE,
                     !.aggregate = Aggregate(CancelOutcome(p), p.receipts),
                     !.completedAt = TRUE]
<1>1. Aggregate(CancelOutcome(p), p.receipts) \in Aggregates
  BY FieldValues DEF Projections, Outcomes, CancelOutcome
<1>2. r \in Projections
  BY <1>1, FieldValues DEF Projections
<1>3. /\ r.state = "cancelled" /\ r.attempts = p.attempts
      /\ r.active = 0 /\ r.completed = p.completed
      /\ ~r.retryAvailable
      /\ r.receipts = p.receipts /\ r.effect = p.effect /\ r.controls = p.controls
      /\ r.aggregate = Aggregate(CancelOutcome(p), p.receipts)
      /\ r.completedAt /\ r.sequence = p.sequence
  BY DEF Projections
<1>4. q = WithEvent(WithControlAvailability(r))
  BY DEF CancelRun
<1>. HIDE DEF r
<1>5. ASSUME Sound(p) PROVE Acceptable(r)
  <2>1. 0 + p.completed <= 1
    BY DEF Projections, Counts
  <2>2. CancelOutcome(p) \in {"cancelled-no-effect",
                             "cancelled-with-retained-evidence"}
    BY DEF CancelOutcome
  <2>3. /\ r.aggregate # NoAggregate
        /\ r.aggregate.outcome = CancelOutcome(p)
        /\ r.aggregate.receipts = r.receipts
    BY <1>3, <2>2 DEF Aggregate, NoAggregate
  <2>4. OutcomeMatchesState(r.aggregate.outcome, r.state)
    BY <1>3, <2>2, <2>3 DEF OutcomeMatchesState
  <2>5. Terminal(r) /\ UniqueControlKeys(r.controls)
    BY <1>3, <1>5 DEF Terminal, Sound, AssertRunProjection
  <2>6. AssertRunProjection(r)
    BY <1>3, <1>5, <2>1, <2>3, <2>4, <2>5 DEF Sound, AssertRunProjection
  <2>. QED BY <1>3, <2>6 DEF Acceptable
<1>. QED BY <1>2, <1>3, <1>4, <1>5, Published DEF Shares, Aggregate

(* An activity result the contract refuses leaves the run as the operator  *)
(* does.                                                                   *)
LEMMA RejectedContractLemma ==
    ASSUME NEW p \in Projections, NEW q, q = ContractRejected(p)
    PROVE  /\ q \in Projections
           /\ Sound(p) /\ ~p.completedAt => Sound(q)
           /\ q.state = "blocked" /\ q.attempts = p.attempts
           /\ q.controls = p.controls /\ q.sequence = p.sequence + 1
           /\ q.receipts = p.receipts /\ q.effect = p.effect
<1>. DEFINE r == [p EXCEPT !.state = "blocked", !.active = 0, !.failed = 1,
                           !.blocker = TRUE, !.failure = "none",
                           !.retryAvailable = FALSE]
<1>1. r \in Projections
  BY FieldValues DEF Projections
<1>2. /\ r.state = "blocked" /\ r.attempts = p.attempts
      /\ r.active = 0 /\ r.completed = p.completed /\ r.failed = 1
      /\ r.blocker /\ ~r.retryAvailable
      /\ r.receipts = p.receipts /\ r.effect = p.effect /\ r.controls = p.controls
      /\ r.aggregate = p.aggregate /\ r.completedAt = p.completedAt
      /\ r.sequence = p.sequence
  BY DEF Projections
<1>3. q = WithEvent(WithControlAvailability(r))
  BY DEF ContractRejected
<1>. HIDE DEF r
<1>4. ASSUME Sound(p), ~p.completedAt PROVE Acceptable(r)
  <2>1. p.completed = 0 /\ p.aggregate = NoAggregate
    BY <1>4 DEF Sound, AssertRunProjection, Projections, Counts
  <2>. QED
    BY <1>2, <1>4, <2>1 DEF Acceptable, Sound, AssertRunProjection, Terminal
<1>. QED BY <1>1, <1>2, <1>3, <1>4, Published DEF Shares

(* A failed activity leaves the run failed and not yet completed; the loop *)
(* head closes it when no attempt is left.                                 *)
LEMMA FailedActivityLemma ==
    ASSUME NEW p \in Projections, NEW q, q = ActivityFailed(p)
    PROVE  /\ q \in Projections
           /\ Sound(p) /\ ~p.completedAt => Sound(q) /\ ~q.completedAt
           /\ q.state = "failed" /\ q.attempts = p.attempts
           /\ q.retryAvailable = HasAttemptCapacity(p)
           /\ q.controls = p.controls /\ q.sequence = p.sequence + 1
           /\ q.receipts = p.receipts /\ q.effect = p.effect
<1>. DEFINE kind == IF HasAttemptCapacity(p) THEN "retryable" ELSE "exhausted"
            r == [p EXCEPT !.state = "failed", !.active = 0, !.failed = 1,
                           !.blocker = FALSE, !.failure = kind,
                           !.retryAvailable = HasAttemptCapacity(p)]
<1>1. HasAttemptCapacity(p) \in BOOLEAN /\ kind \in FailureKinds
  BY DEF HasAttemptCapacity, FailureKinds
<1>2. r \in Projections
  BY <1>1, FieldValues DEF Projections
<1>3. /\ r.state = "failed" /\ r.attempts = p.attempts
      /\ r.active = 0 /\ r.completed = p.completed /\ r.failed = 1
      /\ r.failure # "none" /\ r.retryAvailable = HasAttemptCapacity(p)
      /\ r.receipts = p.receipts /\ r.effect = p.effect /\ r.controls = p.controls
      /\ r.aggregate = p.aggregate /\ r.completedAt = p.completedAt
      /\ r.sequence = p.sequence
  BY DEF Projections
<1>4. q = WithEvent(WithControlAvailability(r))
  BY DEF ActivityFailed
<1>. HIDE DEF r, kind
<1>5. ASSUME Sound(p), ~p.completedAt PROVE Acceptable(r) /\ ~r.completedAt
  <2>1. p.completed = 0 /\ p.aggregate = NoAggregate
    BY <1>5 DEF Sound, AssertRunProjection, Projections, Counts
  <2>2. AssertRunProjection(r) /\ ~r.completedAt
    BY <1>3, <1>5, <2>1 DEF Sound, AssertRunProjection, Terminal
  <2>3. r.retryAvailable => HasAttemptCapacity(r)
    BY <1>3 DEF HasAttemptCapacity
  <2>. QED BY <1>3, <2>1, <2>2, <2>3 DEF Acceptable
<1>. QED BY <1>2, <1>3, <1>4, <1>5, Published DEF Shares

(* A failure of each type the code tells apart, from one lemma per type.   *)
LEMMA FailureLemma ==
    ASSUME NEW p \in Projections, NEW type,
           NEW q, q = ProjectActivityFailure(p, type)
    PROVE  /\ q \in Projections
           /\ Sound(p) /\ ~p.completedAt =>
                 Sound(q) /\ (q.state = "failed" => ~q.completedAt)
           /\ q.state \in {"cancelled", "blocked", "failed"}
           /\ q.state = "cancelled" => q.aggregate.outcome = CancelOutcome(p)
           /\ q.state = "failed" => q.retryAvailable = HasAttemptCapacity(p)
           /\ q.attempts = p.attempts
           /\ q.controls = p.controls /\ q.sequence = p.sequence + 1
           /\ q.receipts = p.receipts /\ q.effect = p.effect
  BY CancelLemma, RejectedContractLemma, FailedActivityLemma
  DEF ProjectActivityFailure

(* The window returns elements of the sequence it is given.                *)
LEMMA LastOfType ==
    ASSUME NEW S, NEW s \in Seq(S), NEW n \in Nat
    PROVE  LastOf(s, n) \in Seq(S)
<1>1. CASE Len(s) <= n
  BY <1>1 DEF LastOf
<1>2. CASE ~(Len(s) <= n)
  <2>1. \A i \in Len(s) - n + 1 .. Len(s) : s[i] \in S
    BY <1>2, LenProperties, ElementOfSeq
  <2>2. SubSeq(s, Len(s) - n + 1, Len(s)) \in Seq(S)
    BY <2>1, <1>2, LenProperties, SubSeqProperties
  <2>. QED BY <1>2, <2>2 DEF LastOf
<1>. QED BY <1>1, <1>2

(* A control that is not retained keeps the retained keys distinct.        *)
LEMMA AppendedControlUnique ==
    ASSUME NEW p \in Projections, NEW c \in AllControls,
           UniqueControlKeys(p.controls), ~KeyRetained(p, c)
    PROVE  UniqueControlKeys(Append(p.controls, c))
<1>. DEFINE s == p.controls
            t == Append(s, c)
<1>1. s \in Seq(AllControls)
  BY DEF Projections, ControlHistories
<1>2. /\ Len(s) \in Nat /\ Len(t) = Len(s) + 1 /\ t[Len(s) + 1] = c
      /\ \A i \in 1..Len(s) : t[i] = s[i]
  BY <1>1, LenProperties, AppendProperties
<1>3. \A i \in 1..Len(s) : s[i].id # c.id /\ s[i].key # c.key
  BY DEF KeyRetained
<1>. HIDE DEF s, t
<1>4. ASSUME NEW i \in 1..Len(t), NEW j \in 1..Len(t), i # j
      PROVE  t[i].id # t[j].id /\ t[i].key # t[j].key
  <2>1. CASE i \in 1..Len(s) /\ j \in 1..Len(s)
    BY <1>2, <1>4, <2>1 DEF UniqueControlKeys, s
  <2>2. CASE i = Len(s) + 1 /\ j \in 1..Len(s)
    BY <1>2, <1>3, <2>2
  <2>3. CASE j = Len(s) + 1 /\ i \in 1..Len(s)
    BY <1>2, <1>3, <2>3
  <2>. QED BY <1>2, <1>4, <2>1, <2>2, <2>3
<1>5. UniqueControlKeys(t)
  BY <1>4 DEF UniqueControlKeys
<1>. QED BY <1>5 DEF s, t

(* A recorded control joins the history once and keeps the keys unique.    *)
LEMMA RecordLemma ==
    ASSUME NEW p \in Projections, NEW c \in AllControls,
           NEW q, q = RecordRunControl(p, c)
    PROVE  /\ q \in Projections
           /\ q.state = p.state /\ q.attempts = p.attempts
           /\ q.completedAt = p.completedAt
           /\ q.receipts = p.receipts /\ q.effect = p.effect
           /\ Len(p.controls) < MaxControls =>
                 q.controls = IF KeyRetained(p, c) THEN p.controls
                                                   ELSE Append(p.controls, c)
           /\ Sound(p) /\ Len(p.controls) < MaxControls =>
                 /\ Sound(q)
                 /\ Len(q.controls) <= Len(p.controls) + 1
                 /\ q.sequence <= p.sequence + 1
<1>1. CASE KeyRetained(p, c)
  BY <1>1, LenProperties DEF RecordRunControl, Projections, ControlHistories
<1>2. CASE ~KeyRetained(p, c)
  <2>. DEFINE window == LastOf(Append(p.controls, c), MaxControls)
              r == [p EXCEPT !.controls = window]
  <2>1. Append(p.controls, c) \in Seq(AllControls)
    BY AppendProperties DEF Projections, ControlHistories
  <2>2. window \in ControlHistories
    BY <2>1, LastOfType, WindowAssumption DEF ControlHistories
  <2>3. r \in Projections
    BY <2>2 DEF Projections
  <2>4. q = WithEvent(r)
    BY <1>2 DEF RecordRunControl, Projections
  <2>5. /\ r.state = p.state /\ r.attempts = p.attempts
        /\ r.active = p.active /\ r.completed = p.completed
        /\ r.failed = p.failed /\ r.wait = p.wait /\ r.blocker = p.blocker
        /\ r.failure = p.failure /\ r.retryAvailable = p.retryAvailable
        /\ r.aggregate = p.aggregate
        /\ r.completedAt = p.completedAt /\ r.available = p.available
        /\ r.sequence = p.sequence /\ r.controls = window
        /\ r.receipts = p.receipts /\ r.effect = p.effect
    BY DEF Projections
  <2>. HIDE DEF r
  <2>6. /\ q \in Projections /\ Shares(q, r)
        /\ q.sequence = r.sequence + 1 /\ q.available = r.available
    BY <2>3, <2>4, WithEventType, EventAdded
  <2>8. ASSUME Len(p.controls) < MaxControls
        PROVE  q.controls = Append(p.controls, c)
    <3>1. Len(Append(p.controls, c)) = Len(p.controls) + 1
      BY AppendProperties DEF Projections, ControlHistories
    <3>2. Len(p.controls) + 1 <= MaxControls
      BY <2>8, LenProperties, WindowAssumption DEF Projections, ControlHistories
    <3>. QED BY <2>5, <2>6, <3>1, <3>2 DEF LastOf, Shares
  <2>7. ASSUME Sound(p), Len(p.controls) < MaxControls
        PROVE  Sound(q) /\ Len(q.controls) = Len(p.controls) + 1
    <3>1. Len(Append(p.controls, c)) = Len(p.controls) + 1
      BY AppendProperties DEF Projections, ControlHistories
    <3>2. Len(p.controls) + 1 <= MaxControls
      BY <2>7, LenProperties, WindowAssumption DEF Projections, ControlHistories
    <3>3. window = Append(p.controls, c)
      BY <3>1, <3>2 DEF LastOf
    <3>4. UniqueControlKeys(window)
      BY <1>2, <2>7, <3>3, AppendedControlUnique DEF Sound, AssertRunProjection
    <3>. HIDE DEF window
    <3>5. AssertRunProjection(r)
      BY <2>5, <2>7, <3>1, <3>2, <3>3, <3>4
      DEF Sound, AssertRunProjection, Terminal
    <3>6. AvailableIn(r) = r.available
      BY <2>5, <2>7
      DEF Sound, AvailableIn, AttemptControlAvailable, Terminal
    <3>. QED
      BY <2>3, <2>5, <2>6, <2>7, <3>1, <3>3, <3>5, <3>6, SharedFields
      DEF Sound, Shares, HasAttemptCapacity
  <2>. QED
    BY <1>2, <2>5, <2>6, <2>7, <2>8, LenProperties
    DEF Shares, Projections, ControlHistories
<1>. QED BY <1>1, <1>2

(* A defer leaves the run waiting with its attempts and its effect.        *)
LEMMA DeferLemma ==
    ASSUME NEW p \in Projections, NEW q, q = DeferRun(p)
    PROVE  /\ q \in Projections
           /\ Sound(p) /\ ~p.completedAt => Sound(q) /\ ~q.completedAt
           /\ q.state = "waiting" /\ q.attempts = p.attempts
           /\ q.controls = p.controls /\ q.sequence = p.sequence + 1
           /\ q.receipts = p.receipts /\ q.effect = p.effect
<1>. DEFINE r == [p EXCEPT !.state = "waiting", !.wait = TRUE]
<1>1. r \in Projections
  BY FieldValues DEF Projections
<1>2. /\ r.state = "waiting" /\ r.attempts = p.attempts
      /\ r.active = p.active /\ r.completed = p.completed
      /\ r.wait /\ r.retryAvailable = p.retryAvailable
      /\ r.receipts = p.receipts /\ r.effect = p.effect /\ r.controls = p.controls
      /\ r.aggregate = p.aggregate /\ r.completedAt = p.completedAt
      /\ r.sequence = p.sequence
  BY DEF Projections
<1>3. q = WithEvent(WithControlAvailability(r))
  BY DEF DeferRun
<1>. HIDE DEF r
<1>4. ASSUME Sound(p), ~p.completedAt PROVE Acceptable(r) /\ ~r.completedAt
  <2>1. p.aggregate = NoAggregate
    BY <1>4 DEF Sound, AssertRunProjection
  <2>. QED
    BY <1>2, <1>4, <2>1
    DEF Acceptable, Sound, AssertRunProjection, Terminal, HasAttemptCapacity
<1>. QED BY <1>1, <1>2, <1>3, <1>4, Published DEF Shares

(* A failed run without attempts left is closed; any other is left alone.  *)
LEMMA ExhaustedLemma ==
    ASSUME NEW p \in Projections, NEW q, q = FinishExhaustedRun(p)
    PROVE  /\ q \in Projections
           /\ Sound(p) /\ p.state = "failed" /\ ~p.retryAvailable =>
                 Sound(q) /\ Terminal(q)
           /\ p.state = "failed" /\ ~p.retryAvailable /\ p.effect = "none" =>
                 q.aggregate.outcome = "failed-no-effect"
           /\ q.attempts = p.attempts
           /\ q.controls = p.controls /\ q.sequence = p.sequence
           /\ q.receipts = p.receipts /\ q.effect = p.effect
<1>1. CASE p.state # "failed" \/ p.retryAvailable
  BY <1>1 DEF FinishExhaustedRun
<1>2. CASE p.state = "failed" /\ ~p.retryAvailable
  <2>. DEFINE outcome == IF p.effect = "none"
                         THEN "failed-no-effect"
                         ELSE "failed-with-retained-evidence"
              r == [p EXCEPT !.aggregate = Aggregate(outcome, p.receipts),
                             !.completedAt = TRUE]
  <2>1. outcome \in {"failed-no-effect", "failed-with-retained-evidence"}
    OBVIOUS
  <2>2. q = WithControlAvailability(r)
    BY <1>2 DEF FinishExhaustedRun
  <2>. HIDE DEF outcome
  <2>3. Aggregate(outcome, p.receipts) \in Aggregates
    BY <2>1, FieldValues DEF Projections, Outcomes
  <2>4. r \in Projections
    BY <2>3 DEF Projections
  <2>5. /\ r.state = "failed" /\ r.attempts = p.attempts
        /\ r.active = p.active /\ r.completed = p.completed
        /\ r.failed = p.failed /\ r.failure = p.failure
        /\ ~r.retryAvailable
        /\ r.receipts = p.receipts /\ r.effect = p.effect /\ r.controls = p.controls
        /\ r.aggregate = Aggregate(outcome, p.receipts)
        /\ r.completedAt /\ r.sequence = p.sequence
    BY <1>2 DEF Projections
  <2>. HIDE DEF r
  <2>6. ASSUME Sound(p) PROVE Acceptable(r)
    BY <1>2, <2>1, <2>5, <2>6
    DEF Acceptable, Sound, AssertRunProjection, Terminal, OutcomeMatchesState,
        Aggregate, NoAggregate
  <2>7. /\ q \in Projections /\ Shares(q, r) /\ q.sequence = r.sequence
        /\ q.available = AvailableIn(r)
    BY <2>2, <2>4, WithControlAvailabilityType, AvailabilityAdded
  <2>8. ASSUME Sound(p) PROVE Sound(q)
    BY <2>4, <2>5, <2>6, <2>7, <2>8, SharedFields
    DEF Acceptable, Sound, Shares
  <2>9. p.effect = "none" => q.aggregate.outcome = "failed-no-effect"
    BY <2>5, <2>7 DEF Shares, Aggregate, outcome
  <2>. QED BY <1>2, <2>5, <2>7, <2>8, <2>9 DEF Shares, Terminal
<1>. QED BY <1>1, <1>2

-----------------------------------------------------------------------------
(* Type correctness.                                                       *)

(* The activity states a run starts from and a scheduled activity are      *)
(* typed.                                                                  *)
LEMMA IdleType ==
    /\ IdleActivity \in ActivityStates
    /\ ScheduledActivity \in ActivityStates
<1>. DEFINE Statuses == {"idle", "executing", "returned"}
            Tries == 0..MaxTries
            Held == Results \cup Failures \cup {NoOutcome}
            States == [status : Statuses, tries : Tries,
                       cancelRequested : BOOLEAN, outcome : Held]
<1>1. /\ "idle" \in Statuses /\ "executing" \in Statuses
      /\ 0 \in Tries /\ 1 \in Tries /\ NoOutcome \in Held
  BY ControlAssumption
<1>. HIDE DEF Statuses, Tries, Held
<1>2. IdleActivity \in States
  BY <1>1 DEF IdleActivity
<1>3. ScheduledActivity \in States
  BY <1>1, <1>2 DEF ScheduledActivity
<1>. QED BY <1>2, <1>3 DEF ActivityStates, Statuses, Tries, Held

(* The initial state is typed.                                             *)
LEMMA InitType == Init => TypeOK
<1>. SUFFICES ASSUME Init PROVE TypeOK
  OBVIOUS
<1>1. projection \in Projections
  BY CreateLemma DEF Init
<1>2. activity \in ActivityStates
  BY IdleType DEF Init
<1>3. pending \in Seq(AllControls) /\ inbox \in Seq(AllControls)
  BY EmptySeq DEF Init
<1>4. sent \in 0..MaxSignals
  BY ControlAssumption DEF Init
<1>5. /\ pc \in Places /\ approvalExpired \in BOOLEAN
      /\ queuedKeys \subseteq UNION {{c.id, c.key} : c \in Controls}
      /\ retirementQueued \in BOOLEAN
  BY DEF Init, Places
<1>. QED BY <1>1, <1>2, <1>3, <1>4, <1>5 DEF TypeOK

(* A retirement control goes to the front, an operator's to the back.      *)
LEMMA HandleSignalType == TypeOK /\ HandleSignal => TypeOK'
<1>. SUFFICES ASSUME TypeOK, HandleSignal PROVE TypeOK'
  OBVIOUS
<1>. DEFINE c == Head(inbox)
<1>1. c \in AllControls /\ Tail(inbox) \in Seq(AllControls)
  BY HeadTailProperties DEF TypeOK, HandleSignal
<1>2. RequestActivityCancel => activity' \in ActivityStates
  BY DEF RequestActivityCancel, TypeOK, ActivityStates
<1>3. CASE EnqueueRetirementControl(c)
  <2>1. pending' \in Seq(AllControls)
    <3>1. <<c>> \in Seq(AllControls)
      BY <1>1
    <3>. QED
      BY <3>1, <1>3, ConcatProperties DEF EnqueueRetirementControl, TypeOK
  <2>. QED
    BY <2>1, <1>1, <1>2, <1>3
    DEF EnqueueRetirementControl, TypeOK, HandleSignal
<1>4. CASE EnqueueOperatorControl(c)
  <2>1. pending' \in Seq(AllControls)
    BY <1>1, <1>4, AppendProperties DEF EnqueueOperatorControl, TypeOK
  <2>2. c \in Controls
    BY <1>1, <1>4 DEF EnqueueOperatorControl, AllControls
  <2>3. activity' \in ActivityStates
    BY <1>2, <1>4 DEF EnqueueOperatorControl, TypeOK
  <2>4. queuedKeys' \subseteq UNION {{d.id, d.key} : d \in Controls}
    BY <2>2, <1>4 DEF EnqueueOperatorControl, TypeOK
  <2>. QED
    BY <2>1, <2>3, <2>4, <1>1, <1>4
    DEF EnqueueOperatorControl, TypeOK, HandleSignal
<1>5. CASE IgnoreControl(c)
  BY <1>1, <1>5 DEF IgnoreControl, TypeOK, HandleSignal
<1>. QED BY <1>3, <1>4, <1>5 DEF HandleSignal

(* Taking one control out of a queue leaves a queue of the same controls.  *)
LEMMA RemoveAtType ==
    ASSUME NEW S, NEW s \in Seq(S), NEW i \in 1..Len(s)
    PROVE  RemoveAt(s, i) \in Seq(S)
<1>0. Len(s) \in Nat /\ (\A j \in 1..Len(s) : s[j] \in S)
  BY LenProperties, ElementOfSeq
<1>1. SubSeq(s, 1, i - 1) \in Seq(S)
  BY <1>0, SubSeqProperties
<1>2. SubSeq(s, i + 1, Len(s)) \in Seq(S)
  BY <1>0, SubSeqProperties
<1>. QED BY <1>1, <1>2, ConcatProperties DEF RemoveAt

(* A queued cancel leaves the queue and closes the run.                    *)
LEMMA QueuedCancelLemma ==
    ASSUME TypeOK, ApplyQueuedCancel
    PROVE  /\ pc' \in Places
           /\ projection' \in Projections
           /\ pending' \in Seq(AllControls)
           /\ activity' \in ActivityStates
<1>1. PICK i \in 1..Len(pending) :
          /\ projection' = CancelRun(RecordRunControl(projection, pending[i]))
          /\ pending' = RemoveAt(pending, i)
  BY DEF ApplyQueuedCancel
<1>2. pending[i] \in AllControls
  BY ElementOfSeq DEF TypeOK
<1>3. projection' \in Projections
  BY <1>1, <1>2, RecordLemma, CancelLemma DEF TypeOK
<1>4. pending' \in Seq(AllControls)
  BY <1>1, RemoveAtType DEF TypeOK
<1>. QED BY <1>3, <1>4 DEF ApplyQueuedCancel, TypeOK, Places

(* What an activity settles with is typed.                                 *)
LEMMA SettledType ==
    ASSUME TypeOK, activity.outcome \in Results \cup Failures \cup {NoOutcome}
    PROVE  SettledProjection(activity.outcome) \in Projections
<1>. DEFINE o == activity.outcome
<1>1. CASE o.kind = "result"
  <2>1. o \in Results
    BY <1>1 DEF Results, Failures, NoOutcome
  <2>2. projection.receipts \cup {o.receipt} \in ReceiptSets
    BY <2>1 DEF Results, ReceiptSets, TypeOK, Projections
  <2>3. ProjectWgcfResult(projection, o) \in Projections
    BY <2>2, ReadyLemma, NotReadyLemma DEF ProjectWgcfResult, TypeOK
  <2>. QED BY <1>1, <2>3, FailureLemma DEF SettledProjection, TypeOK
<1>2. CASE o.kind # "result"
  BY <1>2, FailureLemma DEF SettledProjection, TypeOK
<1>. QED BY <1>1, <1>2

(* Taking a control keeps the types.                                       *)
LEMMA TakeControlType == TypeOK /\ TakeControl => TypeOK'
<1>. SUFFICES ASSUME TypeOK, TakeControl PROVE TypeOK'
  OBVIOUS
<1>1. CASE pending = << >>
  BY <1>1 DEF TakeControl, TypeOK, Places
<1>2. CASE pending # << >> /\ ControlIsAvailable(Head(pending))
  <2>1. Head(pending) \in AllControls /\ Tail(pending) \in Seq(AllControls)
    BY <1>2, HeadTailProperties DEF TypeOK
  <2>2. RecordRunControl(projection, Head(pending)) \in Projections
    BY <2>1, RecordLemma DEF TypeOK
  <2>3. ApplyControl(Head(pending))
    BY <1>2 DEF TakeControl
  <2>4. projection' \in Projections /\ pc' \in Places
    BY <2>2, <2>3, CancelLemma, DeferLemma DEF ApplyControl, Places
  <2>. QED BY <1>2, <2>1, <2>4 DEF TakeControl, TypeOK
<1>3. CASE pending # << >> /\ ~ControlIsAvailable(Head(pending))
  BY <1>3, HeadTailProperties DEF TakeControl, TypeOK
<1>. QED BY <1>1, <1>2, <1>3

(* Every step keeps the types.                                             *)
LEMMA NextType == TypeOK /\ [Next]_vars => TypeOK'
<1>. SUFFICES ASSUME TypeOK, [Next]_vars PROVE TypeOK'
  OBVIOUS
<1>1. CASE HandleSignal
  BY <1>1, HandleSignalType
<1>2. CASE Begin
  BY <1>2, RejectLemma DEF Begin, TypeOK, Places
<1>3. CASE LoopHead
  <2>1. CASE CancelPending
    BY <1>3, <2>1, QueuedCancelLemma DEF LoopHead, TypeOK
  <2>2. CASE ~CancelPending /\ HasAttemptCapacity(projection)
    BY <1>3, <2>2, IdleType, StartLemma DEF LoopHead, StartAttempt, TypeOK, Places
  <2>3. CASE ~CancelPending /\ ~HasAttemptCapacity(projection)
    BY <1>3, <2>3, ExhaustedLemma DEF LoopHead, FinishExhausted, TypeOK, Places
  <2>. QED BY <2>1, <2>2, <2>3
<1>4. CASE ActivitySettles
  <2>1. projection' \in Projections
    BY <1>4, SettledType DEF ActivitySettles, TypeOK, ActivityStates
  <2>. QED BY <1>4, <2>1, IdleType DEF ActivitySettles, TypeOK, Places
<1>5. CASE AfterActivity
  <2>1. CASE CancelPending
    BY <1>5, <2>1, QueuedCancelLemma DEF AfterActivity, TypeOK
  <2>2. CASE ~CancelPending
    BY <1>5, <2>2, ExhaustedLemma DEF AfterActivity, CloseOrHold, TypeOK, Places
  <2>. QED BY <2>1, <2>2
<1>6. CASE WakeForControl
  BY <1>6 DEF WakeForControl, TypeOK, Places
<1>7. CASE TakeControl
  BY <1>7, TakeControlType
<1>8. CASE ActivityRetry
  BY <1>8, ControlAssumption DEF ActivityRetry, TypeOK, ActivityStates
<1>9. CASE ActivityReturn
  BY <1>9 DEF ActivityReturn, TypeOK, ActivityStates
<1>10. ASSUME NEW c \in AllControls, SendSignal(c) PROVE TypeOK'
  BY <1>10, AppendProperties, ControlAssumption DEF SendSignal, TypeOK
<1>11. CASE UNCHANGED vars
  BY <1>11 DEF vars, TypeOK
<1>. QED
  BY <1>1, <1>2, <1>3, <1>4, <1>5, <1>6, <1>7, <1>8, <1>9, <1>10, <1>11
  DEF Next, Workflow

(* Every variable of a run keeps to its type, for every set of controls,   *)
(* receipts and digests and every bound on attempts and signals.           *)
THEOREM TypeCorrect == Spec => []TypeOK
<1>. QED BY InitType, NextType, PTL DEF Spec

-----------------------------------------------------------------------------
(* The inductive invariant.                                                *)

(* The inductive invariant holds when a run is created.                    *)
LEMMA InitInv == Init => IInv
<1>. SUFFICES ASSUME Init PROVE IInv
  OBVIOUS
<1>1. /\ Sound(projection) /\ projection.state = "queued"
      /\ projection.attempts = 0
      /\ Len(projection.controls) = 0 /\ projection.sequence = 1
  BY CreateLemma DEF Init
<1>. QED
  BY <1>1 DEF Init, IInv, NoExecutionAfterClose, IdleActivity, AtStart,
              HistoryWithin

(* Numbers of a projection, for the bounds.                                *)
Numeric(p) == /\ p.attempts \in Nat /\ p.attempts <= MaxAttempts
              /\ Len(p.controls) \in Nat /\ p.sequence \in Nat

(* The numbers a step compares are numbers: facts for the arithmetic below.*)
LEMMA Numbers ==
    /\ MaxAttempts \in Nat /\ MaxControls \in Nat
    /\ 2 * MaxAttempts <= MaxControls
    /\ \A p \in Projections : Numeric(p)
  BY LenProperties, AttemptsAssumption, WindowAssumption
  DEF Projections, Attempts, ControlHistories, Numeric

(* Arithmetic on the bounds, with a attempts of at most m, n controls and  *)
(* q events.                                                               *)
LEMMA Bounds ==
    ASSUME NEW a \in Nat, NEW n \in Nat, NEW q \in Nat, NEW m \in Nat, a <= m
    PROVE  /\ n <= 2 * a - 2 => n < 2 * m
           /\ q <= 5 * a - 2 => q <= 5 * m /\ q <= 5 * m + 2
           /\ n <= 2 * a /\ a < m => n < 2 * m
           /\ q <= 5 * a + 1 /\ a < m => q <= 5 * m
           /\ n <= 2 * a - 1 => n < 2 * m
           /\ q <= 5 * a => q <= 5 * m
           /\ 0 <= 2 * m /\ 2 <= 5 * m + 2
  OBVIOUS

(* A new attempt and its event.                                            *)
LEMMA AttemptBounds ==
    ASSUME NEW a \in Nat, NEW n \in Nat, NEW q \in Nat,
           n <= 2 * a, q <= 5 * a + 1
    PROVE  /\ n <= 2 * (a + 1) - 2
           /\ q + 1 <= 5 * (a + 1) - 3
           /\ a + 1 > 0
  OBVIOUS

(* One control more, one or two events more.                               *)
LEMMA RecordedBounds ==
    ASSUME NEW a \in Nat, NEW n \in Nat, NEW q \in Nat,
           NEW k \in Nat, k <= n + 1, NEW l \in Nat, l <= q + 1
    PROVE  /\ n <= 2 * a - 2 => k <= 2 * a - 1 /\ k <= 2 * a
           /\ n <= 2 * a - 1 => k <= 2 * a
           /\ q <= 5 * a - 2 => l + 1 <= 5 * a /\ l <= 5 * a + 1
           /\ q <= 5 * a => l <= 5 * a + 1
  OBVIOUS

(* The steps that leave the projection, the place and the queue alone.     *)
LEMMA SamePlaceInv ==
    ASSUME IInv, UNCHANGED <<pc, approvalExpired, projection>>, pc # "settled",
           pc # "closed" \/ UNCHANGED pending,
           pc # "activity" => activity' = activity
    PROVE  IInv'
<1>1. Sound(projection)' /\ NoExecutionAfterClose'
  BY DEF IInv, NoExecutionAfterClose
<1>2. pc = "closed" => AtClosed'
  BY DEF IInv, AtClosed, HistoryWithin, CancelNeverLost, CancelPending
<1>. QED
  BY <1>1, <1>2
  DEF IInv, AtStart, AtLoop, AtActivity, AtSettled, AtTake, HistoryWithin

(* The signal handler keeps the invariant.                                 *)
LEMMA HandleSignalInv == TypeOK /\ IInv /\ HandleSignal => IInv'
<1>. SUFFICES ASSUME TypeOK, IInv, HandleSignal PROVE IInv'
  OBVIOUS
<1>1. pc # "activity" => activity' = activity
  BY DEF HandleSignal, EnqueueRetirementControl, EnqueueOperatorControl,
         IgnoreControl, RequestActivityCancel, IInv, NoExecutionAfterClose
<1>. QED BY <1>1, SamePlaceInv DEF HandleSignal, AtAwait

(* A cancel is recorded and applied, with room in the window.              *)
LEMMA CancelStep ==
    ASSUME TypeOK, Sound(projection), NEW c \in AllControls,
           Len(projection.controls) < 2 * MaxAttempts,
           projection.sequence <= 5 * MaxAttempts,
           projection' = CancelRun(RecordRunControl(projection, c)),
           pc' = "closed", activity' = activity, activity.status = "idle"
    PROVE  IInv'
<1>. DEFINE r == RecordRunControl(projection, c)
<1>0. Numeric(projection)
  BY Numbers DEF TypeOK
<1>1. Len(projection.controls) < MaxControls
  BY <1>0, Numbers DEF Numeric
<1>2. /\ r \in Projections /\ Sound(r)
      /\ Len(r.controls) <= Len(projection.controls) + 1
      /\ r.sequence <= projection.sequence + 1
  BY <1>1, RecordLemma DEF TypeOK
<1>3. /\ projection' \in Projections /\ Sound(projection')
      /\ projection'.state = "cancelled"
      /\ projection'.controls = r.controls
      /\ projection'.sequence = r.sequence + 1
  BY <1>2, CancelLemma
<1>4. /\ Len(projection'.controls) <= 2 * MaxAttempts
      /\ projection'.sequence <= 5 * MaxAttempts + 2
  <2>1. Numeric(projection')
    BY <1>3, Numbers
  <2>. QED BY <1>0, <1>2, <1>3, <2>1, Numbers DEF Numeric
<1>5. AtClosed'
  BY <1>3, <1>4 DEF AtClosed, Terminal, HistoryWithin, CancelNeverLost
<1>. QED BY <1>3, <1>5 DEF IInv, NoExecutionAfterClose

(* A queued cancel that is applied keeps the invariant.                    *)
LEMMA QueuedCancelInv ==
    ASSUME TypeOK, IInv, ApplyQueuedCancel, pc \in {"loop", "settled"}
    PROVE  IInv'
<1>1. PICK i \in 1..Len(pending) :
          projection' = CancelRun(RecordRunControl(projection, pending[i]))
  BY DEF ApplyQueuedCancel
<1>2. pending[i] \in AllControls
  BY ElementOfSeq DEF TypeOK
<1>3. /\ Len(projection.controls) < 2 * MaxAttempts
      /\ projection.sequence <= 5 * MaxAttempts
  <2>1. Numeric(projection)
    BY Numbers DEF TypeOK
  <2>2. CASE pc = "loop"
    BY <2>1, <2>2, Numbers, Bounds
    DEF IInv, AtLoop, HistoryWithin, HasAttemptCapacity, Numeric
  <2>3. CASE pc = "settled"
    BY <2>1, <2>3, Numbers, Bounds DEF IInv, AtSettled, HistoryWithin, Numeric
  <2>. QED BY <2>2, <2>3
<1>. QED
  BY <1>1, <1>2, <1>3, CancelStep
  DEF ApplyQueuedCancel, IInv, NoExecutionAfterClose

(* The first task of a run keeps the invariant.                            *)
LEMMA BeginInv == TypeOK /\ IInv /\ Begin => IInv'
<1>. SUFFICES ASSUME TypeOK, IInv, Begin PROVE IInv'
  OBVIOUS
<1>1. AtStart /\ Sound(projection) /\ activity.status = "idle"
  BY DEF Begin, IInv, NoExecutionAfterClose
<1>2. CASE approvalExpired
  <2>1. /\ Sound(projection') /\ Terminal(projection')
        /\ projection'.controls = projection.controls
        /\ projection'.sequence = projection.sequence + 1
    BY <1>1, <1>2, RejectLemma DEF Begin, TypeOK
  <2>2. AtClosed'
    BY <1>1, <1>2, <2>1, Numbers, Bounds
    DEF Begin, TypeOK, AtClosed, AtStart, HistoryWithin, CancelNeverLost,
        Numeric
  <2>. QED BY <1>1, <1>2, <2>1, <2>2 DEF Begin, IInv, NoExecutionAfterClose
<1>3. CASE ~approvalExpired
  <2>1. projection' = projection /\ pc' = "loop" /\ activity' = activity
    BY <1>3 DEF Begin
  <2>2. AtLoop
    BY <1>1, AttemptsAssumption
    DEF Sound, AssertRunProjection, Terminal, AtStart, AtLoop, HistoryWithin,
        HasAttemptCapacity
  <2>. QED
    BY <1>1, <2>1, <2>2
    DEF IInv, NoExecutionAfterClose, AtLoop, HistoryWithin
<1>. QED BY <1>2, <1>3

(* The head of the loop keeps the invariant.                               *)
LEMMA LoopHeadInv == TypeOK /\ IInv /\ LoopHead => IInv'
<1>. SUFFICES ASSUME TypeOK, IInv, LoopHead PROVE IInv'
  OBVIOUS
<1>1. AtLoop /\ Sound(projection) /\ HasAttemptCapacity(projection)
  BY DEF LoopHead, IInv, AtLoop
<1>2. CASE CancelPending
  BY <1>2, QueuedCancelInv DEF LoopHead
<1>3. CASE ~CancelPending
  <2>1. projection' = StartRunAttempt(projection) /\ pc' = "activity"
    BY <1>1, <1>3 DEF LoopHead, StartAttempt
  <2>2. /\ projection' \in Projections /\ Sound(projection')
        /\ projection'.state = "running"
        /\ projection'.attempts = projection.attempts + 1
        /\ projection'.controls = projection.controls
        /\ projection'.sequence = projection.sequence + 1
    BY <1>1, <2>1, StartLemma DEF TypeOK, AtLoop
  <2>3. Numeric(projection)
    BY Numbers DEF TypeOK
  <2>4. AtActivity'
    <3>. DEFINE a == projection.attempts
    <3>1. /\ Len(projection.controls) <= 2 * a
          /\ projection.sequence <= 5 * a + 1
      BY <1>1 DEF AtLoop, HistoryWithin
    <3>2. /\ Len(projection.controls) <= 2 * (a + 1) - 2
          /\ projection.sequence + 1 <= 5 * (a + 1) - 3
          /\ a + 1 > 0
      BY <2>3, <3>1, AttemptBounds DEF Numeric
    <3>. QED BY <2>2, <3>2 DEF AtActivity, HistoryWithin
  <2>. QED BY <2>1, <2>2, <2>4 DEF IInv, NoExecutionAfterClose
<1>. QED BY <1>2, <1>3

(* Whatever the activity returns, a running projection settles soundly.    *)
LEMMA SettledLemma ==
    ASSUME TypeOK, Sound(projection), AtActivity,
           activity.outcome \in Results \cup Failures \cup {NoOutcome},
           NEW q, q = SettledProjection(activity.outcome)
    PROVE  /\ Sound(q)
           /\ q.state = "running" => CancelPending
           /\ q.state \in {"running", "completed", "cancelled", "blocked",
                           "failed"}
           /\ q.state = "failed" => ~q.completedAt
           /\ q.attempts = projection.attempts
           /\ q.controls = projection.controls
           /\ q.sequence <= projection.sequence + 1
<1>. DEFINE o == activity.outcome
<1>1. projection.state = "running" /\ ~projection.completedAt
  BY DEF AtActivity, Sound, AssertRunProjection, Terminal
<1>2. projection \in Projections /\ projection.sequence \in Nat
  BY Numbers DEF TypeOK, Numeric
<1>3. ASSUME NEW type, q = ProjectActivityFailure(projection, type)
      PROVE  /\ Sound(q)
             /\ q.state \in {"cancelled", "blocked", "failed"}
             /\ q.state = "failed" => ~q.completedAt
             /\ q.attempts = projection.attempts
             /\ q.controls = projection.controls
             /\ q.sequence = projection.sequence + 1
  BY <1>1, <1>2, <1>3, FailureLemma
<1>4. CASE /\ o.kind = "result" /\ AssertWgcfActivityResult(o)
           /\ ~ReceiptRefused(projection, o.receipt)
  <2>1. o \in Results
    BY <1>4 DEF Results, Failures, NoOutcome
  <2>2. projection.receipts \cup {o.receipt} \in ReceiptSets
    BY <1>2, <2>1 DEF Results, ReceiptSets, Projections
  <2>3. q = ProjectWgcfResult(projection, o)
    BY <1>4 DEF SettledProjection
  <2>. QED
    BY <1>1, <1>2, <2>2, <2>3, ReadyLemma, NotReadyLemma DEF ProjectWgcfResult
<1>5. CASE /\ o.kind = "result"
           /\ ~AssertWgcfActivityResult(o) \/ ReceiptRefused(projection, o.receipt)
  BY <1>2, <1>3, <1>5 DEF SettledProjection
<1>6. CASE o.kind # "result" /\ CancelPending
  BY <1>1, <1>2, <1>6 DEF SettledProjection
<1>7. CASE o.kind # "result" /\ ~CancelPending
  BY <1>2, <1>3, <1>7 DEF SettledProjection
<1>. QED BY <1>4, <1>5, <1>6, <1>7

(* An activity that settles keeps the invariant.                           *)
LEMMA ActivitySettlesInv == TypeOK /\ IInv /\ ActivitySettles => IInv'
<1>. SUFFICES ASSUME TypeOK, IInv, ActivitySettles PROVE IInv'
  OBVIOUS
<1>1. /\ AtActivity /\ Sound(projection) /\ pc' = "settled"
      /\ projection' = SettledProjection(activity.outcome)
      /\ pending' = pending /\ activity' = IdleActivity
  BY DEF ActivitySettles, IInv
<1>2. activity.outcome \in Results \cup Failures \cup {NoOutcome}
  BY DEF TypeOK, ActivityStates
<1>3. /\ Sound(projection')
      /\ projection'.state = "running" => CancelPending
      /\ projection'.state \in {"running", "completed", "cancelled",
                                "blocked", "failed"}
      /\ projection'.state = "failed" => ~projection'.completedAt
      /\ projection'.attempts = projection.attempts
      /\ projection'.controls = projection.controls
      /\ projection'.sequence <= projection.sequence + 1
  BY <1>1, <1>2, SettledLemma
<1>4. TypeOK'
  BY NextType DEF Next, Workflow
<1>5. CancelPending' <=> CancelPending
  BY <1>1 DEF CancelPending
<1>6. Numeric(projection) /\ Numeric(projection')
  BY <1>4, Numbers DEF TypeOK
<1>7. AtSettled'
  BY <1>1, <1>3, <1>5, <1>6 DEF AtActivity, AtSettled, HistoryWithin, Numeric
<1>. QED
  BY <1>1, <1>3, <1>7 DEF IInv, NoExecutionAfterClose, IdleActivity

(* What follows an activity keeps the invariant.                           *)
LEMMA AfterActivityInv == TypeOK /\ IInv /\ AfterActivity => IInv'
<1>. SUFFICES ASSUME TypeOK, IInv, AfterActivity PROVE IInv'
  OBVIOUS
<1>1. AtSettled /\ Sound(projection) /\ activity.status = "idle"
  BY DEF AfterActivity, IInv, NoExecutionAfterClose
<1>0. HistoryWithin(2 * MaxAttempts, 5 * MaxAttempts + 2)
  <2>1. Numeric(projection)
    BY Numbers DEF TypeOK
  <2>. QED BY <1>1, <2>1, Numbers DEF AtSettled, HistoryWithin, Numeric
<1>2. CASE CancelPending
  BY <1>2, QueuedCancelInv DEF AfterActivity
<1>3. CASE ~CancelPending
  <2>1. CloseOrHold /\ pending' = pending /\ activity' = activity
    BY <1>3 DEF AfterActivity, CloseOrHold
  <2>2. ~CancelPending'
    BY <1>3, <2>1 DEF CancelPending
  <2>3. CASE projection.state \in {"completed", "cancelled"}
    <3>1. projection' = projection /\ pc' = "closed"
      BY <2>1, <2>3 DEF CloseOrHold
    <3>2. AtClosed'
      BY <1>0, <2>2, <2>3, <3>1
      DEF AtClosed, Terminal, HistoryWithin, CancelNeverLost
    <3>. QED BY <1>1, <2>1, <3>1, <3>2 DEF IInv, NoExecutionAfterClose
  <2>4. CASE projection.state = "failed" /\ ~projection.retryAvailable
    <3>1. projection' = FinishExhaustedRun(projection) /\ pc' = "closed"
      BY <2>1, <2>4 DEF CloseOrHold
    <3>2. /\ Sound(projection') /\ Terminal(projection')
          /\ projection'.controls = projection.controls
          /\ projection'.sequence = projection.sequence
      BY <1>1, <2>4, <3>1, ExhaustedLemma DEF TypeOK
    <3>3. AtClosed'
      BY <1>0, <2>2, <3>2 DEF AtClosed, HistoryWithin, CancelNeverLost
    <3>. QED BY <1>1, <2>1, <3>1, <3>2, <3>3 DEF IInv, NoExecutionAfterClose
  <2>5. CASE /\ projection.state \notin {"completed", "cancelled"}
             /\ ~(projection.state = "failed" /\ ~projection.retryAvailable)
    <3>1. projection' = projection /\ pc' = "take"
      BY <2>1, <2>5 DEF CloseOrHold
    <3>2. projection.state \in {"blocked", "failed"}
      BY <1>1, <1>3, <2>5 DEF AtSettled
    <3>3. ~projection.completedAt
      BY <1>1, <3>2 DEF AtSettled, Sound, AssertRunProjection, Terminal
    <3>4. AtTake'
      BY <1>1, <3>1, <3>2, <3>3 DEF AtSettled, AtTake, HistoryWithin
    <3>. QED BY <1>1, <2>1, <3>1, <3>4 DEF IInv, NoExecutionAfterClose
  <2>. QED BY <2>3, <2>4, <2>5
<1>. QED BY <1>2, <1>3

(* Taking a control keeps the invariant.                                   *)
LEMMA TakeControlInv == TypeOK /\ IInv /\ TakeControl => IInv'
<1>. SUFFICES ASSUME TypeOK, IInv, TakeControl PROVE IInv'
  OBVIOUS
<1>1. /\ AtTake /\ Sound(projection) /\ activity.status = "idle"
      /\ activity' = activity /\ projection \in Projections
  BY DEF TakeControl, IInv, NoExecutionAfterClose, TypeOK
<1>0. Numeric(projection)
  BY <1>1, Numbers
<1>2. CASE UNCHANGED projection /\ pc' \in {"take", "controls"}
  BY <1>1, <1>2 DEF IInv, NoExecutionAfterClose, AtTake, HistoryWithin
<1>3. CASE pending # << >> /\ ControlIsAvailable(Head(pending))
  <2>. DEFINE c == Head(pending)
              r == RecordRunControl(projection, c)
  <2>1. c \in AllControls /\ ApplyControl(c) /\ c.action \in projection.available
    BY <1>3, HeadTailProperties DEF TakeControl, TypeOK, ControlIsAvailable
  <2>2. c.action \in AvailableIn(projection)
    BY <1>1, <2>1 DEF Sound
  <2>3. /\ Len(projection.controls) < 2 * MaxAttempts
        /\ projection.sequence <= 5 * MaxAttempts
    BY <1>0, <1>1, Numbers, Bounds DEF AtTake, HistoryWithin, Numeric
  <2>4. /\ r \in Projections /\ Sound(r)
        /\ r.state = projection.state /\ r.attempts = projection.attempts
        /\ r.completedAt = projection.completedAt
        /\ Len(r.controls) <= Len(projection.controls) + 1
        /\ r.sequence <= projection.sequence + 1
    BY <1>0, <1>1, <2>1, <2>3, Numbers, RecordLemma DEF Numeric
  <2>. HIDE DEF c, r
  <2>5. CASE c.action = "cancel"
    <3>1. projection' = CancelRun(r) /\ pc' = "closed"
      BY <2>1, <2>5 DEF ApplyControl, IsAttemptControl, r
    <3>. QED BY <1>1, <2>1, <2>3, <3>1, CancelStep DEF r
  <2>6. CASE c.action = "defer"
    <3>1. projection' = DeferRun(r) /\ pc' = "take"
      BY <2>1, <2>6 DEF ApplyControl, IsAttemptControl, r
    <3>2. projection.state \in {"blocked", "failed"}
      BY <2>2, <2>6 DEF AvailableIn, AttemptControlAvailable
    <3>3. /\ projection' \in Projections /\ Sound(projection')
          /\ ~projection'.completedAt
          /\ projection'.state = "waiting"
          /\ projection'.attempts = r.attempts
          /\ projection'.controls = r.controls
          /\ projection'.sequence = r.sequence + 1
      BY <1>1, <2>4, <3>1, DeferLemma DEF AtTake
    <3>4. AtTake'
      <4>1. /\ Len(projection.controls) <= 2 * projection.attempts - 2
            /\ projection.sequence <= 5 * projection.attempts - 2
            /\ projection.attempts > 0
        BY <1>1, <3>2 DEF AtTake, HistoryWithin
      <4>2. /\ Len(r.controls) <= 2 * projection.attempts - 1
            /\ r.sequence + 1 <= 5 * projection.attempts
        <5>1. Numeric(r)
          BY <2>4, Numbers
        <5>. QED BY <1>0, <2>4, <4>1, <5>1, RecordedBounds DEF Numeric
      <4>. QED BY <2>4, <3>3, <4>1, <4>2 DEF AtTake, HistoryWithin
    <3>. QED BY <1>1, <3>1, <3>3, <3>4 DEF IInv, NoExecutionAfterClose
  <2>7. CASE IsAttemptControl(c)
    <3>1. projection' = r /\ pc' = "loop"
      BY <2>1, <2>7 DEF ApplyControl, IsAttemptControl, r
    <3>2. HasAttemptCapacity(projection)
      BY <1>1, <2>2, <2>7
      DEF AvailableIn, AttemptControlAvailable, IsAttemptControl, Sound
    <3>3. AtLoop'
      <4>. DEFINE a == projection.attempts
      <4>1. Numeric(r)
        BY <2>4, Numbers
      <4>2. CASE projection.state \in {"blocked", "failed"}
        <5>1. /\ Len(projection.controls) <= 2 * a - 2
              /\ projection.sequence <= 5 * a - 2
          BY <1>1, <4>2 DEF AtTake, HistoryWithin
        <5>2. Len(r.controls) <= 2 * a /\ r.sequence <= 5 * a + 1
          BY <1>0, <2>4, <4>1, <5>1, RecordedBounds DEF Numeric
        <5>. QED
          BY <1>1, <2>4, <3>1, <3>2, <4>2, <5>2
          DEF AtTake, AtLoop, HistoryWithin, HasAttemptCapacity
      <4>3. CASE projection.state = "waiting"
        <5>1. /\ Len(projection.controls) <= 2 * a - 1
              /\ projection.sequence <= 5 * a
          BY <1>1, <4>3 DEF AtTake, HistoryWithin
        <5>2. Len(r.controls) <= 2 * a /\ r.sequence <= 5 * a + 1
          BY <1>0, <2>4, <4>1, <5>1, RecordedBounds DEF Numeric
        <5>. QED
          BY <1>1, <2>4, <3>1, <3>2, <4>3, <5>2
          DEF AtTake, AtLoop, HistoryWithin, HasAttemptCapacity
      <4>. QED BY <1>1, <4>2, <4>3 DEF AtTake
    <3>. QED BY <1>1, <2>4, <3>1, <3>3 DEF IInv, NoExecutionAfterClose
  <2>. QED BY <2>1, <2>5, <2>6, <2>7 DEF ApplyControl
<1>. QED BY <1>1, <1>2, <1>3 DEF TakeControl

(* Every step keeps the invariant.                                         *)
LEMMA NextInv == TypeOK /\ IInv /\ [Next]_vars => IInv'
<1>. SUFFICES ASSUME TypeOK, IInv, [Next]_vars PROVE IInv'
  OBVIOUS
<1>1. CASE WakeForControl
  BY <1>1 DEF WakeForControl, IInv, NoExecutionAfterClose, AtTake, HistoryWithin
<1>2. CASE ActivityRetry \/ ActivityReturn
  <2>1. pc = "activity"
    BY <1>2 DEF ActivityRetry, ActivityReturn, IInv, NoExecutionAfterClose
  <2>. QED BY <1>2, <2>1, SamePlaceInv DEF ActivityRetry, ActivityReturn
<1>3. ASSUME NEW c \in AllControls, SendSignal(c) PROVE IInv'
  BY <1>3, SamePlaceInv DEF SendSignal, AtAwait
<1>4. CASE UNCHANGED vars
  BY <1>4 DEF vars, IInv, Sound, NoExecutionAfterClose, AtStart, AtLoop,
              AtActivity, AtSettled, AtTake, AtClosed, HistoryWithin,
              CancelNeverLost, CancelPending
<1>. QED
  BY <1>1, <1>2, <1>3, <1>4, HandleSignalInv, BeginInv, LoopHeadInv,
     ActivitySettlesInv, AfterActivityInv, TakeControlInv
  DEF Next, Workflow

(* IInv is an invariant of the workflow, for every set of controls,        *)
(* receipts and digests, and every bound on attempts, tries and signals.   *)
THEOREM InductiveInvariant == Spec => []IInv
<1>. QED BY TypeCorrect, InitInv, NextInv, PTL DEF Spec

(* withEvent never throws: every projection the workflow publishes passes  *)
(* assertRunProjection.                                                    *)
THEOREM AlwaysAccepted == Spec => []ProjectionAlwaysAccepted
<1>1. IInv => ProjectionAlwaysAccepted
  BY DEF IInv, Sound, ProjectionAlwaysAccepted
<1>. QED BY <1>1, InductiveInvariant, PTL

(* A retry or resume that brings the code back to the head of the loop     *)
(* still finds an attempt, so the loop never ends over a blocked run.      *)
THEOREM CapacityRemains == Spec => []CapacityAtLoopHead
<1>1. IInv => CapacityAtLoopHead
  BY DEF IInv, AtLoop, CapacityAtLoopHead
<1>. QED BY <1>1, InductiveInvariant, PTL

(* The workflow returns terminal projections only.                         *)
THEOREM ClosedIsTerminal == Spec => []ClosedRunIsTerminal
<1>1. IInv => ClosedRunIsTerminal
  BY DEF IInv, AtClosed, ClosedRunIsTerminal
<1>. QED BY <1>1, InductiveInvariant, PTL

(* An accepted cancel decides the outcome of a run whose approval was      *)
(* valid when it started.                                                  *)
THEOREM CancelDecides == Spec => []CancelNeverLost
<1>1. IInv => CancelNeverLost
  BY DEF IInv, AtClosed, CancelNeverLost
<1>. QED BY <1>1, InductiveInvariant, PTL

(* Availability is never stale when a signal is handled or a query read.   *)
THEOREM AvailabilityStaysCurrent == Spec => []AvailabilityIsCurrent
<1>1. IInv => AvailabilityIsCurrent
  BY DEF IInv, Sound, AvailabilityIsCurrent
<1>. QED BY <1>1, InductiveInvariant, PTL

(* With room for two controls and five events per attempt, and two events  *)
(* for a last cancel, the retained windows never drop an element.          *)
THEOREM WindowsSuffice == Spec => []HistoryIsComplete
<1>1. ASSUME NEW a \in Nat, NEW n \in Nat, NEW m \in Nat, a <= m
      PROVE  /\ n <= 2 * a => n <= 2 * m
             /\ n <= 2 * a - 2 => n <= 2 * m
             /\ n <= 2 * a - 1 => n <= 2 * m
             /\ n <= 0 => n <= 2 * m
  BY <1>1
<1>2. ASSUME NEW a \in Nat, NEW q \in Nat, NEW m \in Nat, a <= m
      PROVE  /\ q <= 5 * a + 1 => q <= 5 * m + 2
             /\ q <= 5 * a => q <= 5 * m + 2
             /\ q <= 5 * a - 2 => q <= 5 * m + 2
             /\ q <= 5 * a - 3 => q <= 5 * m + 2
             /\ q <= 1 => q <= 5 * m + 2
  BY <1>2
<1>3. TypeOK /\ IInv => HistoryIsComplete
  <2>1. TypeOK => Numeric(projection)
    BY Numbers DEF TypeOK
  <2>2. TypeOK => pc \in Places
    BY DEF TypeOK
  <2>. QED
    BY <1>1, <1>2, <2>1, <2>2, Numbers
    DEF Numeric, Places, IInv, AtStart, AtLoop, AtActivity, AtSettled, AtTake,
        AtClosed, HistoryWithin, HistoryIsComplete
<1>. QED BY <1>3, TypeCorrect, InductiveInvariant, PTL

-----------------------------------------------------------------------------
(* What a run promises, on top of the inductive invariant above: what its  *)
(* history and its evidence tell, and that it implements RunLifecycle.     *)

-----------------------------------------------------------------------------
(* The invariants.                                                         *)

Operator(c) == c # Retirement
Remembered(c) == Operator(c) => c.id \in queuedKeys /\ c.key \in queuedKeys

(* The keys of accepted controls are remembered, so none is recorded       *)
(* twice; a retirement stands before the operators and is applied next.    *)
RetainedAreKnown ==
    \A i \in 1..Len(projection.controls) :
        Operator(projection.controls[i]) /\ Remembered(projection.controls[i])

PendingAreNew ==
    \A i \in 1..Len(pending) :
        /\ Remembered(pending[i])
        /\ Operator(pending[i]) => ~KeyRetained(projection, pending[i])
        /\ ~Operator(pending[i]) => i = 1 /\ retirementQueued

PendingAreDistinct ==
    \A i, j \in 1..Len(pending) :
        i # j => pending[i].id # pending[j].id /\ pending[i].key # pending[j].key

RetirementIsNext ==
    retirementQueued => pending # << >> /\ pending[1] = Retirement

QueueInv == /\ RetainedAreKnown /\ PendingAreNew /\ PendingAreDistinct
            /\ RetirementIsNext

HistoryInv == /\ pc # "closed" => QueueInv
              /\ AttemptsAuthorized
              /\ RetirementClosesTheRun

(* An effect is verified by the activity that completes the run, and the   *)
(* outcome of a run that has settled claims no more.                       *)
EvidenceInv ==
    /\ ReceiptsBoundToOneDigest
    /\ projection.effect = "verified" => projection.receipts # {}
    /\ pc \notin {"settled", "closed"} => projection.effect = "none"
    /\ pc = "settled" =>
          /\ projection.state = "completed" <=> projection.effect = "verified"
          /\ projection.state = "cancelled" =>
                projection.aggregate.outcome = "cancelled-no-effect"
          /\ projection.state = "failed" =>
                (projection.retryAvailable <=> HasAttemptCapacity(projection))

-----------------------------------------------------------------------------
(* Sequences, and the controls that are recorded.                          *)

(* An appended sequence, element by element.                               *)
LEMMA Appended ==
    ASSUME NEW S, NEW s \in Seq(S), NEW c \in S, NEW t, t = Append(s, c)
    PROVE  /\ Len(s) \in Nat /\ Len(t) = Len(s) + 1 /\ t[Len(t)] = c
           /\ t \in Seq(S)
           /\ \A i \in 1..Len(s) : t[i] = s[i]
           /\ \A i \in 1..Len(t) : i = Len(t) \/ i \in 1..Len(s)
  BY LenProperties, AppendProperties

(* A control put before the others, element by element.                    *)
LEMMA PutFirst ==
    ASSUME NEW S, NEW s \in Seq(S), NEW c \in S, NEW t, t = <<c>> \o s
    PROVE  /\ Len(s) \in Nat /\ Len(t) = Len(s) + 1 /\ t[1] = c
           /\ \A i \in 1..Len(t) : i = 1 \/ (i - 1 \in 1..Len(s) /\ t[i] = s[i - 1])
<1>1. <<c>> \in Seq(S) /\ Len(<<c>>) = 1 /\ <<c>>[1] = c
  OBVIOUS
<1>2. Len(s) \in Nat /\ Len(t) = Len(s) + 1
  BY <1>1, LenProperties, ConcatProperties
<1>3. \A i \in 1..Len(t) : t[i] = IF i <= 1 THEN <<c>>[i] ELSE s[i - 1]
  BY <1>1, <1>2, ConcatProperties
<1>. QED BY <1>1, <1>2, <1>3

(* What is left of a queue whose first control was taken.                  *)
LEMMA Shifted ==
    ASSUME NEW S, NEW s \in Seq(S), s # << >>, NEW t, t = Tail(s)
    PROVE  /\ Len(s) \in Nat /\ Len(s) >= 1 /\ Len(t) = Len(s) - 1
           /\ Head(s) = s[1] /\ t \in Seq(S)
           /\ \A i \in 1..Len(t) : i + 1 \in 2..Len(s) /\ t[i] = s[i + 1]
  BY LenProperties, HeadTailProperties, EmptySeq

(* The positions of the attempt controls of a history.                     *)
AttemptPositions(controls) ==
    {i \in 1..Len(controls) : IsAttemptControl(controls[i])}

(* A history has a number of attempt controls, and one that is appended    *)
(* adds one or none.                                                       *)
LEMMA CountedControls ==
    ASSUME NEW s \in Seq(AllControls), NEW c \in AllControls,
           NEW t, t = Append(s, c)
    PROVE  /\ Cardinality(AttemptPositions(s)) \in Nat
           /\ Cardinality(AttemptPositions(t)) \in Nat
           /\ Cardinality(AttemptPositions(t)) =
                 Cardinality(AttemptPositions(s))
                    + (IF IsAttemptControl(c) THEN 1 ELSE 0)
<1>. DEFINE P == AttemptPositions(s)
            n == Len(s) + 1
<1>1. /\ Len(s) \in Nat /\ Len(t) = n /\ t[n] = c
      /\ \A i \in 1..Len(s) : t[i] = s[i]
  BY Appended
<1>2. IsFiniteSet(P) /\ n \notin P
  <2>1. IsFiniteSet(1..Len(s))
    BY <1>1, FS_Interval
  <2>. QED BY <1>1, <2>1, FS_Subset DEF AttemptPositions
<1>3. AttemptPositions(t) = IF IsAttemptControl(c) THEN P \cup {n} ELSE P
  BY <1>1 DEF AttemptPositions
<1>. QED BY <1>2, <1>3, FS_AddElement, FS_CardinalityType

(* The attempt controls of any history are finitely many.                  *)
LEMMA AttemptCount ==
    ASSUME TypeOK
    PROVE  /\ Cardinality(AttemptControlsRecorded) \in Nat
           /\ AttemptControlsRecorded = AttemptPositions(projection.controls)
<1>1. projection.controls \in Seq(AllControls)
  BY DEF TypeOK, Projections, ControlHistories
<1>2. AttemptControlsRecorded = AttemptPositions(projection.controls)
  BY DEF AttemptControlsRecorded, AttemptPositions
<1>3. IsFiniteSet(1..Len(projection.controls))
  BY <1>1, LenProperties, FS_Interval
<1>4. IsFiniteSet(AttemptControlsRecorded)
  BY <1>3, FS_Subset DEF AttemptControlsRecorded
<1>. QED BY <1>2, <1>4, FS_CardinalityType

(* The windows have room for one control more at every place where one is  *)
(* recorded.                                                               *)
LEMMA RoomForControl ==
    ASSUME TypeOK, IInv, pc \in {"loop", "settled", "take"}
    PROVE  Len(projection.controls) < MaxControls
<1>1. Numeric(projection)
  BY Numbers DEF TypeOK
<1>2. CASE pc = "loop"
  BY <1>1, <1>2, Numbers, Bounds
  DEF IInv, AtLoop, HistoryWithin, HasAttemptCapacity, Numeric
<1>3. CASE pc = "settled"
  BY <1>1, <1>3, Numbers, Bounds DEF IInv, AtSettled, HistoryWithin, Numeric
<1>4. CASE pc = "take"
  BY <1>1, <1>4, Numbers, Bounds DEF IInv, AtTake, HistoryWithin, Numeric
<1>. QED BY <1>2, <1>3, <1>4

-----------------------------------------------------------------------------
(* The queue, the history and retirement.                                  *)

(* Nothing is queued or recorded at first.                                 *)
LEMMA InitHistory == Init => HistoryInv
<1>. SUFFICES ASSUME Init PROVE HistoryInv
  OBVIOUS
<1>1. projection.controls = << >> /\ projection.attempts = 0
  BY CreateLemma DEF Init
<1>2. QueueInv
  BY <1>1 DEF Init, QueueInv, RetainedAreKnown, PendingAreNew,
              PendingAreDistinct, RetirementIsNext
<1>3. Cardinality(AttemptControlsRecorded) \in Nat
  BY InitType, AttemptCount
<1>4. AttemptsAuthorized /\ RetirementClosesTheRun
  BY <1>1, <1>3 DEF Init, AttemptsAuthorized, RetirementClosesTheRun
<1>. QED BY <1>2, <1>4 DEF HistoryInv

(* Attempts stay authorized when an attempt starts only from the head of   *)
(* the loop and no recorded control is lost.                               *)
LEMMA StillAuthorized ==
    ASSUME TypeOK, TypeOK', AttemptsAuthorized,
           projection'.controls = projection.controls,
           \/ projection'.attempts = projection.attempts /\ (pc' = "loop" => pc = "loop")
           \/ projection'.attempts = projection.attempts + 1 /\ pc = "loop" /\ pc' # "loop"
    PROVE  AttemptsAuthorized'
<1>1. AttemptControlsRecorded' = AttemptControlsRecorded
  BY DEF AttemptControlsRecorded
<1>2. Cardinality(AttemptControlsRecorded) \in Nat
  BY AttemptCount
<1>3. projection.attempts \in Nat
  BY Numbers DEF TypeOK, Numeric
<1>. QED BY <1>1, <1>2, <1>3 DEF AttemptsAuthorized

(* What a signal does to the queue: nothing, or one control more that is   *)
(* new; a retirement goes first.                                           *)
LEMMA HandledQueue ==
    ASSUME TypeOK, QueueInv, HandleSignal
    PROVE  QueueInv'
<1>. DEFINE c == Head(inbox)
<1>0. c \in AllControls /\ pending \in Seq(AllControls) /\ projection' = projection
  BY HeadTailProperties DEF TypeOK, HandleSignal
<1>1. \A i \in 1..Len(pending) : pending[i] \in AllControls
  BY <1>0, ElementOfSeq
<1>2. \A i \in 1..Len(projection.controls) : projection.controls[i] \in AllControls
  BY ElementOfSeq DEF TypeOK, Projections, ControlHistories
<1>3. queuedKeys \subseteq queuedKeys'
  BY DEF HandleSignal, EnqueueRetirementControl, EnqueueOperatorControl, IgnoreControl
<1>4. RetainedAreKnown'
  BY <1>0, <1>3 DEF QueueInv, RetainedAreKnown, Remembered
<1>5. CASE IgnoreControl(c)
  BY <1>0, <1>4, <1>5
  DEF IgnoreControl, QueueInv, PendingAreNew, PendingAreDistinct,
      RetirementIsNext, Remembered, KeyRetained
<1>6. CASE EnqueueOperatorControl(c)
  <2>1. /\ pending' = Append(pending, c) /\ queuedKeys' = queuedKeys \cup {c.id, c.key}
        /\ retirementQueued' = retirementQueued
        /\ Operator(c) /\ c.id \notin queuedKeys /\ c.key \notin queuedKeys
        /\ c \in Controls
    BY <1>0, <1>6
    DEF EnqueueOperatorControl, Enqueues, KeyQueued, Operator, AllControls
  <2>2. /\ Len(pending) \in Nat /\ Len(pending') = Len(pending) + 1
        /\ pending'[Len(pending')] = c
        /\ \A i \in 1..Len(pending) : pending'[i] = pending[i]
        /\ \A i \in 1..Len(pending') : i = Len(pending') \/ i \in 1..Len(pending)
    BY <1>0, <2>1, Appended
  <2>3. \A i \in 1..Len(pending) : pending[i].id # c.id /\ pending[i].key # c.key
    BY <1>1, <2>1, ControlAssumption
    DEF QueueInv, PendingAreNew, Remembered, Operator
  <2>4. ~KeyRetained(projection, c)
    BY <2>1 DEF KeyRetained, QueueInv, RetainedAreKnown, Remembered
  <2>5. PendingAreNew'
    <3>. SUFFICES ASSUME NEW i \in 1..Len(pending')
                  PROVE  /\ Operator(pending'[i]) =>
                               pending'[i].id \in queuedKeys' /\ pending'[i].key \in queuedKeys'
                         /\ Operator(pending'[i]) => ~KeyRetained(projection, pending'[i])
                         /\ ~Operator(pending'[i]) => i = 1 /\ retirementQueued
      BY <1>0, <2>1 DEF PendingAreNew, Operator, Remembered, KeyRetained
    <3>1. CASE i = Len(pending')
      BY <2>1, <2>2, <2>4, <3>1 DEF Remembered
    <3>2. CASE i \in 1..Len(pending)
      BY <2>1, <2>2, <3>2 DEF QueueInv, PendingAreNew, Remembered
    <3>. QED BY <2>2, <3>1, <3>2
  <2>6. PendingAreDistinct'
    BY <2>2, <2>3 DEF QueueInv, PendingAreDistinct
  <2>7. RetirementIsNext'
    BY <1>0, <2>1, <2>2, EmptySeq DEF QueueInv, RetirementIsNext
  <2>. QED BY <1>4, <2>5, <2>6, <2>7 DEF QueueInv
<1>7. CASE EnqueueRetirementControl(c)
  <2>1. /\ pending' = <<c>> \o pending /\ queuedKeys' = queuedKeys
        /\ retirementQueued' /\ ~retirementQueued /\ c = Retirement
    BY <1>7 DEF EnqueueRetirementControl
  <2>2. /\ Len(pending) \in Nat /\ Len(pending') = Len(pending) + 1
        /\ pending'[1] = c
        /\ \A i \in 1..Len(pending') :
              i = 1 \/ (i - 1 \in 1..Len(pending) /\ pending'[i] = pending[i - 1])
    BY <1>0, <2>1, PutFirst
  <2>3. \A i \in 1..Len(pending) :
           /\ Operator(pending[i])
           /\ pending[i].id # c.id /\ pending[i].key # c.key
    BY <1>1, <2>1, ControlAssumption DEF QueueInv, PendingAreNew, Operator, AllControls
  <2>4. PendingAreNew'
    <3>. SUFFICES ASSUME NEW i \in 1..Len(pending')
                  PROVE  /\ Operator(pending'[i]) =>
                               pending'[i].id \in queuedKeys' /\ pending'[i].key \in queuedKeys'
                         /\ Operator(pending'[i]) => ~KeyRetained(projection, pending'[i])
                         /\ ~Operator(pending'[i]) => i = 1 /\ retirementQueued'
      BY <1>0 DEF PendingAreNew, Operator, Remembered, KeyRetained
    <3>1. CASE i = 1
      BY <2>1, <2>2, <3>1 DEF Remembered, Operator
    <3>2. CASE i # 1
      BY <2>1, <2>2, <2>3, <3>2 DEF QueueInv, PendingAreNew, Remembered
    <3>. QED BY <3>1, <3>2
  <2>5. PendingAreDistinct'
    <3>. SUFFICES ASSUME NEW i \in 1..Len(pending'), NEW j \in 1..Len(pending'), i # j
                  PROVE  pending'[i].id # pending'[j].id /\ pending'[i].key # pending'[j].key
      BY DEF PendingAreDistinct
    <3>1. CASE i = 1 \/ j = 1
      BY <2>2, <2>3, <3>1
    <3>2. CASE i # 1 /\ j # 1
      <4>1. i - 1 # j - 1 /\ i - 1 \in 1..Len(pending) /\ j - 1 \in 1..Len(pending)
        BY <2>2, <3>2
      <4>. QED BY <2>2, <3>2, <4>1 DEF QueueInv, PendingAreDistinct
    <3>. QED BY <3>1, <3>2
  <2>6. RetirementIsNext'
    BY <2>1, <2>2, EmptySeq DEF RetirementIsNext
  <2>. QED BY <1>4, <2>4, <2>5, <2>6 DEF QueueInv
<1>. QED BY <1>5, <1>6, <1>7 DEF HandleSignal

(* A recorded control authorizes no less than before, and one attempt more *)
(* if it is a new retry or resume.                                         *)
LEMMA RecordedAttempts ==
    ASSUME TypeOK, TypeOK', AttemptsAuthorized, NEW c \in AllControls,
           Len(projection.controls) < MaxControls,
           projection'.controls = RecordRunControl(projection, c).controls,
           projection'.attempts = projection.attempts,
           \/ pc' # "loop"
           \/ pc # "loop" /\ IsAttemptControl(c) /\ ~KeyRetained(projection, c)
    PROVE  AttemptsAuthorized'
<1>. DEFINE s == projection.controls
            t == projection'.controls
<1>1. projection \in Projections /\ s \in Seq(AllControls)
  BY DEF TypeOK, Projections, ControlHistories
<1>2. t = IF KeyRetained(projection, c) THEN s ELSE Append(s, c)
  BY <1>1, RecordLemma
<1>3. /\ AttemptControlsRecorded = AttemptPositions(s)
      /\ AttemptControlsRecorded' = AttemptPositions(t)
  BY DEF AttemptControlsRecorded, AttemptPositions
<1>4. /\ Cardinality(AttemptControlsRecorded) \in Nat
      /\ Cardinality(AttemptControlsRecorded') \in Nat
      /\ Cardinality(AttemptControlsRecorded') =
            Cardinality(AttemptControlsRecorded)
               + (IF ~KeyRetained(projection, c) /\ IsAttemptControl(c) THEN 1 ELSE 0)
  <2>1. CASE KeyRetained(projection, c)
    BY <1>2, <1>3, <2>1, AttemptCount
  <2>2. CASE ~KeyRetained(projection, c)
    <3>1. t = Append(s, c)
      BY <1>2, <2>2
    <3>. HIDE DEF s, t
    <3>. QED BY <1>1, <1>3, <2>2, <3>1, CountedControls
  <2>. QED BY <2>1, <2>2
<1>5. projection.attempts \in Nat
  BY <1>1, Numbers DEF Numeric
<1>. QED BY <1>4, <1>5 DEF AttemptsAuthorized

(* The control that is recorded stands last when it was not retained.      *)
LEMMA RecordedLast ==
    ASSUME TypeOK, NEW c \in AllControls, ~KeyRetained(projection, c),
           Len(projection.controls) < MaxControls
    PROVE  LET t == RecordRunControl(projection, c).controls
           IN  t[Len(t)] = c
<1>1. projection \in Projections /\ projection.controls \in Seq(AllControls)
  BY DEF TypeOK, Projections, ControlHistories
<1>2. RecordRunControl(projection, c).controls = Append(projection.controls, c)
  BY <1>1, RecordLemma
<1>. QED BY <1>1, <1>2, Appended

(* Retirement was never recorded in a run that is open.                    *)
LEMMA RetirementIsNew == TypeOK /\ QueueInv => ~KeyRetained(projection, Retirement)
<1>. SUFFICES ASSUME TypeOK, QueueInv PROVE ~KeyRetained(projection, Retirement)
  OBVIOUS
<1>1. \A i \in 1..Len(projection.controls) : projection.controls[i] \in Controls
  BY ElementOfSeq
  DEF TypeOK, Projections, ControlHistories, QueueInv, RetainedAreKnown,
      Operator, AllControls
<1>. QED BY <1>1, ControlAssumption DEF KeyRetained

(* A run that is cancelled by a queued cancel, at any place, keeps the     *)
(* history: if retirement is queued it is the cancel that is recorded.     *)
LEMMA CancelledHistory ==
    ASSUME TypeOK, TypeOK', IInv, HistoryInv, pc \in {"loop", "settled", "take"},
           pc' = "closed", NEW c \in AllControls,
           retirementQueued => c = Retirement,
           retirementQueued' = retirementQueued,
           projection' = CancelRun(RecordRunControl(projection, c))
    PROVE  HistoryInv'
<1>. DEFINE r == RecordRunControl(projection, c)
<1>1. Len(projection.controls) < MaxControls
  BY RoomForControl
<1>2. r \in Projections /\ r.attempts = projection.attempts
  BY RecordLemma DEF TypeOK
<1>3. /\ projection'.state = "cancelled" /\ projection'.controls = r.controls
      /\ projection'.attempts = projection.attempts
  BY <1>2, CancelLemma
<1>4. AttemptsAuthorized'
  BY <1>1, <1>3, RecordedAttempts DEF HistoryInv
<1>5. RetirementClosesTheRun'
  <2>. SUFFICES ASSUME retirementQueued
                PROVE  projection'.controls[Len(projection'.controls)] = Retirement
    BY <1>3 DEF RetirementClosesTheRun
  <2>1. c = Retirement /\ ~KeyRetained(projection, c)
    BY RetirementIsNew DEF HistoryInv
  <2>. HIDE DEF r
  <2>2. LET t == r.controls IN t[Len(t)] = c
    BY <1>1, <2>1, RecordedLast DEF r
  <2>. QED BY <1>3, <2>1, <2>2
<1>. QED BY <1>4, <1>5 DEF HistoryInv

(* A queued cancel is recorded like any control, in front of the queue.    *)
LEMMA QueuedCancelHistory ==
    ASSUME TypeOK, TypeOK', IInv, HistoryInv, ApplyQueuedCancel,
           pc \in {"loop", "settled"}, retirementQueued' = retirementQueued
    PROVE  HistoryInv'
<1>1. PICK i \in 1..Len(pending) :
          /\ IsCancel(pending[i]) /\ \A j \in 1..(i - 1) : ~IsCancel(pending[j])
          /\ projection' = CancelRun(RecordRunControl(projection, pending[i]))
  BY DEF ApplyQueuedCancel
<1>2. pending[i] \in AllControls
  BY ElementOfSeq DEF TypeOK
<1>3. retirementQueued => pending[i] = Retirement
  <2>. SUFFICES ASSUME retirementQueued PROVE i = 1 /\ pending[1] = Retirement
    OBVIOUS
  <2>1. pending[1] = Retirement
    BY DEF HistoryInv, QueueInv, RetirementIsNext
  <2>2. IsCancel(pending[1])
    BY <2>1, ControlAssumption DEF IsCancel
  <2>3. Len(pending) \in Nat
    BY LenProperties DEF TypeOK
  <2>. QED BY <1>1, <2>1, <2>2, <2>3
<1>. QED BY <1>1, <1>2, <1>3, CancelledHistory DEF ApplyQueuedCancel

(* A control leaves the queue, recorded or dropped.                        *)
LEMMA TakenQueue ==
    ASSUME TypeOK, QueueInv, pending # << >>, Operator(Head(pending)),
           pending' = Tail(pending),
           UNCHANGED <<queuedKeys, retirementQueued>>,
           Len(projection.controls) < MaxControls,
           \/ projection'.controls = projection.controls
           \/ projection'.controls =
                 RecordRunControl(projection, Head(pending)).controls
    PROVE  QueueInv' /\ ~KeyRetained(projection, Head(pending))
<1>. DEFINE c == Head(pending)
            s == projection.controls
<1>1. /\ Len(pending) \in Nat /\ Len(pending) >= 1
      /\ Len(pending') = Len(pending) - 1 /\ c = pending[1]
      /\ \A i \in 1..Len(pending') : i + 1 \in 2..Len(pending) /\ pending'[i] = pending[i + 1]
  BY Shifted DEF TypeOK
<1>2. c \in AllControls /\ projection \in Projections /\ s \in Seq(AllControls)
  BY <1>1, ElementOfSeq DEF TypeOK, Projections, ControlHistories
<1>3. ~KeyRetained(projection, c) /\ Remembered(c)
  BY <1>1 DEF QueueInv, PendingAreNew
<1>4. ~retirementQueued
  BY <1>1 DEF QueueInv, RetirementIsNext, Operator
<1>5. RecordRunControl(projection, c).controls = Append(s, c)
  BY <1>2, <1>3, RecordLemma
<1>6. \A i \in 1..Len(projection'.controls) :
         \/ projection'.controls[i] = c
         \/ i \in 1..Len(s) /\ projection'.controls[i] = s[i]
  <2>1. CASE projection'.controls = s
    BY <2>1
  <2>2. CASE projection'.controls = Append(s, c)
    <3>. DEFINE t == projection'.controls
    <3>1. /\ t[Len(t)] = c
          /\ \A i \in 1..Len(s) : t[i] = s[i]
          /\ \A i \in 1..Len(t) : i = Len(t) \/ i \in 1..Len(s)
      <4>. HIDE DEF s, c, t
      <4>. QED BY <1>2, <2>2, Appended DEF t
    <3>. QED BY <3>1
  <2>. QED BY <1>5, <2>1, <2>2
<1>7. RetainedAreKnown'
  BY <1>3, <1>6 DEF QueueInv, RetainedAreKnown, Remembered, Operator
<1>8. PendingAreNew'
  <2>. SUFFICES ASSUME NEW i \in 1..Len(pending')
                PROVE  /\ Remembered(pending[i + 1])
                       /\ Operator(pending[i + 1])
                       /\ ~KeyRetained(projection', pending[i + 1])
    BY <1>1 DEF PendingAreNew, Operator, Remembered, KeyRetained
  <2>1. i + 1 \in 1..Len(pending) /\ i + 1 # 1
    BY <1>1
  <2>2. /\ Remembered(pending[i + 1]) /\ Operator(pending[i + 1])
        /\ ~KeyRetained(projection, pending[i + 1])
    BY <1>4, <2>1 DEF QueueInv, PendingAreNew
  <2>3. pending[i + 1].id # c.id /\ pending[i + 1].key # c.key
    BY <1>1, <2>1 DEF QueueInv, PendingAreDistinct
  <2>. QED BY <1>6, <2>2, <2>3 DEF KeyRetained
<1>9. PendingAreDistinct'
  <2>. SUFFICES ASSUME NEW i \in 1..Len(pending'), NEW j \in 1..Len(pending'), i # j
                PROVE  /\ pending[i + 1].id # pending[j + 1].id
                       /\ pending[i + 1].key # pending[j + 1].key
    BY <1>1 DEF PendingAreDistinct
  <2>1. i + 1 \in 1..Len(pending) /\ j + 1 \in 1..Len(pending) /\ i + 1 # j + 1
    BY <1>1
  <2>. QED BY <2>1 DEF QueueInv, PendingAreDistinct
<1>. QED BY <1>3, <1>4, <1>7, <1>8, <1>9 DEF QueueInv, RetirementIsNext

(* A control of the control loop is applied or dropped.                    *)
LEMMA TakeControlHistory ==
    TypeOK /\ TypeOK' /\ IInv /\ HistoryInv /\ TakeControl => HistoryInv'
<1>. SUFFICES ASSUME TypeOK, TypeOK', IInv, HistoryInv, TakeControl
              PROVE  HistoryInv'
  OBVIOUS
<1>1. /\ pc = "take" /\ QueueInv /\ AttemptsAuthorized
      /\ UNCHANGED <<queuedKeys, retirementQueued, approvalExpired>>
      /\ Len(projection.controls) < MaxControls
  BY RoomForControl DEF TakeControl, HistoryInv
<1>2. AtTake /\ Sound(projection) /\ projection \in Projections
  BY <1>1 DEF IInv, TypeOK
<1>3. CASE pending = << >>
  <2>1. pc' = "controls" /\ UNCHANGED <<projection, pending>>
    BY <1>3 DEF TakeControl
  <2>2. QueueInv'
    BY <1>1, <2>1 DEF QueueInv, RetainedAreKnown, PendingAreNew,
                      PendingAreDistinct, RetirementIsNext, Remembered, KeyRetained
  <2>. QED BY <1>1, <2>1, <2>2, StillAuthorized DEF HistoryInv, RetirementClosesTheRun
<1>4. CASE pending # << >>
  <2>. DEFINE c == Head(pending)
              r == RecordRunControl(projection, c)
  <2>1. /\ c \in AllControls /\ c = pending[1] /\ 1 \in 1..Len(pending)
        /\ pending' = Tail(pending)
    BY <1>4, Shifted, ElementOfSeq DEF TypeOK, TakeControl
  <2>2. r \in Projections /\ r.attempts = projection.attempts
    BY <1>2, <2>1, RecordLemma
  <2>3. c = Retirement => ControlIsAvailable(c)
    BY <1>2, ControlAssumption
    DEF AtTake, Sound, AssertRunProjection, ControlIsAvailable, AvailableIn,
        ControlActions
  <2>4. retirementQueued => c = Retirement
    BY <1>1, <2>1 DEF QueueInv, RetirementIsNext
  <2>. HIDE DEF c, r
  <2>5. CASE ControlIsAvailable(c) /\ IsCancel(c)
    <3>1. pc' = "closed" /\ projection' = CancelRun(r)
      BY <1>4, <2>5 DEF TakeControl, ApplyControl, IsCancel, IsAttemptControl, c, r
    <3>. QED BY <1>1, <2>1, <2>4, <3>1, CancelledHistory DEF r
  <2>6. CASE ~(ControlIsAvailable(c) /\ IsCancel(c))
    <3>1. Operator(c)
      BY <2>3, <2>6, ControlAssumption DEF IsCancel, Operator
    <3>2. \/ /\ projection' = projection /\ pc' = "take"
          \/ /\ projection' = DeferRun(r) /\ pc' = "take"
          \/ /\ projection' = r /\ pc' = "loop" /\ IsAttemptControl(c)
      BY <1>1, <1>4, <2>6
      DEF TakeControl, ApplyControl, IsCancel, IsAttemptControl, c, r
    <3>3. /\ projection'.attempts = projection.attempts
          /\ projection'.controls \in {projection.controls, r.controls}
      BY <2>2, <3>2, DeferLemma
    <3>4. QueueInv' /\ ~KeyRetained(projection, c)
      BY <1>1, <1>4, <2>1, <3>1, <3>3, TakenQueue DEF c, r
    <3>5. AttemptsAuthorized'
      <4>1. CASE projection'.controls = projection.controls /\ pc' # "loop"
        BY <1>1, <3>3, <4>1, StillAuthorized
      <4>2. CASE projection'.controls = r.controls /\ (pc' # "loop" \/ IsAttemptControl(c))
        BY <1>1, <2>1, <3>3, <3>4, <4>2, RecordedAttempts DEF r
      <4>. QED BY <2>2, <3>2, <3>3, <4>1, <4>2, DeferLemma
    <3>. QED
      BY <3>2, <3>4, <3>5 DEF HistoryInv, RetirementClosesTheRun
  <2>. QED BY <2>5, <2>6
<1>. QED BY <1>3, <1>4

(* The steps that neither queue nor record: closing among them only        *)
(* without a retirement.                                                   *)
LEMMA SameHistory ==
    ASSUME TypeOK, TypeOK', HistoryInv, pc # "closed",
           UNCHANGED <<pending, queuedKeys, retirementQueued, approvalExpired>>,
           projection'.controls = projection.controls,
           \/ projection'.attempts = projection.attempts /\ (pc' = "loop" => pc = "loop")
           \/ projection'.attempts = projection.attempts + 1 /\ pc = "loop" /\ pc' # "loop",
           pc' = "closed" => approvalExpired \/ ~retirementQueued
    PROVE  HistoryInv'
<1>1. AttemptsAuthorized'
  BY StillAuthorized DEF HistoryInv
<1>2. QueueInv'
  BY DEF HistoryInv, QueueInv, RetainedAreKnown, PendingAreNew,
         PendingAreDistinct, RetirementIsNext, Remembered, KeyRetained
<1>. QED BY <1>1, <1>2 DEF HistoryInv, RetirementClosesTheRun

(* While a retirement is queued a cancel is pending.                       *)
LEMMA RetirementIsPending ==
    TypeOK /\ QueueInv /\ ~CancelPending => ~retirementQueued
<1>. SUFFICES ASSUME TypeOK, QueueInv, retirementQueued PROVE CancelPending
  OBVIOUS
<1>1. pending # << >> /\ pending[1] = Retirement
  BY DEF QueueInv, RetirementIsNext
<1>2. 1 \in 1..Len(pending)
  BY <1>1, Shifted DEF TypeOK
<1>. QED BY <1>1, <1>2, ControlAssumption DEF CancelPending, IsCancel

(* Every step keeps the history.                                           *)
LEMMA NextHistory == TypeOK /\ IInv /\ HistoryInv /\ [Next]_vars => HistoryInv'
<1>. SUFFICES ASSUME TypeOK, IInv, HistoryInv, [Next]_vars PROVE HistoryInv'
  OBVIOUS
<1>0. TypeOK'
  BY NextType
<1>1. CASE HandleSignal
  <2>1. pc # "closed" /\ pc' = pc /\ projection' = projection
    BY <1>1 DEF HandleSignal, AtAwait
  <2>2. QueueInv'
    BY <1>1, <2>1, HandledQueue DEF HistoryInv
  <2>3. AttemptsAuthorized'
    BY <1>0, <2>1, StillAuthorized DEF HistoryInv
  <2>. QED BY <2>1, <2>2, <2>3 DEF HistoryInv, RetirementClosesTheRun
<1>2. CASE Begin
  <2>1. AtStart /\ QueueInv /\ pc = "start" /\ projection \in Projections
    BY <1>2 DEF Begin, IInv, HistoryInv, TypeOK
  <2>2. CASE approvalExpired
    <3>1. /\ projection'.controls = projection.controls
          /\ projection'.attempts = projection.attempts /\ pc' = "closed"
      BY <1>2, <2>1, <2>2, RejectLemma DEF Begin
    <3>. QED BY <1>0, <1>2, <2>1, <2>2, <3>1, SameHistory DEF Begin
  <2>3. CASE ~approvalExpired
    <3>1. projection' = projection /\ pc' = "loop"
      BY <1>2, <2>3 DEF Begin
    <3>2. QueueInv'
      BY <1>2, <2>1, <3>1
      DEF Begin, QueueInv, RetainedAreKnown, PendingAreNew,
          PendingAreDistinct, RetirementIsNext, Remembered, KeyRetained
    <3>3. AttemptsAuthorized'
      <4>1. AttemptControlsRecorded' = AttemptControlsRecorded
        BY <3>1 DEF AttemptControlsRecorded
      <4>. QED BY <2>1, <3>1, <4>1, AttemptCount DEF AtStart, AttemptsAuthorized
    <3>. QED BY <3>1, <3>2, <3>3 DEF HistoryInv, RetirementClosesTheRun
  <2>. QED BY <2>2, <2>3
<1>3. CASE LoopHead
  <2>1. AtLoop /\ QueueInv /\ pc = "loop" /\ projection \in Projections
    BY <1>3 DEF LoopHead, IInv, HistoryInv, TypeOK
  <2>2. CASE CancelPending
    BY <1>0, <1>3, <2>1, <2>2, QueuedCancelHistory DEF LoopHead
  <2>3. CASE ~CancelPending
    <3>1. /\ projection'.controls = projection.controls
          /\ projection'.attempts = projection.attempts + 1 /\ pc' = "activity"
      BY <1>3, <2>1, <2>3, StartLemma DEF LoopHead, StartAttempt, AtLoop
    <3>. QED
      BY <1>0, <1>3, <2>1, <2>3, <3>1, SameHistory
      DEF LoopHead, StartAttempt, AtLoop
  <2>. QED BY <2>2, <2>3
<1>4. CASE ActivitySettles
  <2>1. /\ projection'.controls = projection.controls
        /\ projection'.attempts = projection.attempts
    <3>1. /\ AtActivity /\ Sound(projection)
          /\ projection' = SettledProjection(activity.outcome)
          /\ activity.outcome \in Results \cup Failures \cup {NoOutcome}
      BY <1>4 DEF ActivitySettles, IInv, TypeOK, ActivityStates
    <3>. QED BY <3>1, SettledLemma
  <2>. QED BY <1>0, <1>4, <2>1, SameHistory DEF ActivitySettles
<1>5. CASE AfterActivity
  <2>1. QueueInv /\ pc = "settled" /\ projection \in Projections
    BY <1>5 DEF AfterActivity, HistoryInv, TypeOK
  <2>2. CASE CancelPending
    BY <1>0, <1>5, <2>1, <2>2, QueuedCancelHistory DEF AfterActivity
  <2>3. CASE ~CancelPending
    <3>1. /\ projection' \in {projection, FinishExhaustedRun(projection)}
          /\ pc' # "loop"
      BY <1>5, <2>3 DEF AfterActivity, CloseOrHold
    <3>2. /\ projection'.controls = projection.controls
          /\ projection'.attempts = projection.attempts
      BY <2>1, <3>1, ExhaustedLemma
    <3>. QED
      BY <1>0, <1>5, <2>1, <2>3, <3>1, <3>2, SameHistory, RetirementIsPending
      DEF AfterActivity, CloseOrHold
  <2>. QED BY <2>2, <2>3
<1>6. CASE WakeForControl
  BY <1>0, <1>6, SameHistory DEF WakeForControl
<1>7. CASE TakeControl
  BY <1>0, <1>7, TakeControlHistory
<1>8. CASE ActivityRetry \/ ActivityReturn
  <2>1. pc # "closed"
    BY <1>8 DEF ActivityRetry, ActivityReturn, IInv, NoExecutionAfterClose
  <2>. QED BY <1>0, <1>8, <2>1, SameHistory DEF ActivityRetry, ActivityReturn
<1>9. ASSUME NEW c \in AllControls, SendSignal(c) PROVE HistoryInv'
  BY <1>0, <1>9, SameHistory DEF SendSignal, AtAwait
<1>10. CASE UNCHANGED vars
  BY <1>10
  DEF vars, HistoryInv, QueueInv, RetainedAreKnown, PendingAreNew,
      PendingAreDistinct, RetirementIsNext, Remembered, KeyRetained,
      AttemptsAuthorized, AttemptControlsRecorded, RetirementClosesTheRun
<1>. QED
  BY <1>1, <1>2, <1>3, <1>4, <1>5, <1>6, <1>7, <1>8, <1>9, <1>10
  DEF Next, Workflow

(* HistoryInv is an invariant, for every set of controls.                  *)
THEOREM HistoryInvariant == Spec => []HistoryInv
<1>. QED
  BY TypeCorrect, InductiveInvariant, InitHistory, NextHistory, PTL DEF Spec

(* No attempt after the first starts without a recorded retry or resume of *)
(* its own, over any number of attempts, signals and repeated keys.        *)
THEOREM AttemptsAreAuthorized == Spec => []AttemptsAuthorized
<1>1. HistoryInv => AttemptsAuthorized
  BY DEF HistoryInv
<1>. QED BY <1>1, HistoryInvariant, PTL

(* A run that retirement has signalled ends cancelled and cites retirement *)
(* last, unless its approval had expired when it started.                  *)
THEOREM RetirementCloses == Spec => []RetirementClosesTheRun
<1>1. HistoryInv => RetirementClosesTheRun
  BY DEF HistoryInv
<1>. QED BY <1>1, HistoryInvariant, PTL

-----------------------------------------------------------------------------
(* The evidence.                                                           *)

(* A settled projection has the evidence of the activity's outcome, and    *)
(* refuses a receipt id that comes with another digest.                    *)
LEMMA SettledEvidence ==
    ASSUME TypeOK, AtActivity, Sound(projection), EvidenceInv, pc = "activity",
           activity.outcome \in Results \cup Failures \cup {NoOutcome},
           NEW q, q = SettledProjection(activity.outcome)
    PROVE  /\ q \in Projections
           /\ q.attempts = projection.attempts
           /\ projection.receipts \subseteq q.receipts
           /\ \A r, s \in q.receipts : r.id = s.id => r = s
           /\ q.state = "completed" <=> q.effect = "verified"
           /\ q.state = "completed" => q.receipts # {}
           /\ q.state = "cancelled" => q.aggregate.outcome = "cancelled-no-effect"
           /\ q.state = "failed" => (q.retryAvailable <=> HasAttemptCapacity(q))
<1>. DEFINE o == activity.outcome
            p == projection
<1>1. /\ p \in Projections /\ p.effect = "none" /\ p.state = "running"
      /\ \A r, s \in p.receipts : r.id = s.id => r = s
      /\ p.receipts \in ReceiptSets
  BY DEF TypeOK, EvidenceInv, ReceiptsBoundToOneDigest, AtActivity, Projections
<1>2. CASE /\ o.kind = "result" /\ AssertWgcfActivityResult(o)
           /\ ~ReceiptRefused(p, o.receipt)
  <2>. DEFINE receipts == p.receipts \cup {o.receipt}
  <2>1. o \in Results
    BY <1>2 DEF Results, Failures, NoOutcome
  <2>2. o.receipt \in ReceiptRefs
    BY <2>1 DEF Results
  <2>3. receipts \in ReceiptSets /\ receipts # {} /\ p.receipts \subseteq receipts
    BY <1>1, <2>2 DEF ReceiptSets
  <2>4. \A r, s \in receipts : r.id = s.id => r = s
    <3>1. \A r \in p.receipts : r \in ReceiptRefs
      BY <1>1 DEF ReceiptSets
    <3>2. \A r \in p.receipts : r.id = o.receipt.id => r.digest = o.receipt.digest
      BY <1>2 DEF ReceiptRefused
    <3>3. \A r \in p.receipts : r.id = o.receipt.id => r = o.receipt
      BY <2>2, <3>1, <3>2 DEF ReceiptRefs
    <3>. QED BY <1>1, <3>3
  <2>5. q = IF o.status = "ready" THEN ProjectReady(p, receipts)
                                  ELSE ProjectNotReady(p, receipts)
    BY <1>2 DEF SettledProjection, ProjectWgcfResult
  <2>. HIDE DEF receipts, p
  <2>6. /\ q \in Projections /\ q.attempts = p.attempts /\ q.receipts = receipts
        /\ \/ q.state = "completed" /\ q.effect = "verified"
           \/ q.state = "blocked" /\ q.effect = "none"
    <3>1. CASE q = ProjectReady(p, receipts)
      BY <1>1, <2>3, <3>1, ReadyLemma
    <3>2. CASE q = ProjectNotReady(p, receipts)
      BY <1>1, <2>3, <3>2, NotReadyLemma
    <3>. QED BY <2>5, <3>1, <3>2
  <2>. QED BY <2>3, <2>4, <2>6 DEF p
<1>3. CASE q = p
  BY <1>1, <1>3
<1>4. ASSUME NEW type, q = ProjectActivityFailure(p, type)
      PROVE  /\ q \in Projections /\ q.attempts = p.attempts
             /\ q.receipts = p.receipts /\ q.effect = "none"
             /\ q.state \in {"cancelled", "blocked", "failed"}
             /\ q.state = "cancelled" => q.aggregate.outcome = "cancelled-no-effect"
             /\ q.state = "failed" => (q.retryAvailable <=> HasAttemptCapacity(q))
  <2>1. CancelOutcome(p) = "cancelled-no-effect"
    BY <1>1 DEF CancelOutcome
  <2>. HIDE DEF p
  <2>2. /\ q \in Projections /\ q.attempts = p.attempts
        /\ q.receipts = p.receipts /\ q.effect = p.effect
        /\ q.state \in {"cancelled", "blocked", "failed"}
        /\ q.state = "cancelled" => q.aggregate.outcome = CancelOutcome(p)
        /\ q.state = "failed" => q.retryAvailable = HasAttemptCapacity(p)
    BY <1>1, <1>4, FailureLemma
  <2>. QED BY <1>1, <2>1, <2>2 DEF HasAttemptCapacity
<1>5. CASE \E type : q = ProjectActivityFailure(p, type)
  BY <1>1, <1>4, <1>5
<1>. QED BY <1>2, <1>3, <1>5 DEF SettledProjection

(* The steps that bring no evidence.                                       *)
LEMMA SameEvidence ==
    ASSUME EvidenceInv, pc' # "settled",
           projection'.receipts = projection.receipts,
           projection'.effect = projection.effect,
           pc' # "closed" => projection.effect = "none"
    PROVE  EvidenceInv'
  BY DEF EvidenceInv, ReceiptsBoundToOneDigest

(* A recorded and applied cancel brings no evidence.                       *)
LEMMA QueuedCancelEvidence ==
    ASSUME TypeOK, ApplyQueuedCancel
    PROVE  /\ pc' = "closed"
           /\ projection'.receipts = projection.receipts
           /\ projection'.effect = projection.effect
           /\ projection'.attempts = projection.attempts
           /\ projection'.aggregate.outcome = CancelOutcome(projection)
<1>1. PICK i \in 1..Len(pending) :
          projection' = CancelRun(RecordRunControl(projection, pending[i]))
  BY DEF ApplyQueuedCancel
<1>. DEFINE r == RecordRunControl(projection, pending[i])
<1>2. /\ r \in Projections /\ r.receipts = projection.receipts
      /\ r.effect = projection.effect /\ r.attempts = projection.attempts
  BY RecordLemma, ElementOfSeq DEF TypeOK
<1>. HIDE DEF r
<1>. QED BY <1>1, <1>2, CancelLemma DEF r, ApplyQueuedCancel, CancelOutcome

(* What a control of the control loop does to evidence and outcome.        *)
LEMMA TakenEvidence ==
    ASSUME TypeOK, TakeControl
    PROVE  /\ projection'.receipts = projection.receipts
           /\ projection'.effect = projection.effect
           /\ projection'.attempts = projection.attempts
           /\ pc' \in {"controls", "take", "loop", "closed"}
           /\ pc' = "closed" =>
                 projection'.aggregate.outcome = CancelOutcome(projection)
<1>1. CASE UNCHANGED projection /\ pc' \in {"controls", "take"}
  BY <1>1
<1>2. CASE pending # << >> /\ ApplyControl(Head(pending))
  <2>. DEFINE r == RecordRunControl(projection, Head(pending))
  <2>1. /\ r \in Projections /\ r.receipts = projection.receipts
        /\ r.effect = projection.effect /\ r.attempts = projection.attempts
    BY <1>2, RecordLemma, HeadTailProperties DEF TypeOK
  <2>2. \/ projection' = CancelRun(r) /\ pc' = "closed"
        \/ projection' = DeferRun(r) /\ pc' = "take"
        \/ projection' = r /\ pc' = "loop"
    BY <1>2 DEF ApplyControl
  <2>. HIDE DEF r
  <2>. QED BY <2>1, <2>2, CancelLemma, DeferLemma DEF CancelOutcome
<1>. QED BY <1>1, <1>2 DEF TakeControl

(* What the end of the activation after an activity does.                  *)
LEMMA HeldOrClosed ==
    ASSUME TypeOK, IInv, EvidenceInv, AfterActivity
    PROVE  /\ projection'.receipts = projection.receipts
           /\ projection'.effect = projection.effect
           /\ projection'.attempts = projection.attempts
           /\ \/ pc' = "take" /\ projection.effect = "none"
              \/ /\ pc' = "closed"
                 /\ \/ projection'.aggregate.outcome = CancelOutcome(projection)
                    \/ /\ projection'.aggregate.outcome = "completed"
                       /\ projection.effect = "verified"
                    \/ /\ projection'.aggregate.outcome = "failed-no-effect"
                       /\ ~HasAttemptCapacity(projection)
<1>. DEFINE p == projection
<1>1. /\ pc = "settled" /\ AtSettled /\ Sound(p) /\ p \in Projections
      /\ p.state = "completed" <=> p.effect = "verified"
      /\ p.effect \in {"none", "verified"}
      /\ p.state = "cancelled" => p.aggregate.outcome = "cancelled-no-effect"
      /\ p.state = "failed" => (p.retryAvailable <=> HasAttemptCapacity(p))
  BY DEF AfterActivity, IInv, EvidenceInv, TypeOK, Projections, Effects
<1>2. CASE CancelPending
  BY <1>2, QueuedCancelEvidence DEF AfterActivity
<1>3. CASE ~CancelPending /\ p.state \in {"completed", "cancelled"}
  <2>1. projection' = p /\ pc' = "closed"
    BY <1>3 DEF AfterActivity, CloseOrHold
  <2>2. p.state = "completed" => p.aggregate.outcome = "completed"
    BY <1>1
    DEF Sound, AssertRunProjection, Terminal, OutcomeMatchesState
  <2>. QED BY <1>1, <1>3, <2>1, <2>2 DEF CancelOutcome
<1>4. CASE ~CancelPending /\ p.state = "failed" /\ ~p.retryAvailable
  <2>1. projection' = FinishExhaustedRun(p) /\ pc' = "closed"
    BY <1>4 DEF AfterActivity, CloseOrHold
  <2>2. p.effect = "none" /\ ~HasAttemptCapacity(p)
    BY <1>1, <1>4
  <2>. HIDE DEF p
  <2>3. /\ projection'.receipts = p.receipts /\ projection'.effect = p.effect
        /\ projection'.attempts = p.attempts
        /\ projection'.aggregate.outcome = "failed-no-effect"
    BY <1>1, <1>4, <2>1, <2>2, ExhaustedLemma
  <2>. QED BY <2>1, <2>2, <2>3 DEF p
<1>5. CASE /\ ~CancelPending /\ p.state \notin {"completed", "cancelled"}
           /\ ~(p.state = "failed" /\ ~p.retryAvailable)
  <2>1. projection' = p /\ pc' = "take"
    BY <1>5 DEF AfterActivity, CloseOrHold
  <2>. QED BY <1>1, <1>5, <2>1
<1>. QED BY <1>2, <1>3, <1>4, <1>5

(* Every step keeps the evidence.                                          *)
LEMMA NextEvidence ==
    TypeOK /\ IInv /\ EvidenceInv /\ [Next]_vars => EvidenceInv'
<1>. SUFFICES ASSUME TypeOK, IInv, EvidenceInv, [Next]_vars PROVE EvidenceInv'
  OBVIOUS
<1>1. CASE Begin
  <2>1. /\ projection'.receipts = projection.receipts
        /\ projection'.effect = projection.effect
    BY <1>1, RejectLemma DEF Begin, TypeOK
  <2>. QED BY <1>1, <2>1, SameEvidence DEF Begin, EvidenceInv
<1>2. CASE LoopHead
  <2>1. AtLoop /\ projection \in Projections /\ projection.effect = "none"
    BY <1>2 DEF LoopHead, IInv, TypeOK, EvidenceInv
  <2>2. CASE CancelPending
    BY <1>2, <2>1, <2>2, QueuedCancelEvidence, SameEvidence DEF LoopHead
  <2>3. CASE ~CancelPending
    <3>1. /\ projection'.receipts = projection.receipts
          /\ projection'.effect = projection.effect /\ pc' = "activity"
      BY <1>2, <2>1, <2>3, StartLemma DEF LoopHead, StartAttempt, AtLoop
    <3>. QED BY <2>1, <3>1, SameEvidence
  <2>. QED BY <2>2, <2>3
<1>3. CASE ActivitySettles
  <2>1. /\ AtActivity /\ Sound(projection) /\ pc = "activity" /\ pc' = "settled"
        /\ projection' = SettledProjection(activity.outcome)
        /\ activity.outcome \in Results \cup Failures \cup {NoOutcome}
    BY <1>3 DEF ActivitySettles, IInv, TypeOK, ActivityStates
  <2>. DEFINE q == SettledProjection(activity.outcome)
  <2>2. /\ \A r, s \in q.receipts : r.id = s.id => r = s
        /\ q.state = "completed" <=> q.effect = "verified"
        /\ q.state = "completed" => q.receipts # {}
        /\ q.state = "cancelled" => q.aggregate.outcome = "cancelled-no-effect"
        /\ q.state = "failed" => (q.retryAvailable <=> HasAttemptCapacity(q))
    BY <2>1, SettledEvidence
  <2>. HIDE DEF q
  <2>3. projection' = q
    BY <2>1 DEF q
  <2>. QED BY <2>1, <2>2, <2>3 DEF EvidenceInv, ReceiptsBoundToOneDigest, HasAttemptCapacity
<1>4. CASE AfterActivity
  BY <1>4, HeldOrClosed, SameEvidence
<1>5. CASE TakeControl
  <2>1. projection.effect = "none"
    BY <1>5 DEF TakeControl, EvidenceInv
  <2>. QED BY <1>5, <2>1, TakenEvidence, SameEvidence
<1>6. CASE UNCHANGED <<pc, projection>>
  BY <1>6 DEF EvidenceInv, ReceiptsBoundToOneDigest, HasAttemptCapacity
<1>7. CASE WakeForControl
  BY <1>7, SameEvidence DEF WakeForControl, EvidenceInv
<1>. QED
  BY <1>1, <1>2, <1>3, <1>4, <1>5, <1>6, <1>7
  DEF Next, Workflow, HandleSignal, ActivityRetry, ActivityReturn, SendSignal, vars

(* EvidenceInv is an invariant, for every set of receipts and digests.     *)
THEOREM EvidenceInvariant == Spec => []EvidenceInv
<1>1. Init => EvidenceInv
  <2>. SUFFICES ASSUME Init PROVE EvidenceInv
    OBVIOUS
  <2>. QED
    BY CreateLemma DEF Init, EvidenceInv, ReceiptsBoundToOneDigest
<1>. QED BY <1>1, TypeCorrect, InductiveInvariant, NextEvidence, PTL DEF Spec

(* A receipt id stands for one digest over all the attempts of a run.      *)
THEOREM ReceiptsAreBound == Spec => []ReceiptsBoundToOneDigest
<1>1. EvidenceInv => ReceiptsBoundToOneDigest
  BY DEF EvidenceInv
<1>. QED BY <1>1, EvidenceInvariant, PTL

-----------------------------------------------------------------------------
(* The run implements RunLifecycle.                                        *)

(* The phase and the outcome at each place of the code.                    *)
PhaseFacts ==
    /\ pc \in {"activity", "settled"} => Phase = "executing"
    /\ pc = "closed" => Phase = "closed"
    /\ pc \in {"take", "controls"} => Phase = "held"
    /\ pc = "start" => Phase = "queued" /\ projection.attempts = 0
    /\ pc = "loop" => Phase \in {"queued", "held"}
    /\ pc # "closed" => PublishedOutcome = "none"
    /\ pc = "closed" => PublishedOutcome = projection.aggregate.outcome
    /\ projection.attempts \in Nat /\ projection.attempts <= MaxAttempts

(* The attempts tell a queued run from a held one.                         *)
LEMMA Phases == TypeOK /\ IInv => PhaseFacts
<1>. SUFFICES ASSUME TypeOK, IInv PROVE PhaseFacts
  OBVIOUS
<1>1. projection.attempts \in Nat /\ projection.attempts <= MaxAttempts
  BY Numbers DEF TypeOK, Numeric
<1>2. /\ pc = "start" => projection.attempts = 0
      /\ pc \in {"take", "controls"} => projection.attempts # 0
  BY <1>1 DEF IInv, AtStart, AtTake
<1>3. /\ pc # "closed" => PublishedOutcome = "none"
      /\ pc = "closed" => PublishedOutcome = projection.aggregate.outcome
  BY DEF PublishedOutcome
<1>4. /\ pc \in {"activity", "settled"} => Phase = "executing"
      /\ pc = "closed" => Phase = "closed"
  BY DEF Phase
<1>5. pc \in {"start", "loop", "take", "controls"} =>
         Phase = IF projection.attempts = 0 THEN "queued" ELSE "held"
  BY <1>1 DEF Phase
<1>. QED BY <1>1, <1>2, <1>3, <1>4, <1>5 DEF PhaseFacts

(* The effect decides what a cancel claims.                                *)
LEMMA CancelPromise ==
    ASSUME TypeOK, IInv, EvidenceInv, Phase # "closed", Phase' = "closed",
           PublishedOutcome' = CancelOutcome(projection),
           projection'.receipts = projection.receipts,
           projection'.attempts = projection.attempts,
           projection.effect = "none" \/ Phase = "executing"
    PROVE  Promise!Next
<1>1. CASE projection.effect = "none"
  BY <1>1 DEF CancelOutcome, Promise!Next, Promise!Cancel, Promise!Close
<1>2. CASE projection.effect # "none"
  <2>1. projection.receipts # {}
    BY <1>2 DEF EvidenceInv, TypeOK, Projections, Effects
  <2>. QED
    BY <1>2, <2>1
    DEF CancelOutcome, Promise!Next, Promise!CancelVerified, Promise!Close
<1>. QED BY <1>1, <1>2

(* A step that changes nothing an operator sees.                           *)
LEMMA Stutter ==
    ASSUME Phase' = Phase, PublishedOutcome' = PublishedOutcome,
           projection'.receipts = projection.receipts,
           projection'.attempts = projection.attempts
    PROVE  UNCHANGED Promise!vars
  BY DEF Promise!vars

(* Every step of the workflow is a step of the promise, or none.           *)
LEMMA NextPromise ==
    TypeOK /\ IInv /\ EvidenceInv /\ [Next]_vars => [Promise!Next]_(Promise!vars)
<1>. SUFFICES ASSUME TypeOK, IInv, EvidenceInv, [Next]_vars
              PROVE  Promise!Next \/ UNCHANGED Promise!vars
  OBVIOUS
<1>0. TypeOK' /\ IInv' /\ projection \in Projections
  BY NextType, NextInv DEF TypeOK
<1>1. PhaseFacts
  BY Phases
<1>2. PhaseFacts'
  BY <1>0, Phases, PTL
<1>. USE DEF PhaseFacts
<1>3. projection'.attempts = projection.attempts /\ pc' = "loop" /\ pc \in {"start", "take"}
         => Phase' = Phase
  BY <1>1, AttemptsAssumption DEF Phase
<1>4. CASE Begin
  <2>1. CASE approvalExpired
    <3>1. /\ projection'.receipts = projection.receipts
          /\ projection'.attempts = projection.attempts
          /\ projection'.aggregate.outcome = "failed-no-effect"
          /\ pc = "start" /\ pc' = "closed"
      BY <1>0, <1>4, <2>1, RejectLemma DEF Begin
    <3>. QED BY <1>1, <1>2, <3>1 DEF Promise!Next, Promise!Reject, Promise!Close
  <2>2. CASE ~approvalExpired
    BY <1>1, <1>2, <1>3, <1>4, <2>2, Stutter DEF Begin
  <2>. QED BY <2>1, <2>2
<1>5. CASE LoopHead
  <2>1. AtLoop /\ pc = "loop" /\ projection.effect = "none"
    BY <1>5 DEF LoopHead, IInv, EvidenceInv
  <2>2. CASE CancelPending
    BY <1>1, <1>2, <1>5, <2>1, <2>2, QueuedCancelEvidence, CancelPromise DEF LoopHead
  <2>3. CASE ~CancelPending
    <3>1. /\ projection'.receipts = projection.receipts
          /\ projection'.attempts = projection.attempts + 1 /\ pc' = "activity"
          /\ projection.attempts < MaxAttempts
      BY <1>0, <1>5, <2>1, <2>3, StartLemma
      DEF LoopHead, StartAttempt, AtLoop, HasAttemptCapacity
    <3>. QED BY <1>1, <1>2, <2>1, <3>1 DEF Promise!Next, Promise!Execute
  <2>. QED BY <2>2, <2>3
<1>6. CASE ActivitySettles
  <2>1. /\ AtActivity /\ Sound(projection) /\ pc = "activity" /\ pc' = "settled"
        /\ projection' = SettledProjection(activity.outcome)
        /\ activity.outcome \in Results \cup Failures \cup {NoOutcome}
    BY <1>6 DEF ActivitySettles, IInv, TypeOK, ActivityStates
  <2>2. /\ projection'.attempts = projection.attempts
        /\ projection.receipts \subseteq projection'.receipts
    BY <2>1, SettledEvidence
  <2>3. projection'.receipts \in SUBSET ReceiptRefs
    BY <1>0 DEF TypeOK, Projections, ReceiptSets
  <2>. QED BY <1>1, <1>2, <2>1, <2>2, <2>3 DEF Promise!Next, Promise!Gather
<1>7. CASE AfterActivity
  <2>1. /\ pc = "settled"
        /\ projection'.receipts = projection.receipts
        /\ projection'.attempts = projection.attempts
        /\ projection.effect = "verified" => projection.receipts # {}
    BY <1>7, HeldOrClosed DEF AfterActivity, EvidenceInv
  <2>2. CASE pc' = "take"
    BY <1>1, <1>2, <2>1, <2>2 DEF Promise!Next, Promise!Hold
  <2>3. CASE pc' = "closed" /\ projection'.aggregate.outcome = CancelOutcome(projection)
    BY <1>1, <1>2, <2>1, <2>3, CancelPromise
  <2>4. CASE /\ pc' = "closed" /\ projection'.aggregate.outcome = "completed"
             /\ projection.effect = "verified"
    BY <1>1, <1>2, <2>1, <2>4 DEF Promise!Next, Promise!Complete, Promise!Close
  <2>5. CASE /\ pc' = "closed" /\ projection'.aggregate.outcome = "failed-no-effect"
             /\ ~HasAttemptCapacity(projection)
    <3>1. projection.attempts = MaxAttempts
      BY <1>1, <2>5, AttemptsAssumption DEF HasAttemptCapacity
    <3>. QED BY <1>1, <1>2, <2>1, <2>5, <3>1 DEF Promise!Next, Promise!Exhaust, Promise!Close
  <2>. QED BY <1>7, <2>2, <2>3, <2>4, <2>5, HeldOrClosed
<1>8. CASE TakeControl
  <2>1. /\ pc = "take" /\ projection.effect = "none"
        /\ projection'.receipts = projection.receipts
        /\ projection'.attempts = projection.attempts
        /\ pc' \in {"controls", "take", "loop", "closed"}
        /\ pc' = "closed" => projection'.aggregate.outcome = CancelOutcome(projection)
    BY <1>8, TakenEvidence DEF TakeControl, EvidenceInv
  <2>2. CASE pc' = "closed"
    BY <1>1, <1>2, <2>1, <2>2, CancelPromise
  <2>3. CASE pc' # "closed"
    BY <1>1, <1>2, <1>3, <2>1, <2>3, Stutter
  <2>. QED BY <2>2, <2>3
<1>9. CASE WakeForControl
  BY <1>1, <1>2, <1>9, Stutter DEF WakeForControl
<1>10. CASE UNCHANGED <<pc, projection>>
  BY <1>10, Stutter DEF Phase, PublishedOutcome
<1>. QED
  BY <1>4, <1>5, <1>6, <1>7, <1>8, <1>9, <1>10
  DEF Next, Workflow, HandleSignal, ActivityRetry, ActivityReturn, SendSignal, vars

(* Whatever controls, results and failures reach it, a run keeps the       *)
(* promise of RunLifecycle: bounded executions, one at a time; evidence    *)
(* that only grows; one final outcome that claims no more than it.         *)
THEOREM PromiseIsKept == Spec => KeepsPromise
<1>1. Init => Promise!Init
  <2>. SUFFICES ASSUME Init PROVE Promise!Init
    OBVIOUS
  <2>1. projection.attempts = 0 /\ projection.receipts = {}
    BY CreateLemma DEF Init
  <2>. QED BY <2>1 DEF Init, Promise!Init, Phase, PublishedOutcome
<1>. QED
  BY <1>1, TypeCorrect, InductiveInvariant, EvidenceInvariant, NextPromise, PTL
  DEF Spec, KeepsPromise, Promise!Spec

-----------------------------------------------------------------------------
(* The control API.  The calls read the run and signal it, so a step of    *)
(* the API is a step of the run or leaves it alone, and every invariant of *)
(* the run holds under it.  The rest rests on one fact: the retained       *)
(* controls of a run only grow, and not after it closed.                   *)

Stages == {"idle", "admitted", "signalled", "replied"}
Replies == {"none", "matched", "conflict", "not-applied", "unavailable"}
CallStates == [stage : Stages, number : Nat, reply : Replies,
               seen : Projections, read : Projections]

ApiTypeOK == call \in [Callers -> CallStates]

Retained(control) ==
    \E i \in 1..Len(projection.controls) : projection.controls[i] = control

(* What a reply says of the run, now and from now on.                      *)
ReplyIsTrue(o) ==
    /\ call[o].reply = "matched" => Retained(ControlOf[o])
    /\ call[o].reply = "not-applied" /\ Terminal(call[o].read) =>
          /\ pc = "closed"
          /\ RetainedControlOutcome(projection, ControlOf[o]) = "not-applied"

ApiInv == \A o \in Callers : ReplyIsTrue(o)

-----------------------------------------------------------------------------
(* The run under its API.                                                  *)

(* A step of the API is a step of the run or leaves it alone.              *)
LEMMA ApiStep == [ApiNext]_apiVars => [Next]_vars
<1>. SUFFICES ASSUME [ApiNext]_apiVars PROVE [Next]_vars
  OBVIOUS
<1>1. CASE Runtime
  BY <1>1 DEF Runtime, Next
<1>2. CASE Retire
  BY <1>2 DEF Retire, Next, AllControls
<1>3. ASSUME NEW o \in Callers,
             Admit(o) \/ SignalRun(o) \/ SignalFails(o) \/ ReadBack(o)
      PROVE  [Next]_vars
  <2>1. ControlOf[o] \in AllControls
    BY CallerAssumption DEF AllControls
  <2>. QED BY <1>3, <2>1 DEF Admit, SignalRun, SignalFails, ReadBack, Next
<1>4. CASE UNCHANGED apiVars
  BY <1>4 DEF apiVars
<1>. QED BY <1>1, <1>2, <1>3, <1>4 DEF ApiNext

(* Every behaviour of the API is one of the run.                           *)
THEOREM ApiRunsTheRun == ApiSpec => Spec
<1>1. ApiInit => Init
  BY DEF ApiInit
<1>. QED BY <1>1, ApiStep, PTL DEF ApiSpec, Spec

-----------------------------------------------------------------------------
(* The retained controls.                                                  *)

ControlsStay == \A i \in 1..Len(projection.controls) :
                   /\ i \in 1..Len(projection'.controls)
                   /\ projection'.controls[i] = projection.controls[i]

(* A control that is recorded joins those that are retained.               *)
LEMMA RecordedStay ==
    ASSUME TypeOK, NEW c \in AllControls, Len(projection.controls) < MaxControls,
           projection'.controls = RecordRunControl(projection, c).controls
    PROVE  ControlsStay
<1>1. projection \in Projections /\ projection.controls \in Seq(AllControls)
  BY DEF TypeOK, Projections, ControlHistories
<1>2. RecordRunControl(projection, c).controls
         \in {projection.controls, Append(projection.controls, c)}
  BY <1>1, RecordLemma
<1>3. CASE projection'.controls = projection.controls
  BY <1>3 DEF ControlsStay
<1>4. CASE projection'.controls = Append(projection.controls, c)
  BY <1>1, <1>4, Appended DEF ControlsStay
<1>. QED BY <1>2, <1>3, <1>4

(* So does a cancel, which closes the run.                                 *)
LEMMA CancelledStay ==
    ASSUME TypeOK, NEW c \in AllControls, Len(projection.controls) < MaxControls,
           projection' = CancelRun(RecordRunControl(projection, c))
    PROVE  ControlsStay
<1>1. projection'.controls = RecordRunControl(projection, c).controls
  BY RecordLemma, CancelLemma DEF TypeOK
<1>. QED BY <1>1, RecordedStay

(* A queued cancel is recorded like any other.                             *)
LEMMA QueuedCancelStay ==
    ASSUME TypeOK, IInv, ApplyQueuedCancel, pc \in {"loop", "settled"}
    PROVE  ControlsStay
<1>1. PICK i \in 1..Len(pending) :
         projection' = CancelRun(RecordRunControl(projection, pending[i]))
  BY DEF ApplyQueuedCancel
<1>2. pending[i] \in AllControls
  BY DEF TypeOK
<1>3. Len(projection.controls) < MaxControls
  BY RoomForControl
<1>. QED BY <1>1, <1>2, <1>3, CancelledStay

(* A control that is taken joins the retained ones or changes nothing.     *)
LEMMA TakenStay == TypeOK /\ IInv /\ TakeControl => ControlsStay
<1>. SUFFICES ASSUME TypeOK, IInv, TakeControl PROVE ControlsStay
  OBVIOUS
<1>1. CASE projection' = projection
  BY <1>1 DEF ControlsStay
<1>2. CASE projection' # projection
  <2>. DEFINE c == Head(pending)
  <2>1. pending # << >> /\ ApplyControl(c)
    BY <1>2 DEF TakeControl
  <2>2. c \in AllControls /\ projection \in Projections
    BY <2>1, Shifted DEF TypeOK
  <2>3. Len(projection.controls) < MaxControls
    BY RoomForControl DEF TakeControl
  <2>4. RecordRunControl(projection, c) \in Projections
    BY <2>2, RecordLemma
  <2>5. projection' \in {CancelRun(RecordRunControl(projection, c)),
                         DeferRun(RecordRunControl(projection, c)),
                         RecordRunControl(projection, c)}
    BY <2>1 DEF ApplyControl
  <2>6. projection'.controls = RecordRunControl(projection, c).controls
    BY <2>4, <2>5, CancelLemma, DeferLemma
  <2>. QED BY <2>2, <2>3, <2>6, RecordedStay
<1>. QED BY <1>1, <1>2

(* Retained controls stay, and a closed run does not change.               *)
LEMMA RunKeeps ==
    TypeOK /\ IInv /\ [Next]_vars =>
        /\ ControlsStay
        /\ pc = "closed" => pc' = "closed" /\ projection' = projection
<1>. SUFFICES ASSUME TypeOK, IInv, [Next]_vars
              PROVE  /\ ControlsStay
                     /\ pc = "closed" => pc' = "closed" /\ projection' = projection
  OBVIOUS
<1>1. CASE projection' = projection /\ (pc' = pc \/ pc # "closed")
  BY <1>1 DEF ControlsStay
<1>2. CASE HandleSignal \/ WakeForControl \/ ActivityRetry \/ ActivityReturn
             \/ (\E c \in AllControls : SendSignal(c)) \/ UNCHANGED vars
  BY <1>1, <1>2
  DEF HandleSignal, WakeForControl, ActivityRetry, ActivityReturn, SendSignal, vars
<1>3. CASE Begin
  <2>1. projection' \in {projection, RejectExpiredApproval(projection)}
        /\ pc # "closed" /\ projection \in Projections
    BY <1>3 DEF Begin, TypeOK
  <2>2. projection'.controls = projection.controls
    BY <2>1, RejectLemma
  <2>. QED BY <2>1, <2>2 DEF ControlsStay
<1>4. CASE LoopHead
  <2>1. AtLoop /\ pc = "loop" /\ projection \in Projections
    BY <1>4 DEF LoopHead, IInv, TypeOK
  <2>2. CASE CancelPending
    BY <1>4, <2>1, <2>2, QueuedCancelStay DEF LoopHead
  <2>3. CASE ~CancelPending
    <3>1. projection'.controls = projection.controls
      BY <1>4, <2>1, <2>3, StartLemma DEF LoopHead, StartAttempt, AtLoop
    <3>. QED BY <2>1, <3>1 DEF ControlsStay
  <2>. QED BY <2>2, <2>3
<1>5. CASE ActivitySettles
  <2>1. /\ AtActivity /\ Sound(projection) /\ pc # "closed"
        /\ projection' = SettledProjection(activity.outcome)
        /\ activity.outcome \in Results \cup Failures \cup {NoOutcome}
    BY <1>5 DEF ActivitySettles, IInv, TypeOK, ActivityStates
  <2>2. projection'.controls = projection.controls
    BY <2>1, SettledLemma
  <2>. QED BY <2>1, <2>2 DEF ControlsStay
<1>6. CASE AfterActivity
  <2>1. pc = "settled" /\ projection \in Projections
    BY <1>6 DEF AfterActivity, TypeOK
  <2>2. CASE CancelPending
    BY <1>6, <2>1, <2>2, QueuedCancelStay DEF AfterActivity
  <2>3. CASE ~CancelPending
    <3>1. projection' \in {projection, FinishExhaustedRun(projection)}
      BY <1>6, <2>3 DEF AfterActivity, CloseOrHold
    <3>2. projection'.controls = projection.controls
      BY <2>1, <3>1, ExhaustedLemma
    <3>. QED BY <2>1, <3>2 DEF ControlsStay
  <2>. QED BY <2>2, <2>3
<1>7. CASE TakeControl
  BY <1>7, TakenStay DEF TakeControl
<1>. QED BY <1>2, <1>3, <1>4, <1>5, <1>6, <1>7 DEF Next, Workflow

-----------------------------------------------------------------------------
(* The replies.                                                            *)

(* A query reads a terminal projection from a closed run alone.            *)
LEMMA TerminalIsClosed ==
    TypeOK /\ IInv /\ Readable /\ Terminal(projection) => pc = "closed"
  BY DEF IInv, Readable, Terminal, AtActivity, AtTake, TypeOK, Places,
         NoExecutionAfterClose, Sound

(* What was retained stays so, and what a closed run did not apply it      *)
(* never will.                                                             *)
LEMMA ReplyStays ==
    ASSUME TypeOK, IInv, [Next]_vars, NEW o \in Callers, ReplyIsTrue(o),
           call'[o].reply = call[o].reply, call'[o].read = call[o].read
    PROVE  ReplyIsTrue(o)'
<1>1. /\ ControlsStay
      /\ pc = "closed" => pc' = "closed" /\ projection' = projection
  BY RunKeeps
<1>2. Retained(ControlOf[o]) => Retained(ControlOf[o])'
  BY <1>1 DEF Retained, ControlsStay
<1>. QED BY <1>1, <1>2 DEF ReplyIsTrue, RetainedControlOutcome, KeyRetained, Terminal

(* The calls keep their types.                                             *)
LEMMA ApiTypes ==
    ASSUME TypeOK, ApiTypeOK, [ApiNext]_apiVars
    PROVE  ApiTypeOK'
<1>. projection \in Projections
  BY DEF TypeOK
<1>1. ASSUME NEW o \in Callers, Admit(o) PROVE ApiTypeOK'
  BY <1>1 DEF Admit, ApiTypeOK, CallStates, Stages, Replies
<1>2. ASSUME NEW o \in Callers, SignalRun(o) \/ SignalFails(o) PROVE ApiTypeOK'
  BY <1>2 DEF SignalRun, SignalFails, ApiTypeOK, CallStates, Stages
<1>3. ASSUME NEW o \in Callers, ReadBack(o) PROVE ApiTypeOK'
  <2>1. RetainedControlOutcome(projection, ControlOf[o]) \in Replies
    BY DEF RetainedControlOutcome, Replies
  <2>. QED BY <1>3, <2>1 DEF ReadBack, ApiTypeOK, CallStates, Stages
<1>4. CASE UNCHANGED call
  BY <1>4 DEF ApiTypeOK
<1>. QED BY <1>1, <1>2, <1>3, <1>4 DEF ApiNext, Runtime, Retire, apiVars

(* Every reply is true of the run and stays true.                          *)
LEMMA ApiReplies ==
    ASSUME TypeOK, IInv, ApiTypeOK, ApiInv, [ApiNext]_apiVars
    PROVE  ApiInv'
<1>1. [Next]_vars
  BY ApiStep
<1>2. ASSUME NEW o \in Callers,
             call'[o].reply = call[o].reply, call'[o].read = call[o].read
      PROVE  ReplyIsTrue(o)'
  BY <1>1, <1>2, ReplyStays DEF ApiInv
<1>3. CASE UNCHANGED call
  BY <1>2, <1>3 DEF ApiInv
<1>4. ASSUME NEW o \in Callers, Admit(o) PROVE ApiInv'
  <2>1. call'[o].reply \in {"none", "unavailable"}
    BY <1>4 DEF Admit, ApiTypeOK
  <2>2. \A p \in Callers \ {o} : call'[p] = call[p]
    BY <1>4 DEF Admit, ApiTypeOK
  <2>. QED BY <1>2, <2>1, <2>2 DEF ApiInv, ReplyIsTrue
<1>5. ASSUME NEW o \in Callers, SignalRun(o) \/ SignalFails(o) PROVE ApiInv'
  <2>1. \A p \in Callers : /\ call'[p].reply = call[p].reply
                           /\ call'[p].read = call[p].read
    BY <1>5 DEF SignalRun, SignalFails, ApiTypeOK, CallStates
  <2>. QED BY <1>2, <2>1 DEF ApiInv
<1>6. ASSUME NEW o \in Callers, ReadBack(o) PROVE ApiInv'
  <2>1. /\ call'[o].reply = RetainedControlOutcome(projection, ControlOf[o])
        /\ call'[o].read = projection
        /\ Readable /\ UNCHANGED vars
    BY <1>6 DEF ReadBack, ApiTypeOK, CallStates
  <2>2. \A p \in Callers \ {o} : call'[p] = call[p]
    BY <1>6 DEF ReadBack, ApiTypeOK
  <2>3. ReplyIsTrue(o)'
    <3>1. RetainedControlOutcome(projection, ControlOf[o]) = "matched"
             => Retained(ControlOf[o])
      BY DEF RetainedControlOutcome, Retained
    <3>2. Terminal(projection) => pc = "closed"
      BY <2>1, TerminalIsClosed
    <3>. QED BY <2>1, <3>1, <3>2 DEF ReplyIsTrue, Retained, vars
  <2>. QED BY <1>2, <2>2, <2>3 DEF ApiInv
<1>. QED BY <1>3, <1>4, <1>5, <1>6 DEF ApiNext, Runtime, Retire, apiVars

-----------------------------------------------------------------------------
(* The invariant holds under every interleaving of calls, signals, the     *)
(* activity and retirement.                                                *)
THEOREM RepliesAreTrue == ApiSpec => [](ApiTypeOK /\ ApiInv)
<1>1. ApiInit => ApiTypeOK /\ ApiInv
  BY CreateLemma
  DEF ApiInit, NoCall, ApiTypeOK, CallStates, Stages, Replies, ApiInv, ReplyIsTrue
<1>2. TypeOK /\ IInv /\ ApiTypeOK /\ ApiInv /\ [ApiNext]_apiVars
        => ApiTypeOK' /\ ApiInv'
  BY ApiTypes, ApiReplies
<1>3. ApiSpec => []TypeOK /\ []IInv
  BY ApiRunsTheRun, TypeCorrect, InductiveInvariant, PTL
<1>. QED BY <1>1, <1>2, <1>3, PTL DEF ApiSpec

(* A control that an operator was told is applied is retained for good.    *)
THEOREM SuccessStays == ApiSpec => []SuccessIsRetained
<1>1. ApiInv => SuccessIsRetained
  BY DEF ApiInv, ReplyIsTrue, Retained, SuccessIsRetained, RetainedControlOutcome
<1>. QED BY <1>1, RepliesAreTrue, PTL

(* "not applied", read from a closed run, stays true.                      *)
THEOREM NotAppliedStays == ApiSpec => []NotAppliedOnClosedRunIsFinal
<1>1. ApiInv => NotAppliedOnClosedRunIsFinal
  BY DEF ApiInv, ReplyIsTrue, NotAppliedOnClosedRunIsFinal
<1>. QED BY <1>1, RepliesAreTrue, PTL

(* Of two controls that share an id or a key one at most is reported as    *)
(* applied: the run retains one of them.                                   *)
THEOREM OneControlPerKey == ApiSpec => []KeyAppliesOnce
<1>1. IInv /\ ApiInv => KeyAppliesOnce
  <2>. SUFFICES ASSUME IInv, ApiInv, NEW o \in Callers, NEW p \in Callers,
                       ControlOf[o] # ControlOf[p],
                       \/ ControlOf[o].id = ControlOf[p].id
                       \/ ControlOf[o].key = ControlOf[p].key,
                       call[o].reply = "matched", call[p].reply = "matched"
                PROVE  FALSE
    BY DEF KeyAppliesOnce
  <2>1. Retained(ControlOf[o]) /\ Retained(ControlOf[p])
    BY DEF ApiInv, ReplyIsTrue
  <2>2. UniqueControlKeys(projection.controls)
    BY DEF IInv, Sound, AssertRunProjection
  <2>. QED BY <2>1, <2>2 DEF Retained, UniqueControlKeys
<1>2. ApiSpec => []IInv
  BY ApiRunsTheRun, InductiveInvariant, PTL
<1>. QED BY <1>1, <1>2, RepliesAreTrue, PTL
=============================================================================

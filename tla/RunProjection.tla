--------------------------- MODULE RunProjection ---------------------------
(***************************************************************************)
(* The aggregate projection of a validation-readiness run: the pure        *)
(* functions of src/src/orchestration/run-projection.js and the relational *)
(* part of assertRunProjection (workflow-contracts.js), through which      *)
(* every new projection passes.                                            *)
(*                                                                         *)
(* Data abstracted.  Identities, labels and wording are dropped.  A        *)
(* timestamp is kept only as "set or not" (completed_at), a wait or a      *)
(* blocker only as "present or not", a failure as retryable or exhausted.  *)
(* The events window is kept as the sequence number of its last event.     *)
(* artifact_refs grow and are copied in the same steps as receipt_refs and *)
(* are not repeated.  current_node.state and .attempt are always written   *)
(* together with state and attempts and are not repeated either.           *)
(***************************************************************************)
EXTENDS Integers, Sequences

CONSTANTS MaxAttempts,  \* VALIDATION_READINESS_MAX_MANUAL_ATTEMPTS (3)
          MaxControls,  \* size of the retained controls window (16)
          MaxEvents,    \* size of the retained events window (32)
          ReceiptIds,   \* ids of owner receipts
          Digests       \* digests an owner receipt may carry

ASSUME AttemptsAssumption == MaxAttempts \in Nat \ {0}

(* 3 attempts, 16 controls and 32 events in the code.                      *)
ASSUME WindowAssumption ==
    /\ MaxControls \in Nat /\ MaxEvents \in Nat
    /\ 2 * MaxAttempts <= MaxControls
    /\ 5 * MaxAttempts + 2 <= MaxEvents

RunStates == {"queued", "running", "waiting", "blocked", "failed",
              "completed", "cancelled"}
ControlActions == {"retry", "resume", "signal", "cancel", "defer"}
Outcomes == {"completed", "cancelled-no-effect",
             "cancelled-with-retained-evidence",
             "failed-no-effect", "failed-with-retained-evidence"}

ReceiptRefs == [id : ReceiptIds, digest : Digests]

(* aggregate_receipt, null until the run closes.                           *)
NoAggregate == [outcome |-> "none", receipts |-> {}]
Aggregate(outcome, receipts) == [outcome |-> outcome, receipts |-> receipts]

-----------------------------------------------------------------------------
(* Control availability.                                                   *)

Terminal(p) == \/ p.state \in {"completed", "cancelled"}
               \/ p.state = "failed" /\ p.completedAt

AttemptControlAvailable(p, action) ==
    /\ p.retryAvailable
    /\ \/ action = "retry" /\ p.state = "failed"
       \/ action = "resume" /\ p.state \in {"blocked", "waiting"}

AvailableIn(p) ==
    {action \in ControlActions :
        \/ AttemptControlAvailable(p, action)
        \/ action = "defer" /\ p.state \in {"blocked", "failed"} /\ ~Terminal(p)
        \/ action = "cancel" /\ ~Terminal(p)}

WithControlAvailability(p) == [p EXCEPT !.available = AvailableIn(p)]

-----------------------------------------------------------------------------
(* assertRunProjection: what relates the fields of a projection.           *)

UniqueControlKeys(controls) ==
    \A i, j \in 1..Len(controls) :
        i # j => /\ controls[i].id # controls[j].id
                 /\ controls[i].key # controls[j].key

OutcomeMatchesState(outcome, state) ==
    \/ state = "completed" /\ outcome = "completed"
    \/ state = "cancelled" /\ outcome \in {"cancelled-no-effect",
                                           "cancelled-with-retained-evidence"}
    \/ state = "failed" /\ outcome \in {"failed-no-effect",
                                        "failed-with-retained-evidence"}

AssertRunProjection(p) ==
    /\ p.active + p.completed <= 1
    /\ p.state = "running" => p.active = 1
    /\ p.state = "completed" => p.completed = 1
    /\ p.state \in {"blocked", "failed"} => p.failed = 1
    /\ p.state = "waiting" => p.wait
    /\ p.state = "blocked" => p.blocker
    /\ p.state = "failed" => p.failure # "none"
    /\ p.attempts <= MaxAttempts
    /\ Len(p.controls) <= MaxControls
    /\ UniqueControlKeys(p.controls)
    /\ p.aggregate # NoAggregate =>
          /\ OutcomeMatchesState(p.aggregate.outcome, p.state)
          /\ p.aggregate.receipts = p.receipts
    /\ Terminal(p) <=> p.aggregate # NoAggregate
    /\ Terminal(p) <=> p.completedAt

(* withEvent appends one event and throws unless assertRunProjection       *)
(* accepts the result; that it never throws is an invariant of the run.    *)
WithEvent(p) == [p EXCEPT !.sequence = @ + 1]

(* array.slice(-n)                                                         *)
LastOf(s, n) == IF Len(s) <= n THEN s ELSE SubSeq(s, Len(s) - n + 1, Len(s))

-----------------------------------------------------------------------------
(* The transitions of a projection.                                        *)

CreateRunProjection ==
    WithEvent(WithControlAvailability(
        [state |-> "queued", attempts |-> 0,
         active |-> 0, completed |-> 0, failed |-> 0,
         wait |-> FALSE, blocker |-> FALSE, failure |-> "none",
         retryAvailable |-> FALSE, effect |-> "none", receipts |-> {},
         controls |-> << >>, aggregate |-> NoAggregate,
         completedAt |-> FALSE, available |-> {},
         sequence |-> 0]))

(* Mutant: the attempt is announced, then started.                         *)
StartRunAttemptTwoEvents(p) ==
    WithEvent(WithEvent(WithControlAvailability(
        [p EXCEPT !.state = "running", !.attempts = @ + 1,
                  !.active = 1, !.failed = 0,
                  !.wait = FALSE, !.blocker = FALSE, !.failure = "none",
                  !.retryAvailable = FALSE])))

StartRunAttempt(p) ==
    WithEvent(WithControlAvailability(
        [p EXCEPT !.state = "running", !.attempts = @ + 1,
                  !.active = 1, !.failed = 0,
                  !.wait = FALSE, !.blocker = FALSE, !.failure = "none",
                  !.retryAvailable = FALSE]))

RejectExpiredApproval(p) ==
    WithEvent(WithControlAvailability(
        [p EXCEPT !.state = "failed", !.failed = 1, !.failure = "exhausted",
                  !.retryAvailable = FALSE,
                  !.aggregate = Aggregate("failed-no-effect", p.receipts),
                  !.completedAt = TRUE]))

HasAttemptCapacity(p) == p.attempts < MaxAttempts

(* Mutant: the node is still counted as active.                            *)
ProjectReadyStillActive(p, receipts) ==
    WithEvent(WithControlAvailability(
        [p EXCEPT !.state = "completed", !.completed = 1, !.failed = 0,
                  !.retryAvailable = FALSE, !.effect = "verified",
                  !.receipts = receipts,
                  !.aggregate = Aggregate("completed", receipts),
                  !.completedAt = TRUE]))

ProjectReady(p, receipts) ==
    WithEvent(WithControlAvailability(
        [p EXCEPT !.state = "completed",
                  !.active = 0, !.completed = 1, !.failed = 0,
                  !.retryAvailable = FALSE, !.effect = "verified",
                  !.receipts = receipts,
                  !.aggregate = Aggregate("completed", receipts),
                  !.completedAt = TRUE]))

ProjectNotReady(p, receipts) ==
    WithEvent(WithControlAvailability(
        [p EXCEPT !.state = "blocked", !.active = 0, !.failed = 1,
                  !.blocker = TRUE,
                  !.retryAvailable = HasAttemptCapacity(p),
                  !.receipts = receipts]))

(* Mutant: an id is never compared with the retained ones.                 *)
ReceiptNeverRefused(p, receipt) == FALSE

(* appendReceiptReference throws when a retained id has another digest.    *)
ReceiptRefused(p, receipt) ==
    \E r \in p.receipts : r.id = receipt.id /\ r.digest # receipt.digest

ProjectWgcfResult(p, result) ==
    LET receipts == p.receipts \cup {result.receipt}
    IN  IF result.status = "ready" THEN ProjectReady(p, receipts)
                                   ELSE ProjectNotReady(p, receipts)

(* Mutant: a receipt, verified or not, counts as an effect.                *)
CancelOutcomeByReceipts(p) ==
    IF p.receipts = {} THEN "cancelled-no-effect"
                       ELSE "cancelled-with-retained-evidence"

CancelOutcome(p) == IF p.effect = "none" THEN "cancelled-no-effect"
                    ELSE "cancelled-with-retained-evidence"

CancelRun(p) ==
    WithEvent(WithControlAvailability(
        [p EXCEPT !.state = "cancelled", !.active = 0, !.wait = FALSE,
                  !.retryAvailable = FALSE,
                  !.aggregate = Aggregate(CancelOutcome(p), p.receipts),
                  !.completedAt = TRUE]))

ContractRejected(p) ==
    WithEvent(WithControlAvailability(
        [p EXCEPT !.state = "blocked", !.active = 0, !.failed = 1,
                  !.blocker = TRUE, !.failure = "none",
                  !.retryAvailable = FALSE]))

ActivityFailed(p) ==
    WithEvent(WithControlAvailability(
        [p EXCEPT !.state = "failed", !.active = 0, !.failed = 1,
                  !.blocker = FALSE,
                  !.failure = IF HasAttemptCapacity(p) THEN "retryable"
                                                       ELSE "exhausted",
                  !.retryAvailable = HasAttemptCapacity(p)]))

ProjectActivityFailure(p, failureType) ==
    CASE failureType = "cancelled" -> CancelRun(p)
      [] failureType = "non-retryable" -> ContractRejected(p)
      [] OTHER -> ActivityFailed(p)

(* Some retained control has the id or the key of this one.                *)
KeyRetained(p, control) ==
    \E i \in 1..Len(p.controls) : \/ p.controls[i].id = control.id
                                  \/ p.controls[i].key = control.key

(* Mutant: only the latest control is retained.                            *)
RecordRunControlLatest(p, control) ==
    IF KeyRetained(p, control) THEN p
    ELSE WithEvent([p EXCEPT !.controls = <<control>>])

RecordRunControl(p, control) ==
    IF KeyRetained(p, control) THEN p
    ELSE WithEvent([p EXCEPT !.controls =
                        LastOf(Append(@, control), MaxControls)])

DeferRun(p) ==
    WithEvent(WithControlAvailability(
        [p EXCEPT !.state = "waiting", !.wait = TRUE]))

(* Without effect unless the run failed and no retry is left.              *)
FinishExhaustedRun(p) ==
    IF p.state # "failed" \/ p.retryAvailable THEN p
    ELSE WithControlAvailability(
            [p EXCEPT !.aggregate =
                          Aggregate(IF p.effect = "none"
                                    THEN "failed-no-effect"
                                    ELSE "failed-with-retained-evidence",
                                    p.receipts),
                      !.completedAt = TRUE])
=============================================================================

----------------------- MODULE ValidationReadinessRun -----------------------
(***************************************************************************)
(* The durable workflow validationReadinessRunV1                           *)
(* (src/src/orchestration/workflows.js), the control signals delivered to  *)
(* it and the owner activity it awaits.                                    *)
(*                                                                         *)
(* The workflow code is one thread that gives way at three places only:    *)
(* before its first activation, while it awaits the activity, and while it *)
(* awaits a control.  pc names them "start", "activity" and "controls".    *)
(* The other values of pc are places inside one activation: no signal is   *)
(* handled and no query is answered there.                                 *)
(*   "loop"    head of the execution loop                                  *)
(*   "settled" the activity has ended, activeActivityScope is null again   *)
(*   "take"    head of the control loop                                    *)
(*   "closed"  the workflow has returned its projection                    *)
(* Temporal hands a workflow task all the signals that have arrived, and   *)
(* runs their handlers before the code that the task unblocks: the steps   *)
(* that resume the main thread wait for an empty inbox.                    *)
(***************************************************************************)
EXTENDS RunProjection, FiniteSets, SequencesExt

CONSTANTS Controls,     \* the operator controls: [id, key, action]
          Retirement,   \* the reserved generation-retirement control
          MaxSignals,   \* bound on the signals sent in a behaviour
          MaxTries      \* automatic tries of one activity (3)

ASSUME ControlAssumption ==
    /\ \A c \in Controls \cup {Retirement} : c.action \in ControlActions
    /\ Retirement \notin Controls
    /\ Retirement.action = "cancel"
    /\ \A c \in Controls : c.id # Retirement.id /\ c.key # Retirement.key
    /\ MaxSignals \in Nat
    /\ MaxTries \in Nat \ {0}

VARIABLES
    pc,               \* place of the workflow code, see above
    approvalExpired,  \* the approval had expired when Temporal started the run
    projection,
    pending,          \* pendingControls, first in first out
    queuedKeys,       \* queuedControlKeys: ids and keys of accepted controls
    retirementQueued, \* generationRetirementControlQueued
    activity,         \* the owner activity as Temporal sees it
    inbox,            \* signals Temporal holds for the next workflow task
    sent              \* number of signals sent

vars == <<pc, approvalExpired, projection, pending, queuedKeys,
          retirementQueued, activity, inbox, sent>>

AllControls == Controls \cup {Retirement}
Places == {"start", "loop", "activity", "settled", "controls", "take", "closed"}
AtAwait == pc \in {"start", "activity", "controls"}

-----------------------------------------------------------------------------
(* The owner activity.  A result has a status; assertWgcfActivityResult    *)
(* refuses a "malformed" one.  The other non-ready statuses of the owner   *)
(* ("timed-out", "unavailable") behave as "blocked".                       *)

Results  == [kind : {"result"}, status : {"ready", "blocked", "malformed"},
             receipt : ReceiptRefs]
Failures == [kind : {"failure"},
             type : {"retryable", "non-retryable", "cancelled",
                     "cancellation-confirmed"}]
NoOutcome == [kind |-> "none"]

AssertWgcfActivityResult(result) == result.status # "malformed"

(* An unknown type, such as that of Temporal's own CancelledFailure, is    *)
(* normalised to the retryable one.                                        *)
TemporalFailureType(failure) ==
    IF failure.type \in {"retryable", "non-retryable", "cancelled"}
    THEN failure.type ELSE "retryable"

IdleActivity == [status |-> "idle", tries |-> 0,
                 cancelRequested |-> FALSE, outcome |-> NoOutcome]
ScheduledActivity == [IdleActivity EXCEPT !.status = "executing", !.tries = 1]

ActivityStates == [status : {"idle", "executing", "returned"},
                   tries : 0..MaxTries, cancelRequested : BOOLEAN,
                   outcome : Results \cup Failures \cup {NoOutcome}]

(* WAIT_CANCELLATION_COMPLETED: a cancelled activity is still awaited.     *)
RequestActivityCancel ==
    activity' = IF activity.status = "idle" THEN activity
                ELSE [activity EXCEPT !.cancelRequested = TRUE]

(* The outcomes Temporal may report: a retryable failure once the tries    *)
(* are used up, a cancellation once it was requested.                      *)
MayReturn(outcome) ==
    /\ outcome.kind = "failure" /\ outcome.type = "retryable" =>
          activity.tries = MaxTries \/ activity.cancelRequested
    /\ outcome.kind = "failure" /\ outcome.type = "cancellation-confirmed" =>
          activity.cancelRequested

ActivityRetry ==
    /\ activity.status = "executing" /\ ~activity.cancelRequested
    /\ activity.tries < MaxTries
    /\ activity' = [activity EXCEPT !.tries = @ + 1]
    /\ UNCHANGED <<pc, approvalExpired, projection, pending, queuedKeys,
                   retirementQueued, inbox, sent>>

ActivityReturn ==
    /\ activity.status = "executing"
    /\ \E outcome \in Results \cup Failures :
          /\ MayReturn(outcome)
          /\ activity' = [activity EXCEPT !.status = "returned",
                                          !.outcome = outcome]
    /\ UNCHANGED <<pc, approvalExpired, projection, pending, queuedKeys,
                   retirementQueued, inbox, sent>>

-----------------------------------------------------------------------------
(* The signal handler.                                                     *)

IsAttemptControl(c) == c.action \in {"retry", "resume"}

AttemptControlPending == \E i \in 1..Len(pending) : IsAttemptControl(pending[i])

IsCancel(c) == c.action = "cancel"
CancelPending == \E i \in 1..Len(pending) : IsCancel(pending[i])

ControlIsAvailable(c) == c.action \in projection.available

KeyQueued(c) == c.id \in queuedKeys \/ c.key \in queuedKeys

Enqueues(c) ==
    /\ ControlIsAvailable(c)
    /\ ~KeyQueued(c)
    /\ ~(IsAttemptControl(c) /\ AttemptControlPending)

(* Mutant: retirement queues behind the operators.                         *)
EnqueueRetirementControlLast(c) ==
    /\ c = Retirement /\ ~retirementQueued
    /\ pending' = Append(pending, c)
    /\ retirementQueued' = TRUE
    /\ RequestActivityCancel
    /\ UNCHANGED queuedKeys

EnqueueRetirementControl(c) ==
    /\ c = Retirement /\ ~retirementQueued
    /\ pending' = <<c>> \o pending
    /\ retirementQueued' = TRUE
    /\ RequestActivityCancel
    /\ UNCHANGED queuedKeys

EnqueueOperatorControl(c) ==
    /\ c # Retirement /\ Enqueues(c)
    /\ pending' = Append(pending, c)
    /\ queuedKeys' = queuedKeys \cup {c.id, c.key}
    /\ IF IsCancel(c) THEN RequestActivityCancel ELSE UNCHANGED activity
    /\ UNCHANGED retirementQueued

IgnoreControl(c) ==
    /\ IF c = Retirement THEN retirementQueued ELSE ~Enqueues(c)
    /\ UNCHANGED <<pending, queuedKeys, retirementQueued, activity>>

HandleSignal ==
    /\ AtAwait /\ inbox # << >>
    /\ \/ EnqueueRetirementControl(Head(inbox))
       \/ EnqueueOperatorControl(Head(inbox))
       \/ IgnoreControl(Head(inbox))
    /\ inbox' = Tail(inbox)
    /\ UNCHANGED <<pc, approvalExpired, projection, sent>>

(* Temporal accepts a signal while the run is open.  One that arrives      *)
(* inside an activation waits for the next: Temporal refuses to close a    *)
(* run over a signal it has not delivered.                                 *)
SendSignal(c) ==
    /\ AtAwait /\ sent < MaxSignals
    /\ inbox' = Append(inbox, c)
    /\ sent' = sent + 1
    /\ UNCHANGED <<pc, approvalExpired, projection, pending, queuedKeys,
                   retirementQueued, activity>>

-----------------------------------------------------------------------------
(* The main thread.                                                        *)

(* The first queued cancel is applied, whatever its place in the queue.    *)
ApplyQueuedCancel ==
    /\ \E i \in 1..Len(pending) :
          /\ IsCancel(pending[i])
          /\ \A j \in 1..(i - 1) : ~IsCancel(pending[j])
          /\ projection' = CancelRun(RecordRunControl(projection, pending[i]))
          /\ pending' = RemoveAt(pending, i)
    /\ pc' = "closed"
    /\ UNCHANGED activity

(* The first activation.  A signal that came with the start is handled     *)
(* either before the loop or after its first attempt has started: the      *)
(* order of the jobs of the first activation depends on the Temporal SDK.  *)
Begin ==
    /\ pc = "start"
    /\ IF approvalExpired
       THEN /\ projection' = RejectExpiredApproval(projection)
            /\ pc' = "closed"
       ELSE /\ projection' = projection
            /\ pc' = "loop"
    /\ UNCHANGED <<approvalExpired, pending, queuedKeys, retirementQueued,
                   activity, inbox, sent>>

StartAttempt ==
    /\ projection' = StartRunAttempt(projection)
    /\ activity' = ScheduledActivity
    /\ pc' = "activity"
    /\ UNCHANGED pending

FinishExhausted ==
    /\ projection' = FinishExhaustedRun(projection)
    /\ pc' = "closed"
    /\ UNCHANGED <<pending, activity>>

LoopHead ==
    /\ pc = "loop"
    /\ IF CancelPending THEN ApplyQueuedCancel
       ELSE IF HasAttemptCapacity(projection) THEN StartAttempt
       ELSE FinishExhausted
    /\ UNCHANGED <<approvalExpired, queuedKeys, retirementQueued, inbox, sent>>

(* The activity's promise settles.  A failure is left out of the           *)
(* projection when a cancel is queued.                                     *)
SettledProjection(outcome) ==
    IF outcome.kind = "result"
    THEN IF /\ AssertWgcfActivityResult(outcome)
            /\ ~ReceiptRefused(projection, outcome.receipt)
         THEN ProjectWgcfResult(projection, outcome)
         ELSE ProjectActivityFailure(projection, "non-retryable")
    ELSE IF CancelPending THEN projection
         ELSE ProjectActivityFailure(projection, TemporalFailureType(outcome))

ActivitySettles ==
    /\ pc = "activity" /\ activity.status = "returned" /\ inbox = << >>
    /\ projection' = SettledProjection(activity.outcome)
    /\ activity' = IdleActivity
    /\ pc' = "settled"
    /\ UNCHANGED <<approvalExpired, pending, queuedKeys, retirementQueued,
                   inbox, sent>>

CloseOrHold ==
    /\ UNCHANGED <<pending, activity>>
    /\ CASE projection.state \in {"completed", "cancelled"} ->
              projection' = projection /\ pc' = "closed"
         [] projection.state = "failed" /\ ~projection.retryAvailable ->
              projection' = FinishExhaustedRun(projection) /\ pc' = "closed"
         [] OTHER ->
              projection' = projection /\ pc' = "take"

(* Mutant: a cancel queued during the activity is not looked for.          *)
AfterActivityBlind ==
    /\ pc = "settled" /\ CloseOrHold
    /\ UNCHANGED <<approvalExpired, queuedKeys, retirementQueued, inbox, sent>>

AfterActivity ==
    /\ pc = "settled"
    /\ IF CancelPending THEN ApplyQueuedCancel ELSE CloseOrHold
    /\ UNCHANGED <<approvalExpired, queuedKeys, retirementQueued, inbox, sent>>

(* Mutant: only a retry or a resume ends the wait.                         *)
WakeForAttemptControl ==
    /\ pc = "controls" /\ AttemptControlPending /\ inbox = << >>
    /\ pc' = "take"
    /\ UNCHANGED <<approvalExpired, projection, pending, queuedKeys,
                   retirementQueued, activity, inbox, sent>>

(* condition(() => pendingControls.length > 0)                             *)
WakeForControl ==
    /\ pc = "controls" /\ pending # << >> /\ inbox = << >>
    /\ pc' = "take"
    /\ UNCHANGED <<approvalExpired, projection, pending, queuedKeys,
                   retirementQueued, activity, inbox, sent>>

(* Mutant: retry and resume are not recorded.                              *)
ApplyControlUnrecorded(c) ==
    \/ /\ c.action = "cancel" /\ pc' = "closed"
       /\ projection' = CancelRun(RecordRunControl(projection, c))
    \/ /\ c.action = "defer" /\ pc' = "take"
       /\ projection' = DeferRun(RecordRunControl(projection, c))
    \/ /\ IsAttemptControl(c) /\ pc' = "loop"
       /\ projection' = projection

(* One recorded control of the control loop.                               *)
ApplyControl(c) ==
    LET recorded == RecordRunControl(projection, c)
    IN  \/ /\ c.action = "cancel"
           /\ projection' = CancelRun(recorded) /\ pc' = "closed"
        \/ /\ c.action = "defer"
           /\ projection' = DeferRun(recorded) /\ pc' = "take"
        \/ /\ IsAttemptControl(c)
           /\ projection' = recorded /\ pc' = "loop"

(* takeAvailableRunControl shifts the queue and drops what is no longer    *)
(* available; the keys of a dropped control stay in queuedKeys.            *)
TakeControl ==
    /\ pc = "take"
    /\ IF pending = << >>
       THEN pc' = "controls" /\ UNCHANGED <<projection, pending>>
       ELSE /\ pending' = Tail(pending)
            /\ IF ControlIsAvailable(Head(pending))
               THEN ApplyControl(Head(pending))
               ELSE UNCHANGED <<pc, projection>>
    /\ UNCHANGED <<approvalExpired, queuedKeys, retirementQueued, activity,
                   inbox, sent>>

-----------------------------------------------------------------------------
Init ==
    /\ pc = "start"
    /\ approvalExpired \in BOOLEAN
    /\ projection = CreateRunProjection
    /\ pending = << >>
    /\ queuedKeys = {}
    /\ retirementQueued = FALSE
    /\ activity = IdleActivity
    /\ inbox = << >>
    /\ sent = 0

Workflow == \/ HandleSignal \/ Begin \/ LoopHead \/ ActivitySettles
            \/ AfterActivity \/ WakeForControl \/ TakeControl

Next == \/ Workflow
        \/ ActivityRetry \/ ActivityReturn
        \/ \E c \in AllControls : SendSignal(c)

(* A closed run stops.                                                     *)
Spec == Init /\ [][Next]_vars

(* The worker keeps polling, and the owner activity ends: Temporal bounds  *)
(* each try with startToCloseTimeout and the tries with maximumAttempts.   *)
Fairness == WF_vars(Workflow) /\ WF_vars(ActivityReturn)

FairSpec == Spec /\ Fairness
-----------------------------------------------------------------------------
(* Types.                                                                  *)

Attempts == 0..MaxAttempts
Counts == 0..1
FailureKinds == {"none", "retryable", "exhausted"}
Effects == {"none", "verified"}
ReceiptSets == SUBSET ReceiptRefs
ControlHistories == Seq(AllControls)
Aggregates == [outcome : Outcomes \cup {"none"}, receipts : ReceiptSets]
ActionSets == SUBSET ControlActions

Projections ==
    [state : RunStates, attempts : Attempts,
     active : Counts, completed : Counts, failed : Counts,
     wait : BOOLEAN, blocker : BOOLEAN, failure : FailureKinds,
     retryAvailable : BOOLEAN, effect : Effects, receipts : ReceiptSets,
     controls : ControlHistories, aggregate : Aggregates,
     completedAt : BOOLEAN, available : ActionSets, sequence : Nat]

(* The values the variables of a run may take.                             *)
TypeOK ==
    /\ pc \in Places
    /\ approvalExpired \in BOOLEAN
    /\ projection \in Projections
    /\ pending \in Seq(AllControls)
    /\ queuedKeys \subseteq UNION {{c.id, c.key} : c \in Controls}
    /\ retirementQueued \in BOOLEAN
    /\ activity \in ActivityStates
    /\ inbox \in Seq(AllControls)
    /\ sent \in 0..MaxSignals

-----------------------------------------------------------------------------
(* Safety.                                                                 *)

(* No sequence of controls and activity outcomes makes withEvent throw,    *)
(* which would fail every later workflow task of the run.  (A control is   *)
(* recorded and applied in one step; the projection between the two has    *)
(* the other fields of the state before and the controls of the one after, *)
(* and assertRunProjection does not relate them.)                          *)
ProjectionAlwaysAccepted == AssertRunProjection(projection)

(* The capacity check at the head of the loop never fails: a retry or a    *)
(* resume that is consumed still has an attempt, however it was queued.    *)
(* Had it none, a run that is blocked or waiting would be closed with a    *)
(* projection that is not terminal.                                        *)
CapacityAtLoopHead == pc = "loop" => HasAttemptCapacity(projection)

(* A workflow result is a terminal projection.                             *)
ClosedRunIsTerminal == pc = "closed" => Terminal(projection)

AttemptControlsRecorded ==
    {i \in 1..Len(projection.controls) :
        IsAttemptControl(projection.controls[i])}

(* Every attempt after the first was asked for by a recorded retry or      *)
(* resume of its own.                                                      *)
AttemptsAuthorized ==
    projection.attempts + (IF pc = "loop" THEN 1 ELSE 0)
        <= 1 + Cardinality(AttemptControlsRecorded)

(* The workflow leaves an activity only when the activity has ended. A try *)
(* of the owner that goes on after Temporal has settled its activity is    *)
(* not represented here: the workflow never hears of it again.             *)
NoExecutionAfterClose == pc # "activity" => activity.status = "idle"

(* A cancel that the handler accepted is never overtaken by another        *)
(* outcome, except by the rejection of an approval that had expired.       *)
CancelNeverLost ==
    pc = "closed" /\ CancelPending =>
        projection.state = "cancelled" \/ approvalExpired

(* Once retirement has signalled the run, and unless the approval had      *)
(* expired, the run ends cancelled and cites the retirement control.       *)
RetirementClosesTheRun ==
    pc = "closed" /\ retirementQueued /\ ~approvalExpired =>
        /\ projection.state = "cancelled"
        /\ projection.controls[Len(projection.controls)] = Retirement

(* The availability that getRun reports, and that the handler tests, is    *)
(* never stale: recordRunControl keeps it and does not recompute it.       *)
AvailabilityIsCurrent ==
    AtAwait => projection.available = AvailableIn(projection)

(* A receipt id keeps one digest over all the attempts of a run.           *)
ReceiptsBoundToOneDigest ==
    \A r, s \in projection.receipts : r.id = s.id => r = s

(* The retained windows of controls and events never roll over, so the     *)
(* projection of a run tells its whole history.                            *)
HistoryIsComplete ==
    /\ Len(projection.controls) <= 2 * MaxAttempts
    /\ projection.sequence <= 5 * MaxAttempts + 2

-----------------------------------------------------------------------------
(* The inductive invariant behind the safety properties: what holds of the *)
(* projection at each place of the code.  An attempt costs a run at most   *)
(* two controls (a defer, then a resume; or a retry) and five events       *)
(* (start, outcome, two controls, defer); a last cancel costs two events.  *)

Sound(p) ==
    /\ AssertRunProjection(p)
    /\ p.available = AvailableIn(p)
    /\ p.retryAvailable => HasAttemptCapacity(p)
    /\ p.completed = 1 => p.completedAt

HistoryWithin(controls, events) == /\ Len(projection.controls) <= controls
                                   /\ projection.sequence <= events

AtStart == /\ projection.state = "queued" /\ projection.attempts = 0
           /\ HistoryWithin(0, 1)

AtLoop == /\ projection.state \in {"queued", "blocked", "failed", "waiting"}
          /\ ~projection.completedAt /\ HasAttemptCapacity(projection)
          /\ HistoryWithin(2 * projection.attempts, 5 * projection.attempts + 1)

AtActivity == /\ projection.state = "running" /\ projection.attempts > 0
              /\ HistoryWithin(2 * projection.attempts - 2,
                               5 * projection.attempts - 3)

AtSettled == /\ projection.state = "running" => CancelPending
             /\ projection.state \in {"running", "completed", "cancelled",
                                      "blocked", "failed"}
             /\ projection.state = "failed" => ~projection.completedAt
             /\ projection.attempts > 0
             /\ HistoryWithin(2 * projection.attempts - 2,
                              5 * projection.attempts - 2)

AtTake == /\ ~projection.completedAt /\ projection.attempts > 0
          /\ \/ /\ projection.state \in {"blocked", "failed"}
                /\ HistoryWithin(2 * projection.attempts - 2,
                                 5 * projection.attempts - 2)
             \/ /\ projection.state = "waiting"
                /\ HistoryWithin(2 * projection.attempts - 1,
                                 5 * projection.attempts)

AtClosed == /\ Terminal(projection)
            /\ HistoryWithin(2 * MaxAttempts, 5 * MaxAttempts + 2)
            /\ CancelNeverLost

(* The projection is sound and fits the place of the code, and the         *)
(* activity is idle outside the place that awaits it.                      *)
IInv == /\ Sound(projection)
        /\ NoExecutionAfterClose
        /\ pc = "start" => AtStart
        /\ pc = "loop" => AtLoop
        /\ pc = "activity" => AtActivity
        /\ pc = "settled" => AtSettled
        /\ pc \in {"take", "controls"} => AtTake
        /\ pc = "closed" => AtClosed

-----------------------------------------------------------------------------
(* Action properties.                                                      *)

-----------------------------------------------------------------------------
(* Liveness.                                                               *)

(* An accepted cancel, of an operator or of retirement, closes the run.    *)
CancelClosesTheRun == CancelPending ~> pc = "closed"

-----------------------------------------------------------------------------
(* The run implements RunLifecycle.  Between the settling of the activity  *)
(* and the end of that activation nobody sees the projection: the run      *)
(* still counts as executing.                                              *)

Phase == IF pc \in {"activity", "settled"} THEN "executing"
         ELSE IF pc = "closed" THEN "closed"
         ELSE IF projection.attempts = 0 THEN "queued"
         ELSE "held"

PublishedOutcome == IF pc = "closed" THEN projection.aggregate.outcome
                                     ELSE "none"

Promise == INSTANCE RunLifecycle
    WITH Evidence <- ReceiptRefs, phase <- Phase,
         attempts <- projection.attempts, evidence <- projection.receipts,
         outcome <- PublishedOutcome

(* Every behaviour of the workflow is one that RunLifecycle promises.      *)
KeepsPromise == Promise!Spec

-----------------------------------------------------------------------------
(* Statements of the documentation that the code does not keep.            *)

(* "The operator may review the retained state and retry the same          *)
(* idempotent control when it is still available."  A control that was     *)
(* accepted, then dropped when it was consumed, leaves its keys in         *)
(* queuedControlKeys: the handler ignores it for the rest of the run.      *)
UnappliedControlMayBeRetried ==
    pc = "controls" /\ pending = << >> =>
        \A c \in Controls :
            ControlIsAvailable(c) /\ ~KeyRetained(projection, c) => ~KeyQueued(c)
=============================================================================

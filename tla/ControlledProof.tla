-------------------------- MODULE ControlledProof ---------------------------
(***************************************************************************)
(* A controlled proof of the orchestration: the one run of an authorized   *)
(* scenario (controlledProofValidationReadinessRunV1 in                    *)
(* src/src/orchestration/workflows.js), the worker that serves it, and the *)
(* three calls of its API over the pinned context.                         *)
(*                                                                         *)
(* The run's identifier is derived from the authorization and the          *)
(* scenario, so that every context issued under one authorization names    *)
(* the same run.  The workflow gives way at three places: before its first *)
(* activation, at the owner's activity, and at the controls.  What it does *)
(* from one to the next is one action, which nobody sees half done; the    *)
(* handlers of the signals that Temporal holds run before it.              *)
(***************************************************************************)
EXTENDS Naturals, FiniteSets, Sequences

CONSTANTS Contexts,     \* the contexts issued under one authorization
          Scenarios,    \* the scenarios a behaviour may be about
          Signals,      \* the controls callers may send:
                        \* [id, action, session, kind, seen]
          Callers,
          MaxAttempts,  \* CONTROLLED_PROOF_MAX_MANUAL_ATTEMPTS (3)
          MaxMounts     \* bound on the changes of the mounted context

External == {"workflow-worker-restart", "temporal-runtime-restart",
             "deterministic-replay", "duplicate-suppression", "backup-restore"}
OosScenarios == External \cup {"nominal-completion", "cancellation", "unavailable-dependency",
                               "identity-denial", "payload-boundary"}

VARIABLES
    env,      \* the clock, the mounted context, the context of the worker
    run,      \* the run at Temporal, with its projection
    call,     \* what each caller waits for
    receipts  \* the owner receipts handed out

vars == <<env, run, call, receipts>>

None == "none"

-----------------------------------------------------------------------------
(* The context: [id, session]; its file is read at each use and must have  *)
(* the configured digest.  "early" is before the session starts.           *)
Clocks == {"early", "session", "expired"}
Expired == env.clock = "expired"

Timely(allowExpired) == Expired => allowExpired

Resolves(allowExpired) == env.mounted # None /\ Timely(allowExpired)

(* The memo of the run has what a context would bind it to.                *)
Binds(context) == run.context = context

-----------------------------------------------------------------------------
(* The projection.  at is the place of the workflow, inbox the signals     *)
(* that Temporal holds, boundary what the activity showed in the session.  *)
NoOutcome == [kind |-> None, code |-> None]
NoRun == [at |-> None, context |-> None, scenario |-> None, state |-> None,
          attempt |-> 0, retry |-> FALSE, code |-> None, failure |-> None,
          assertion |-> "pending", done |-> FALSE, evidence |-> {},
          controls |-> {}, pending |-> << >>, keys |-> {}, cancelling |-> None,
          inbox |-> << >>, outcome |-> NoOutcome, boundary |-> None]

Retained == run # NoRun /\ Binds(env.mounted)

CreateProjection(context, scenario) ==
    [NoRun EXCEPT !.at = "start", !.context = context, !.scenario = scenario,
                  !.state = "queued"]

Awaiting(p) ==
    /\ p.state = "waiting" /\ ~p.done /\ p.evidence = {}
    /\ p.code = "ready" /\ p.scenario \in External

Available(p) ==
    {a \in {"retry", "resume", "signal", "cancel", "defer"} :
        /\ ~p.done
        /\ CASE a = "retry" -> p.state = "failed" /\ p.retry
             [] a = "resume" -> /\ ~Awaiting(p) /\ p.state \in {"blocked", "waiting"}
                                /\ p.attempt < MaxAttempts
             [] a = "signal" -> Awaiting(p)
             [] a = "cancel" -> TRUE
             [] a = "defer" -> ~Awaiting(p) /\ p.state \in {"blocked", "failed"}}

(* withEvent refuses a projection that contradicts itself, and with it the *)
(* activation that made it, at every try.                                  *)
EvidenceFits(p) == \A c \in p.evidence : p.scenario \in External /\ c.kind = p.scenario

Accepted(p) ==
    /\ p.done <=> p.assertion # "pending"
    /\ EvidenceFits(p)
    /\ Cardinality(p.controls) <= 16

StartProofAttempt(p) ==
    [p EXCEPT !.state = "running", !.attempt = @ + 1, !.retry = FALSE, !.failure = None]

CompleteScenario(p) ==
    [p EXCEPT !.state = "completed", !.retry = FALSE, !.assertion = "passed", !.done = TRUE]

(* Mutant: the cancel that passes need not have reached the activity.      *)
CancelProofUnconfirmed(p, confirmed) ==
    [p EXCEPT !.state = "cancelled", !.retry = FALSE, !.done = TRUE,
              !.assertion = IF p.scenario = "cancellation" /\ ~Expired
                            THEN "passed" ELSE "failed"]

(* Cancelling passes only as the scenario, confirmed, and in time.         *)
CancelProof(p, confirmed) ==
    [p EXCEPT !.state = "cancelled", !.retry = FALSE, !.done = TRUE,
              !.assertion = IF p.scenario = "cancellation" /\ confirmed /\ ~Expired
                            THEN "passed" ELSE "failed"]

NonRetryable == {"rejected", "authorization", "denied", "payload"}

MatchesScenario(p, type) ==
    \/ p.scenario = "identity-denial" /\ type = "denied"
    \/ p.scenario = "payload-boundary" /\ type = "payload"
    \/ p.scenario = "unavailable-dependency" /\ type = "unavailable"

FailureType(type) == IF Expired THEN "authorization" ELSE type

ProjectFailure(p, given) ==
    LET type == FailureType(given)
        again == type \notin NonRetryable /\ p.attempt < MaxAttempts
    IN CASE type = "cancelled" -> CancelProof(p, FALSE)
         [] type # "cancelled" /\ MatchesScenario(p, type) ->
              CompleteScenario([p EXCEPT !.failure = type])
         [] OTHER ->
              [p EXCEPT !.state = "failed", !.retry = again, !.failure = type,
                        !.assertion = IF again THEN @ ELSE "failed", !.done = ~again]

ProjectResult(p, code) ==
    LET q == [p EXCEPT !.code = code]
    IN CASE Expired -> ProjectFailure(p, "authorization")
         [] /\ ~Expired
            /\ \/ code = "ready" /\ p.scenario = "nominal-completion"
               \/ code = "unavailable" /\ p.scenario = "unavailable-dependency" ->
              CompleteScenario(q)
         [] ~Expired /\ code = "ready" /\ p.scenario \in External ->
              [q EXCEPT !.state = "waiting", !.retry = FALSE]
         [] OTHER -> [q EXCEPT !.state = "blocked", !.retry = p.attempt < MaxAttempts]

(* A control with the id or key of a recorded one is not recorded again.   *)
RecordControl(p, c) ==
    IF \E e \in p.controls : e.id = c.id THEN p
    ELSE [p EXCEPT !.controls = @ \cup {c}]

(* Mutant: evidence that was accepted in time passes at any time.          *)
ProjectEvidenceAnyTime(p, c) == CompleteScenario([RecordControl(p, c) EXCEPT !.evidence = {c}])

(* The kind of the evidence was checked when the signal was handled.       *)
ProjectEvidence(p, c) ==
    IF Expired THEN ProjectFailure(p, "authorization")
    ELSE CompleteScenario([RecordControl(p, c) EXCEPT !.evidence = {c}])

DeferProof(p) == [p EXCEPT !.state = "waiting"]

FinishAttempts(p) ==
    IF p.done \/ p.retry THEN p
    ELSE [p EXCEPT !.state = "failed", !.assertion = "failed", !.done = TRUE]

(* A closed run is its projection, without what it has not come to.        *)
Close(p) == [p EXCEPT !.at = "closed", !.pending = << >>, !.keys = {}, !.inbox = << >>,
                      !.outcome = NoOutcome]

-----------------------------------------------------------------------------
(* The owner's activity ends with a result or a failure; its cancellation  *)
(* is awaited, and may come too late.  "rejected" stands for the failures  *)
(* that are final whatever the scenario.                                   *)
Outcomes ==
    [kind : {"result"}, code : {"ready", "blocked", "unavailable", "malformed"}]
        \cup [kind : {"failure"},
              code : {"retryable", "unavailable", "rejected", "cancelled", "denied",
                      "payload", "confirmed"}]

ActivityReturns ==
    /\ run.at = "activity" /\ run.outcome = NoOutcome
    /\ \E outcome \in Outcomes :
          /\ outcome.code = "confirmed" => run.cancelling # None
          /\ run' = [run EXCEPT !.outcome = outcome,
                                !.boundary = IF env.clock = "session" THEN outcome.code ELSE None]
    /\ UNCHANGED <<env, call, receipts>>

-----------------------------------------------------------------------------
(* The signal handler, when the worker runs the workflow.                  *)
WellFormed(c) == (c.action = "signal") <=> (c.kind # None)

Admits(c) ==
    c.action = "signal" => /\ run.scenario \in External /\ c.kind = run.scenario
                           /\ c.seen = "session" /\ env.clock # "early"

Served == env.worker # None

(* A query is answered between activations.                                *)
Readable == run.at = "controls" => run.pending = << >>

IsAttempt(c) == c.action \in {"retry", "resume"}
Pending(a) == \E i \in DOMAIN run.pending : run.pending[i].action \in a

Enqueues(c) ==
    /\ WellFormed(c) /\ c.session = run.context /\ Admits(c)
    /\ c.action \in Available(run) /\ c.id \notin run.keys
    /\ IsAttempt(c) => ~Pending({"retry", "resume"})
    /\ c.action = "cancel" => ~Pending({"cancel"})

HandleSignal ==
    /\ Served /\ run.at \in {"start", "activity", "controls"} /\ run.inbox # << >>
    /\ LET c == Head(run.inbox)
           p == [run EXCEPT !.inbox = Tail(@)]
       IN run' = IF ~Enqueues(c) THEN p
                 ELSE [p EXCEPT !.pending = Append(@, c), !.keys = @ \cup {c.id},
                                !.cancelling = IF /\ c.action = "cancel" /\ run.at = "activity"
                                                  /\ @ = None THEN c.id ELSE @]
    /\ UNCHANGED <<env, call, receipts>>

-----------------------------------------------------------------------------
(* The main thread.  It waits for the handlers, except in the first        *)
(* activation, whose order depends on the SDK.                             *)
CancelsOf(p) == {i \in DOMAIN p.pending : p.pending[i].action = "cancel"}

TakeCancel(p, confirmed) ==
    LET i == CHOOSE i \in CancelsOf(p) : \A j \in CancelsOf(p) : i <= j
        c == p.pending[i]
        rest == SubSeq(p.pending, 1, i - 1) \o SubSeq(p.pending, i + 1, Len(p.pending))
    IN Close(CancelProof(RecordControl([p EXCEPT !.pending = rest], c), c.id \in confirmed))

(* The head of the loop: a cancel first, then the authorization, then the  *)
(* next attempt.                                                           *)
LoopHead(p) ==
    CASE CancelsOf(p) # {} -> TakeCancel(p, {})
      [] CancelsOf(p) = {} /\ Expired -> Close(ProjectFailure(p, "authorization"))
      [] CancelsOf(p) = {} /\ ~Expired /\ p.attempt >= MaxAttempts -> Close(FinishAttempts(p))
      [] OTHER -> [StartProofAttempt(p) EXCEPT !.at = "activity", !.cancelling = None,
                                               !.outcome = NoOutcome, !.boundary = None]

Begin ==
    /\ Served /\ run.at = "start"
    /\ run' = IF env.clock # "session" THEN Close(ProjectFailure(run, "authorization"))
              ELSE LoopHead(run)
    /\ UNCHANGED <<env, call, receipts>>

Settled ==
    CASE run.outcome = [kind |-> "result", code |-> "malformed"] ->
           ProjectFailure(run, "rejected")
      [] run.outcome.kind = "result" /\ run.outcome.code # "malformed" ->
           ProjectResult(run, run.outcome.code)
      [] run.outcome.code = "confirmed" -> run
      [] OTHER -> ProjectFailure(run, run.outcome.code)

Confirmed == IF run.outcome.code = "confirmed" THEN {run.cancelling} ELSE {}

(* A cancel that arrived with the outcome replaces it.                     *)
Settle ==
    /\ Served /\ run.inbox = << >> /\ run.at = "activity" /\ run.outcome # NoOutcome
    /\ run' = CASE CancelsOf(run) # {} -> TakeCancel(Settled, Confirmed)
                [] CancelsOf(run) = {} /\ Settled.done -> Close(Settled)
                [] OTHER -> [Settled EXCEPT !.at = "controls"]
    /\ UNCHANGED <<env, call, receipts>>

(* A queued control that is no longer available is dropped.                *)
TakeControl ==
    /\ Served /\ run.inbox = << >> /\ run.at = "controls" /\ run.pending # << >>
    /\ LET c == Head(run.pending)
           p == [run EXCEPT !.pending = Tail(@)]
           q == RecordControl(p, c)
       IN run' = CASE c.action \notin Available(run) -> p
                   [] c.action \in Available(run) /\ c.action = "signal" ->
                        Close(ProjectEvidence(p, c))
                   [] c.action \in Available(run) /\ c.action = "cancel" ->
                        Close(CancelProof(q, FALSE))
                   [] c.action \in Available(run) /\ c.action = "defer" -> DeferProof(q)
                   [] OTHER -> LoopHead(q)
    /\ UNCHANGED <<env, call, receipts>>

(* Mutant: the wait for a control has no limit.                            *)
WaitsForControl ==
    /\ Served /\ run.at = "controls" /\ run.pending # << >> /\ run.inbox = << >> /\ Expired
    /\ run' = Close(ProjectFailure(run, "authorization"))
    /\ UNCHANGED <<env, call, receipts>>

(* The wait for a control ends with the authorization.                     *)
AuthorizationEnds ==
    /\ Served /\ run.inbox = << >> /\ run.at = "controls" /\ run.pending = << >> /\ Expired
    /\ run' = Close(ProjectFailure(run, "authorization"))
    /\ UNCHANGED <<env, call, receipts>>

-----------------------------------------------------------------------------
(* The API.  A call holds the context that it resolved; a process with     *)
(* another context is another process.                                     *)
NoCall == [at |-> "idle", control |-> {}]

(* The result a terminal run gives its owner.                              *)
OwnerResult ==
    CASE run.assertion = "passed" -> "passed"
      [] run.assertion # "passed" /\ run.state = "cancelled" -> "cancelled"
      [] run.assertion # "passed" /\ run.state = "blocked" -> "blocked"
      [] run.assertion # "passed" /\ run.failure = "denied" -> "denied"
      [] /\ run.assertion # "passed" /\ run.state # "cancelled" /\ run.failure # "denied"
         /\ run.failure = "unavailable" \/ run.code = "unavailable" -> "unavailable"
      [] OTHER -> "failed"

ReceiptEvidence == run.evidence

Receipt == [context |-> env.mounted, result |-> OwnerResult, evidence |-> ReceiptEvidence]

(* Mutant: a run that stands still has a receipt.                          *)
TerminalResultAtRest ==
    IF run.state \in {"completed", "failed", "cancelled", "blocked"} THEN {Receipt} ELSE {}

TerminalResult == IF run.done THEN {Receipt} ELSE {}

HandsOut == receipts' = receipts \cup TerminalResult

(* A second start under the identifier reads the run of the first.         *)
StartsOrReads ==
    \/ /\ run = NoRun
       /\ \E s \in Scenarios \cap OosScenarios : run' = CreateProjection(env.mounted, s)
       /\ UNCHANGED receipts
    \/ Retained /\ HandsOut /\ UNCHANGED run

Start(o) ==
    /\ call[o] = NoCall /\ Resolves(FALSE) /\ StartsOrReads
    /\ UNCHANGED <<env, call>>

Get(o) ==
    /\ call[o] = NoCall /\ Resolves(TRUE) /\ Retained /\ Readable /\ HandsOut
    /\ UNCHANGED <<env, run, call>>

(* controlControlledProofExecution reads the run before the adapter does.  *)
CheckControl(o) ==
    /\ call[o] = NoCall /\ Readable
    /\ \E c \in Signals :
          /\ Resolves(c.action = "cancel")
          /\ WellFormed(c) /\ c.session = env.mounted /\ Retained /\ Admits(c)
          /\ c.action \in Available(run)
          /\ call' = [call EXCEPT ![o] = [at |-> "checked", control |-> {c}]]
    /\ UNCHANGED <<env, run, receipts>>

SignalControl(o) ==
    /\ call[o].at = "checked"
    /\ \E c \in call[o].control :
          run' = IF run.at = "closed" THEN run ELSE [run EXCEPT !.inbox = Append(@, c)]
    /\ call' = [call EXCEPT ![o].at = "signalled"]
    /\ UNCHANGED <<env, receipts>>

(* Not applied and conflict are answers without a receipt.                 *)
RetainedOutcome(c) ==
    CASE /\ \E e \in run.controls : e.id = c.id /\ e.action = c.action
         /\ c.action = "signal" => run.evidence = {c} -> "applied"
      [] \A e \in run.controls : e.id # c.id -> "not applied"
      [] OTHER -> "conflict"

AnswerControl(o) ==
    /\ call[o].at = "signalled" /\ Readable
    /\ \E c \in call[o].control :
          /\ call' = [call EXCEPT ![o] = [NoCall EXCEPT !.at = "answered"]]
          /\ IF RetainedOutcome(c) = "applied" THEN HandsOut ELSE UNCHANGED receipts
    /\ UNCHANGED <<env, run>>

-----------------------------------------------------------------------------
(* Time, the mounted context, and the worker, which stops when its context *)
(* is no longer the mounted one, or for any other reason.                  *)
Tick ==
    /\ env.clock # "expired"
    /\ env' = [env EXCEPT !.clock = IF @ = "early" THEN "session" ELSE "expired"]
    /\ UNCHANGED <<run, call, receipts>>

Mount ==
    /\ env.mounts < MaxMounts
    /\ \E x \in (Contexts \cup {None}) \ {env.mounted} :
          env' = [env EXCEPT !.mounted = x, !.mounts = @ + 1]
    /\ call' = [o \in Callers |-> NoCall]
    /\ UNCHANGED <<run, receipts>>

WorkerStarts ==
    /\ env.worker = None /\ env.mounted # None
    /\ env' = [env EXCEPT !.worker = env.mounted]
    /\ UNCHANGED <<run, call, receipts>>

WorkerStops ==
    /\ env.worker # None /\ env.mounted # env.worker
    /\ env' = [env EXCEPT !.worker = None]
    /\ UNCHANGED <<run, call, receipts>>

Init ==
    /\ \E x \in Contexts : env = [clock |-> "early", mounted |-> x, worker |-> None, mounts |-> 0]
    /\ run = NoRun
    /\ call = [o \in Callers |-> NoCall]
    /\ receipts = {}

WorkflowTask == Begin \/ HandleSignal \/ Settle \/ TakeControl \/ AuthorizationEnds

Next ==
    \/ WorkflowTask \/ ActivityReturns
    \/ Tick \/ Mount \/ WorkerStarts \/ WorkerStops
    \/ \E o \in Callers :
          Start(o) \/ Get(o) \/ CheckControl(o) \/ SignalControl(o) \/ AnswerControl(o)

Spec == Init /\ [][Next]_vars

-----------------------------------------------------------------------------
(* A scenario passes only when its own boundary was observed in the        *)
(* session: the result or failure it is about, Platform's evidence for     *)
(* what Platform does, the confirmed end of the activity for a cancel.     *)
Boundary ==
    CASE run.scenario \in External \cup {"nominal-completion"} -> "ready"
      [] run.scenario = "cancellation" -> "confirmed"
      [] run.scenario = "identity-denial" -> "denied"
      [] run.scenario = "payload-boundary" -> "payload"
      [] run.scenario = "unavailable-dependency" -> "unavailable"

PassedIsObserved ==
    run.assertion = "passed" =>
       /\ run.boundary = Boundary
       /\ run.scenario \in External => \E c \in run.evidence : c.kind = run.scenario
       /\ run.scenario = "cancellation" =>
             \E c \in run.controls : c.action = "cancel" /\ c.id = run.cancelling

(* No activation makes a projection that is refused.                       *)
ProjectionAccepted == run # NoRun => Accepted(run)

(* Every receipt handed out is of the ended run, of its context, and with  *)
(* the result the run still has: no two readers are told differently.      *)
ReceiptIsTheRuns ==
    \A r \in receipts :
       /\ run.done /\ r.context = run.context
       /\ r.result = OwnerResult /\ r.evidence = run.evidence

(* A scenario passes in its session, and an ended run stays as it ended.   *)
PassStep ==
    /\ run'.assertion = "passed" /\ run.assertion # "passed" => env.clock = "session"
    /\ run.done => run' = run

(* A started run ends, when a context stays mounted for its worker.        *)
ProofEnds == <>[](env.mounted # None) => (run # NoRun ~> run.done)
=============================================================================

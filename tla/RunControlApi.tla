--------------------------- MODULE RunControlApi ---------------------------
(***************************************************************************)
(* Operators controlling a run over HTTP: controlRun of                    *)
(* src/src/orchestration/service.js and of temporal-adapter.js, composed   *)
(* with the workflow.  Each call reads the projection, tests availability, *)
(* signals the workflow and reads the projection back to learn whether the *)
(* control was applied; signals of other calls, the activity and           *)
(* retirement interleave with these steps.                                 *)
(***************************************************************************)
EXTENDS ValidationReadinessRun

CONSTANTS Callers,    \* operators, each submitting one control
          ControlOf,  \* the control each caller submits
          MaxCalls    \* bound on the calls of a caller: the first and retries

ASSUME CallerAssumption == /\ ControlOf \in [Callers -> Controls]
                           /\ MaxCalls \in Nat \ {0}

VARIABLE call  \* per caller: the stage and the reads of its latest call

apiVars == <<vars, call>>

(* stage: idle, admitted, signalled, replied; reply: none, matched,        *)
(* conflict, not-applied, unavailable; seen and read: the projections of   *)
(* getRun and of the read back.                                            *)
NoCall == [stage |-> "idle", number |-> 0, reply |-> "none",
           seen |-> CreateRunProjection, read |-> CreateRunProjection]

(* Mutant: a query is answered in the middle of an activation.             *)
ReadableMidActivation == TRUE

(* Mutant: a closed run does not answer.                                   *)
ReadableWhileOpen ==
    /\ inbox = << >>
    /\ \/ pc = "activity" /\ activity.status = "executing"
       \/ pc = "controls" /\ pending = << >>

(* A query is answered by a worker that has caught up with the history of  *)
(* the run: every signal handled and no code left to resume.               *)
Readable ==
    /\ inbox = << >>
    /\ \/ pc = "closed"
       \/ pc = "activity" /\ activity.status = "executing"
       \/ pc = "controls" /\ pending = << >>

(* Mutant: the key alone identifies a control.                             *)
RetainedControlOutcomeByKey(p, control) ==
    IF KeyRetained(p, control) THEN "matched" ELSE "not-applied"

(* How the retained projection answers for a control.                      *)
RetainedControlOutcome(p, control) ==
    IF \E i \in 1..Len(p.controls) : p.controls[i] = control THEN "matched"
    ELSE IF KeyRetained(p, control) THEN "conflict"
    ELSE "not-applied"

-----------------------------------------------------------------------------
(* getRun, then the test of the projected availability.                    *)
Admit(o) ==
    /\ call[o].stage \in {"idle", "replied"} /\ call[o].number < MaxCalls
    /\ Readable
    /\ call' = [call EXCEPT ![o] =
          [stage |-> IF ControlIsAvailable(ControlOf[o]) THEN "admitted"
                                                         ELSE "replied",
           number |-> @.number + 1,
           reply |-> IF ControlIsAvailable(ControlOf[o]) THEN "none"
                                                         ELSE "unavailable",
           seen |-> projection, read |-> projection]]
    /\ UNCHANGED vars

(* The signal reaches Temporal, whether or not the answer comes back ...   *)
SignalRun(o) ==
    /\ call[o].stage = "admitted"
    /\ SendSignal(ControlOf[o])
    /\ call' = [call EXCEPT ![o].stage = "signalled"]

(* ... or it does not: the run has closed, or the request was lost.        *)
SignalFails(o) ==
    /\ call[o].stage = "admitted"
    /\ call' = [call EXCEPT ![o].stage = "signalled"]
    /\ UNCHANGED vars

ReadBack(o) ==
    /\ call[o].stage = "signalled" /\ Readable
    /\ call' = [call EXCEPT
          ![o].stage = "replied", ![o].read = projection,
          ![o].reply = RetainedControlOutcome(projection, ControlOf[o])]
    /\ UNCHANGED vars

-----------------------------------------------------------------------------
ApiInit == Init /\ call = [o \in Callers |-> NoCall]

Runtime == /\ Workflow \/ ActivityRetry \/ ActivityReturn
           /\ UNCHANGED call

(* Generation retirement signals the run itself.                           *)
Retire == SendSignal(Retirement) /\ UNCHANGED call

ApiNext == \/ Runtime \/ Retire
           \/ \E o \in Callers : \/ Admit(o) \/ SignalRun(o)
                                 \/ SignalFails(o) \/ ReadBack(o)

ApiSpec == ApiInit /\ [][ApiNext]_apiVars

ApiFairSpec ==
    /\ ApiSpec
    /\ WF_apiVars(Workflow /\ UNCHANGED call)
    /\ WF_apiVars(ActivityReturn /\ UNCHANGED call)
    /\ \A o \in Callers : WF_apiVars(ReadBack(o))

-----------------------------------------------------------------------------
(* A successful reply is true for good: the control it names is retained   *)
(* by the run, later controls and retirement notwithstanding.              *)
SuccessIsRetained ==
    \A o \in Callers : call[o].reply = "matched" =>
        RetainedControlOutcome(projection, ControlOf[o]) = "matched"

(* "not applied", read from a closed run, is final as well.                *)
NotAppliedOnClosedRunIsFinal ==
    \A o \in Callers :
        call[o].reply = "not-applied" /\ Terminal(call[o].read) =>
            RetainedControlOutcome(projection, ControlOf[o]) = "not-applied"

(* Two callers that share a key are never both told that theirs applied.   *)
KeyAppliesOnce ==
    \A o, p \in Callers :
        /\ ControlOf[o] # ControlOf[p]
        /\ \/ ControlOf[o].id = ControlOf[p].id
           \/ ControlOf[o].key = ControlOf[p].key
        => ~(call[o].reply = "matched" /\ call[p].reply = "matched")

(* Every call that signalled is answered while a worker polls.             *)
CallsAreAnswered ==
    \A o \in Callers : call[o].stage = "signalled" ~> call[o].stage = "replied"

=============================================================================

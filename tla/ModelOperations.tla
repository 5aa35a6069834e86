-------------------------- MODULE ModelOperations --------------------------
(***************************************************************************)
(* One request of an operator to the model platform, and the API process   *)
(* that dispatches it.  The record is updated in transactions of its own;  *)
(* nothing is held while the platform is asked.  The process may stop at   *)
(* any point, which loses what was pending and running but not the record. *)
(***************************************************************************)
EXTENDS Naturals

CONSTANTS MaxHistory,   \* events a record can hold
          MaxRestarts   \* bound on the restarts of the process

VARIABLES platform,     \* the owner: its configuration and its sign-ins
          record,       \* the durable record of the request
          pending,      \* whether the request waits for the dispatcher
          call,         \* the dispatcher and a reader of the sign-in
          restarts

vars == <<platform, record, pending, call, restarts>>

None == "none"

Attempts == 1..MaxHistory
Terminal == {"completed", "rejected", "cancelled"}
LoginEnd == {"connected", "cancelled", "failed"}

NoRecord == [action |-> None, state |-> None, started |-> FALSE,
             receipt |-> FALSE, attempt |-> 1, cancels |-> FALSE,
             login |-> None, events |-> 0]

Idle == [at |-> "idle", prior |-> FALSE, receipt |-> FALSE, login |-> None,
         attempt |-> 1, cancels |-> FALSE]

Init == /\ platform = [current |-> TRUE, applied |-> {},
                       login |-> [a \in Attempts |-> None]]
        /\ record = NoRecord /\ pending = FALSE /\ restarts = 0
        /\ call = [who \in {"dispatcher", "reader"} |-> Idle]

Dispatcher == call["dispatcher"]
Reader == call["reader"]
At(who, r) == call' = [call EXCEPT ![who] = r]

HistoryFull == record.events >= MaxHistory

(* event: what does not fit in the history is not recorded at all.         *)
Event(r, state) == [r EXCEPT !.state = state, !.events = @ + 1]

-----------------------------------------------------------------------------
(* create: a repeated creation finds the record, and dispatches it again   *)
(* as long as it is queued.                                                *)
Create(action) ==
    /\ record = NoRecord
    /\ record' = Event([NoRecord EXCEPT !.action = action], "queued")
    /\ pending' = TRUE
    /\ UNCHANGED <<platform, call, restarts>>

CreateAgain ==
    /\ record.state = "queued" /\ pending' = TRUE
    /\ UNCHANGED <<platform, record, call, restarts>>

(* dispatch: the record says that the owner may have been called before it *)
(* is.  What cannot be recorded is not dispatched.                         *)
Dispatch ==
    /\ pending /\ Dispatcher.at = "idle" /\ pending' = FALSE
    /\ \/ /\ record.state = "queued" /\ ~HistoryFull
          /\ record' = Event([record EXCEPT !.started = TRUE], "running")
          /\ At("dispatcher", [Idle EXCEPT !.prior = record.started,
                   !.attempt = record.attempt, !.cancels = record.cancels,
                   !.receipt = record.receipt,
                   !.at = IF record.receipt THEN "readback" ELSE "command"])
       \/ UNCHANGED <<record, call>>
    /\ UNCHANGED <<platform, restarts>>

SignIn == record.action = "sign-in"

(* The owner answers a command it knows with its first answer; a change is *)
(* made only of the configuration that the operator had seen.              *)
OwnerChanges ==
    /\ ~SignIn
    /\ \/ Dispatcher.attempt \in platform.applied /\ UNCHANGED platform
       \/ /\ Dispatcher.attempt \notin platform.applied /\ platform.current
          /\ platform' = [platform EXCEPT !.current = FALSE,
                                          !.applied = @ \cup {Dispatcher.attempt}]

OwnerSignsIn ==
    /\ SignIn
    /\ LET login == platform.login[Dispatcher.attempt] IN
       IF Dispatcher.cancels
       THEN platform' = [platform EXCEPT !.login[Dispatcher.attempt] =
                             IF login = "waiting" THEN "cancel-requested" ELSE login]
       ELSE platform' = [platform EXCEPT !.login[Dispatcher.attempt] =
                             IF login = None THEN "waiting" ELSE login]

CommandAnswered ==
    /\ Dispatcher.at = "command"
    /\ OwnerChanges \/ OwnerSignsIn
    /\ At("dispatcher", [Dispatcher EXCEPT !.receipt = ~SignIn,
                            !.at = IF SignIn THEN "readback" ELSE "retain"])
    /\ UNCHANGED <<record, pending, restarts>>

(* The receipt is kept before anything is read back.                       *)
RetainReceipt ==
    /\ Dispatcher.at = "retain"
    /\ record' = [record EXCEPT !.receipt = TRUE]
    /\ At("dispatcher", [Dispatcher EXCEPT !.at = "readback"])
    /\ UNCHANGED <<platform, pending, restarts>>

(* What a dispatch or a reading of the sign-in makes of its state.         *)
StateOfLogin(login) ==
    IF login = "connected" THEN "completed"
    ELSE IF login = "cancelled" THEN "cancelled"
    ELSE IF login = "failed" THEN "rejected" ELSE "awaiting-account"

ReadBack ==
    /\ Dispatcher.at = "readback"
    /\ At("dispatcher", [Dispatcher EXCEPT !.at = "finish",
                            !.login = platform.login[Dispatcher.attempt]])
    /\ UNCHANGED <<platform, record, pending, restarts>>

Finish ==
    /\ Dispatcher.at = "finish" /\ ~HistoryFull
    /\ record' = Event([record EXCEPT !.receipt = Dispatcher.receipt,
                                      !.login = Dispatcher.login],
                       IF SignIn THEN StateOfLogin(Dispatcher.login) ELSE "completed")
    /\ At("dispatcher", Idle)
    /\ UNCHANGED <<platform, pending, restarts>>

(* What the dispatcher meets instead of an answer: a known refusal, which  *)
(* the owner gives to a command it has not done; no management credential; *)
(* an answer that is not valid, or none.  The failure is written down, if  *)
(* the store takes it.                                                     *)
Knows == IF SignIn THEN platform.login[Dispatcher.attempt] # None
         ELSE Dispatcher.attempt \in platform.applied

Failures ==
    CASE Dispatcher.at \in {"retain", "finish"} -> {"unknown"}
      [] Dispatcher.at = "readback" ->
             {"no-credential", "busy", "refused", "invalid", "unknown"}
      [] Dispatcher.at = "command" ->
             {"no-credential", "unknown"} \cup (IF Knows THEN {} ELSE {"busy", "refused"})

EffectFree(f) == f \in {"busy", "refused"}

StateOfFailure(f) ==
    IF record.receipt THEN "unknown"
    ELSE IF f = "busy" THEN "retryable"
    ELSE IF f = "refused" THEN "rejected"
    ELSE IF f = "no-credential" THEN IF Dispatcher.prior THEN "unknown" ELSE "retryable"
    ELSE IF f = "invalid" THEN "blocked" ELSE "unknown"

StartedAfter(f) ==
    /\ record.started
    /\ record.receipt \/ ~(EffectFree(f) \/ (f = "no-credential" /\ ~Dispatcher.prior))

DispatchFails ==
    /\ Dispatcher.at # "idle"
    /\ \/ UNCHANGED record
       \/ /\ ~HistoryFull
          /\ \E f \in Failures :
                record' = Event([record EXCEPT !.started = StartedAfter(f)],
                                StateOfFailure(f))
    /\ At("dispatcher", Idle)
    /\ UNCHANGED <<platform, pending, restarts>>

(* The answer of a command that was done is lost, or is not valid.         *)
AnswerIsLost ==
    /\ Dispatcher.at = "command"
    /\ OwnerChanges \/ OwnerSignsIn
    /\ \/ UNCHANGED record
       \/ ~HistoryFull /\ \E state \in {"unknown", "blocked"} : record' = Event(record, state)
    /\ At("dispatcher", Idle)
    /\ UNCHANGED <<pending, restarts>>

-----------------------------------------------------------------------------
(* get: the sign-in is read at the owner, and then written down if the     *)
(* record still waits for it.                                              *)
ReadLogin ==
    /\ Reader.at = "idle" /\ record.state = "awaiting-account"
    /\ platform.login[record.attempt] # record.login
    /\ At("reader", [Idle EXCEPT !.at = "refresh", !.attempt = record.attempt,
                        !.cancels = record.cancels,
                        !.login = platform.login[record.attempt]])
    /\ UNCHANGED <<platform, record, pending, restarts>>

Refresh ==
    /\ Reader.at = "refresh"
    /\ IF /\ record.state = "awaiting-account" /\ ~HistoryFull
          /\ record.attempt = Reader.attempt /\ record.cancels = Reader.cancels
       THEN record' = Event([record EXCEPT !.login = Reader.login],
                            StateOfLogin(Reader.login))
       ELSE UNCHANGED record
    /\ At("reader", Idle)
    /\ UNCHANGED <<platform, pending, restarts>>

RefreshFails ==
    /\ Reader.at = "refresh"
    /\ IF record.state = "awaiting-account" /\ ~HistoryFull
       THEN record' = Event(record, "unknown") ELSE UNCHANGED record
    /\ At("reader", Idle)
    /\ UNCHANGED <<platform, pending, restarts>>

-----------------------------------------------------------------------------
(* control: at the revision the operator has read, so at the record as it  *)
(* is; a repeated control changes nothing.                                 *)
Undispatched == ~record.receipt /\ ~record.started

CancelsUndispatched == record.state \in {"queued", "retryable"} /\ Undispatched

Cancel ==
    /\ ~HistoryFull /\ CancelsUndispatched
    /\ record' = Event(record, "cancelled")
    /\ UNCHANGED <<platform, pending, call, restarts>>

Queue(r) == record' = Event(r, "queued") /\ pending' = TRUE

CancelSignIn ==
    /\ ~HistoryFull /\ record.state = "awaiting-account" /\ SignIn
    /\ Queue([record EXCEPT !.cancels = TRUE])
    /\ UNCHANGED <<platform, call, restarts>>

Retry ==
    /\ ~HistoryFull /\ Dispatcher.at = "idle"
    /\ record.state = "retryable" /\ Undispatched
    /\ Queue([record EXCEPT !.attempt = @ + 1, !.cancels = FALSE])
    /\ UNCHANGED <<platform, call, restarts>>

Reconcile ==
    /\ ~HistoryFull /\ Dispatcher.at = "idle"
    /\ record.state \in {"unknown", "running", "blocked", "awaiting-account", "queued"}
    /\ Queue(record)
    /\ UNCHANGED <<platform, call, restarts>>

Restart ==
    /\ restarts < MaxRestarts /\ restarts' = restarts + 1
    /\ pending' = FALSE /\ call' = [who \in DOMAIN call |-> Idle]
    /\ UNCHANGED <<platform, record>>

-----------------------------------------------------------------------------
(* The platform, outside the service.                                      *)
OthersEdit == /\ platform.current
              /\ platform' = [platform EXCEPT !.current = FALSE]
              /\ UNCHANGED <<record, pending, call, restarts>>

LoginEnds ==
    /\ \E a \in Attempts :
          /\ platform.login[a] \in {"waiting", "cancel-requested"}
          /\ \E end \in IF platform.login[a] = "waiting"
                        THEN {"connected", "failed"} ELSE LoginEnd :
                platform' = [platform EXCEPT !.login[a] = end]
    /\ UNCHANGED <<record, pending, call, restarts>>

Next == \/ \E action \in {"configure", "sign-in"} : Create(action)
        \/ CreateAgain \/ Dispatch \/ CommandAnswered \/ RetainReceipt
        \/ ReadBack \/ Finish \/ DispatchFails \/ AnswerIsLost
        \/ ReadLogin \/ Refresh \/ RefreshFails
        \/ Cancel \/ CancelSignIn \/ Retry \/ Reconcile
        \/ Restart \/ OthersEdit \/ LoginEnds

Spec == Init /\ [][Next]_vars

-----------------------------------------------------------------------------
(* A change of the configuration that completed was made, and one that was *)
(* cancelled or rejected was not, whatever was lost, retried or restarted. *)
OutcomeIsTheOwners ==
    record.action = "configure" =>
        /\ record.state = "completed" => platform.applied # {}
        /\ record.state \in {"cancelled", "rejected"} => platform.applied = {}

(* A sign-in that was cancelled is not one that the owner goes on with.    *)
CancelledSignInIsOver ==
    record.action = "sign-in" /\ record.state = "cancelled" =>
        \A a \in Attempts : platform.login[a] \in {None} \cup LoginEnd
=============================================================================

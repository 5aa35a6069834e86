-------------------------- MODULE SourceCredential --------------------------
(***************************************************************************)
(* The credential of one prepared source intent: the preparation with the  *)
(* approval, the stop and the receipt it retains; the platform operations  *)
(* that issue, renew and revoke it; and the source actions that need it.   *)
(*                                                                         *)
(* A platform operation is worked on under the lock of its command, while  *)
(* the owner is asked; the preparation has a lock of its own, which a      *)
(* source action holds until its effect is made.  A lock that is taken     *)
(* refuses the call.  A call may stop at any point and frees its locks.    *)
(***************************************************************************)
EXTENDS Naturals

CONSTANTS Calls,
          MaxRenewals,  \* bound on the renewals of the credential
          MaxStops      \* bound on the calls that stop

VARIABLES owner,        \* the platform: its operation for each command
          record,       \* the preparation, and the record of each operation
          lock,         \* the calls that hold the locks
          call,         \* per call: what it does, and what it has read
          env           \* the credentials that have expired; calls stopped

vars == <<owner, record, lock, call, env>>

None == "none"

(* A command, and how many renewals came before its credential.            *)
Issue == <<"issue", 0>>
Revoke == <<"revoke", 0>>
Renew(n) == <<"renew", n>>
NoCommand == <<None, 0>>

Commands == {Issue, Revoke} \cup {Renew(n) : n \in 1..MaxRenewals}
Renewals(m) == m[2]

Preparation == <<"preparation", 0>>

NoPreparation == [approved |-> FALSE, stopped |-> FALSE, unissued |-> FALSE,
                  receipt |-> NoCommand]

Idle == [at |-> "idle", what |-> None, command |-> NoCommand, asked |-> FALSE, retried |-> FALSE]

Init == /\ owner = [m \in Commands |-> None]
        /\ record = [prep |-> NoPreparation, op |-> [m \in Commands |-> None]]
        /\ lock = [l \in Commands \cup {Preparation} |-> None]
        /\ call = [c \in Calls |-> Idle]
        /\ env = [expired |-> 0, stops |-> 0]

Go(c, at) == call' = [call EXCEPT ![c].at = at]
End(c) == /\ call' = [call EXCEPT ![c] = Idle]
          /\ lock' = [l \in DOMAIN lock |-> IF lock[l] = c THEN None ELSE lock[l]]
Refused(c) == End(c) /\ UNCHANGED <<owner, record, env>>

Prep == record.prep
Operation(m) == record.op[m]
Keep(m, state) == record' = [record EXCEPT !.op[m] = state]

(* The receipt is of the command whose credential is held.                 *)
Usable == /\ Prep.receipt \notin {NoCommand, Revoke}
          /\ Renewals(Prep.receipt) >= env.expired

(* assertOpen, of the preparation as it is in the transaction.             *)
Open == ~Prep.stopped
Unlocked == lock[Preparation] = None

-----------------------------------------------------------------------------
(* submit and get: the record is worked on under the lock of its command.  *)
Terminal == {"succeeded", "failed"}

Authorized(m) == Open /\ (m \notin {Issue, Revoke} => Prep.approved)

(* A command whose record exists is not dispatched again.                  *)
Submit(c) ==
    /\ call[c].at = "submit"
    /\ LET m == call[c].command IN
       IF lock[m] # None THEN Refused(c)
       ELSE /\ lock' = [lock EXCEPT ![m] = c]
            /\ Go(c, IF Operation(m) = None THEN "read" ELSE "submitted")
            /\ UNCHANGED <<owner, record, env>>

ReadPreparation(c) ==
    /\ call[c].at = "read"
    /\ IF call[c].command = Revoke \/ Open
       THEN Go(c, "authorize") /\ UNCHANGED <<owner, record, lock, env>>
       ELSE Refused(c)

(* assertAuthorized: a revoke stops the intent before it is dispatched;    *)
(* the others retain the first approval of an intent that is still open.   *)
Authorize(c) ==
    /\ call[c].at = "authorize"
    /\ IF Unlocked /\ (call[c].command = Revoke \/ Authorized(call[c].command))
       THEN /\ record' = IF call[c].command = Revoke
                         THEN [record EXCEPT !.prep.stopped = TRUE]
                         ELSE [record EXCEPT !.prep.approved = TRUE]
            /\ Go(c, "retain") /\ UNCHANGED <<owner, lock, env>>
       ELSE Refused(c)

Retain(c) ==
    /\ call[c].at = "retain"
    /\ Keep(call[c].command, "requested") /\ Go(c, "dispatch")
    /\ UNCHANGED <<owner, lock, env>>

Blocked(c) ==
    /\ call[c].at \in {"dispatch", "ask", "observe"}
    /\ Keep(call[c].command, "blocked") /\ Go(c, "submitted")
    /\ UNCHANGED <<owner, lock, env>>

(* The owner runs a command once; its answer may be lost.                  *)
Started(m) == [owner EXCEPT ![m] = IF @ = None THEN "running" ELSE @]

Dispatch(c) ==
    /\ call[c].at = "dispatch"
    /\ owner' = Started(call[c].command)
    /\ Go(c, "observe")
    /\ UNCHANGED <<record, lock, env>>

DispatchUnanswered(c) ==
    /\ call[c].at = "dispatch"
    /\ owner' = Started(call[c].command)
    /\ Keep(call[c].command, "blocked") /\ Go(c, "submitted")
    /\ UNCHANGED <<lock, env>>

Ask(c) ==
    /\ call[c].at = "ask"
    /\ owner[call[c].command] # None
    /\ Go(c, "observe") /\ UNCHANGED <<owner, record, lock, env>>

Replaces(m) == \/ Prep.receipt = NoCommand \/ m = Revoke
               \/ Prep.receipt # Revoke /\ Renewals(m) > Renewals(Prep.receipt)

Observed(m) ==
    [Prep EXCEPT !.receipt = IF Replaces(m) THEN m ELSE @,
                 !.stopped = @ \/ m = Revoke]

(* observe: the preparation retains the receipt of an operation that       *)
(* succeeded, also when it was stopped since.                              *)
Observe(c) ==
    /\ call[c].at = "observe"
    /\ LET m == call[c].command IN
       /\ owner[m] = "succeeded" => Unlocked
       /\ record' = [prep |-> IF owner[m] = "succeeded" THEN Observed(m) ELSE Prep,
                     op |-> [record.op EXCEPT ![m] = owner[m]]]
    /\ Go(c, "submitted")
    /\ UNCHANGED <<owner, lock, env>>

(* get: a terminal record answers for itself.                              *)
Get(c) ==
    /\ call[c].at = "get"
    /\ LET m == call[c].command IN
       IF lock[m] # None \/ Operation(m) = None THEN Refused(c)
       ELSE /\ lock' = [lock EXCEPT ![m] = c]
            /\ call' = [call EXCEPT ![c].asked = TRUE, ![c].at =
                            IF Operation(m) \in Terminal THEN "submitted" ELSE "ask"]
            /\ UNCHANGED <<owner, record, env>>

(* control, with the key of the attempt that failed.                       *)
Retry(c) ==
    /\ call[c].at = "retry"
    /\ LET m == call[c].command IN
       IF /\ lock[m] = None /\ Operation(m) = "failed"
          /\ Unlocked /\ m # Revoke /\ Authorized(m)
       THEN /\ lock' = [lock EXCEPT ![m] = c]
            /\ record' = [record EXCEPT !.prep.approved = TRUE]
            /\ Go(c, "redispatch") /\ UNCHANGED <<owner, env>>
       ELSE Refused(c)

Redispatch(c) ==
    /\ call[c].at = "redispatch"
    /\ owner' = [owner EXCEPT ![call[c].command] = IF @ = "failed" THEN "running" ELSE @]
    /\ \/ Go(c, "observe") /\ UNCHANGED record
       \/ Keep(call[c].command, "blocked") /\ Go(c, "submitted")
    /\ UNCHANGED <<lock, env>>

(* The record is kept and its lock is free.  A source action reads an      *)
(* operation that is not over once more, and looks for its credential.     *)
Submitted(c) ==
    /\ call[c].at = "submitted"
    /\ lock' = [lock EXCEPT ![call[c].command] = None]
    /\ IF call[c].what = "act"
       THEN Go(c, IF Operation(call[c].command) \in Terminal \/ call[c].asked
                  THEN "confirm" ELSE "get")
       ELSE call' = [call EXCEPT ![c] = Idle]
    /\ UNCHANGED <<owner, record, env>>

-----------------------------------------------------------------------------
(* A source action: ensureSourceCredential, and then withSourceLease.      *)
LeaseContext(c) == Prep.approved /\ Open /\ Unlocked

Ensure(c) ==
    /\ call[c].at = "idle" /\ LeaseContext(c)
    /\ LET renewal == Renew(Renewals(Prep.receipt) + 1) IN
       \/ /\ Usable
          /\ call' = [call EXCEPT ![c] = [Idle EXCEPT !.at = "lease", !.what = "act"]]
       \/ /\ Prep.receipt = NoCommand
          /\ call' = [call EXCEPT ![c] = [Idle EXCEPT !.at = "get", !.what = "act",
                                                      !.command = Issue]]
       \/ /\ ~Usable /\ Prep.receipt # NoCommand /\ renewal \in Commands
          /\ call' = [call EXCEPT ![c] =
                [Idle EXCEPT !.at = "submit", !.what = "act", !.command = renewal]]
    /\ UNCHANGED <<owner, record, lock, env>>

(* An operation that failed is retried once; otherwise the action ends if  *)
(* its credential is not there.                                            *)
Confirm(c) ==
    /\ call[c].at = "confirm"
    /\ IF Operation(call[c].command) = "failed" /\ ~call[c].retried
       THEN /\ call' = [call EXCEPT ![c].at = "retry", ![c].retried = TRUE]
            /\ UNCHANGED <<owner, record, lock, env>>
       ELSE IF LeaseContext(c) /\ Usable
       THEN Go(c, "lease") /\ UNCHANGED <<owner, record, lock, env>>
       ELSE Refused(c)

(* Mutant: what ensureSourceCredential has seen counts as the lease.       *)
LeasedBefore == Unlocked /\ Prep.approved /\ Usable

(* The lease is read again under the lock that every stop needs.           *)
Leased == Unlocked /\ Open /\ Prep.approved /\ Usable

Lease(c) ==
    /\ call[c].at = "lease"
    /\ IF Leased
       THEN /\ lock' = [lock EXCEPT ![Preparation] = c]
            /\ Go(c, "effect") /\ UNCHANGED <<owner, record, env>>
       ELSE Refused(c)

(* Just before the effect its expiry is looked at again.                   *)
SourceEffect(c) ==
    /\ call[c].at = "effect" /\ Usable
    /\ Go(c, "written") /\ UNCHANGED <<owner, record, lock, env>>

Release(c) == /\ call[c].at \in {"effect", "written"}
              /\ (call[c].at = "effect" => ~Usable)
              /\ Refused(c)

-----------------------------------------------------------------------------
(* The operator: approves the issue, stops the intent, reads an operation. *)
Approve(c) ==
    /\ call[c].at = "idle"
    /\ call' = [call EXCEPT ![c] = [Idle EXCEPT !.at = "submit", !.what = "approve",
                                                !.command = Issue]]
    /\ UNCHANGED <<owner, record, lock, env>>

(* stopSourceCredential: stopped at once, and then revoked.                *)
Stop(c) ==
    /\ call[c].at = "idle" /\ Prep.approved /\ Unlocked
    /\ record' = [record EXCEPT !.prep.stopped = TRUE]
    /\ call' = [call EXCEPT ![c] = [Idle EXCEPT !.at = "submit", !.what = "stop",
                                                !.command = Revoke]]
    /\ UNCHANGED <<owner, lock, env>>

(* stopUnissued: only what no operation was approved for.                  *)
StopUnissued(c) ==
    /\ call[c].at = "idle" /\ Unlocked
    /\ ~Prep.approved /\ Prep.receipt = NoCommand
    /\ record' = [record EXCEPT !.prep.stopped = TRUE, !.prep.unissued = TRUE]
    /\ UNCHANGED <<owner, lock, call, env>>

ReadOperation(c) ==
    /\ call[c].at = "idle"
    /\ \E m \in Commands :
          /\ Operation(m) \notin {None} \cup Terminal
          /\ call' = [call EXCEPT ![c] = [Idle EXCEPT !.at = "get", !.what = "read",
                                                      !.command = m]]
    /\ UNCHANGED <<owner, record, lock, env>>

CallStops(c) ==
    /\ call[c].at # "idle" /\ env.stops < MaxStops
    /\ env' = [env EXCEPT !.stops = @ + 1]
    /\ End(c) /\ UNCHANGED <<owner, record>>

(* The platform ends its operations; credentials expire in their order.    *)
OwnerEnds ==
    /\ \E m \in Commands, end \in {"succeeded", "failed"} :
          owner[m] = "running" /\ owner' = [owner EXCEPT ![m] = end]
    /\ UNCHANGED <<record, lock, call, env>>

Expires ==
    /\ Usable /\ env' = [env EXCEPT !.expired = Renewals(Prep.receipt) + 1]
    /\ UNCHANGED <<owner, record, lock, call>>

Next == \/ \E c \in Calls :
              \/ Approve(c) \/ Stop(c) \/ StopUnissued(c) \/ ReadOperation(c)
              \/ Submit(c) \/ ReadPreparation(c) \/ Authorize(c) \/ Retain(c)
              \/ Dispatch(c) \/ DispatchUnanswered(c) \/ Blocked(c) \/ Ask(c)
              \/ Observe(c) \/ Get(c) \/ Retry(c) \/ Redispatch(c) \/ Submitted(c)
              \/ Ensure(c) \/ Confirm(c) \/ Lease(c) \/ SourceEffect(c)
              \/ Release(c) \/ CallStops(c)
        \/ OwnerEnds \/ Expires

Spec == Init /\ [][Next]_vars

-----------------------------------------------------------------------------
(* No source effect is made after the intent was stopped, although the     *)
(* action began before.                                                    *)
EffectStep ==
    \A c \in Calls :
        call[c].at = "effect" /\ call'[c].at = "written" => ~Prep.stopped

(* The receipt of a revocation stays, whatever answers come after it.      *)
RevokedStep == Prep.receipt = Revoke => Prep'.receipt = Revoke

(* What was stopped as never issued has no operation at the platform.      *)
UnissuedHasNoCredential ==
    Prep.unissued => \A m \in Commands : owner[m] = None
=============================================================================

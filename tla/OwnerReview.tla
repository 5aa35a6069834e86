---------------------------- MODULE OwnerReview ----------------------------
(***************************************************************************)
(* What the owner workflows have in common: a record kept in a journal     *)
(* under a lock, and one change of an owner's repository, published as a   *)
(* branch and a pull request that a person merges or closes.               *)
(*                                                                         *)
(* A call loads the record, works on a copy, and writes the copy back      *)
(* after each step.  It may stop between a step and its write.  The lock   *)
(* is held by a child process; if that dies the call goes on without it,   *)
(* until its next write, and another call may start.                       *)
(***************************************************************************)
EXTENDS Naturals

CONSTANTS Calls,        \* calls that may run at once
          MaxStops      \* bound on the calls that stop

VARIABLES source,       \* the owner's repository, as far as this request
          journal,      \* the durable record
          lock,         \* the call that holds the lock, or None
          call,         \* per call: where it is, and its copy of the record
          faults        \* calls that stopped, and whether a lock was lost

vars == <<source, journal, lock, call, faults>>

None == "none"

NoSource == [moved |-> FALSE, branch |-> None, review |-> None, proven |-> FALSE,
             acknowledged |-> FALSE]

(* The fields of a record that the workflows keep; choice is the service's *)
(* own decision.  It is bound to a revision of the authority: moved, at    *)
(* the source, says that the main branch has left it.                      *)
NewRecord(choice) ==
    [status |-> "accepted", prepared |-> FALSE, review |-> FALSE,
     failed |-> FALSE, choice |-> choice]

NoRecord == [NewRecord(None) EXCEPT !.status = None]

Idle == [at |-> "idle", action |-> None, record |-> NoRecord, then |-> None]

Init == /\ source = NoSource /\ journal = NoRecord /\ lock = None
        /\ faults = [stops |-> 0, lost |-> FALSE]
        /\ call = [c \in Calls |-> Idle]

Go(c, next) == call' = [call EXCEPT ![c] = next]
Running(c, at) == call[c].at = at
Copy(c) == call[c].record
Going(c) == call[c].action = "continue"

(* The call writes r next, and then goes on at then, or ends.              *)
Saving(c, r, then) ==
    Go(c, [at |-> "save", record |-> r, then |-> then,
           action |-> IF then = "end" THEN None ELSE call[c].action])
Moved(r, status) == [r EXCEPT !.status = status, !.failed = FALSE]

Step(c, status, r, then) ==
    /\ Running(c, "run") /\ Copy(c).status = status
    /\ Saving(c, r, then)
    /\ UNCHANGED <<source, journal, lock, faults>>

(* transact: a busy lock refuses the call.                                 *)
Begin(c, action) ==
    /\ Running(c, "idle") /\ lock = None
    /\ lock' = c
    /\ Go(c, [at |-> "run", action |-> action, record |-> journal, then |-> None])
    /\ UNCHANGED <<source, journal, faults>>

(* A request is bound to the revision that its preparation read, which     *)
(* main may have left since.                                               *)
Accept(c, choice) ==
    /\ Running(c, "idle") /\ lock = None /\ lock' = c
    /\ Go(c, [at |-> "save", action |-> None,
              record |-> NewRecord(choice), then |-> "end"])
    /\ UNCHANGED <<source, journal, faults>>

End(c) == /\ Go(c, Idle)
          /\ lock' = IF lock = c THEN None ELSE lock

(* put: written only with the lock held.                                   *)
Save(c) ==
    /\ Running(c, "save")
    /\ IF lock = c THEN journal' = Copy(c) ELSE UNCHANGED journal
    /\ IF lock = c /\ call[c].then = "run"
       THEN Go(c, [call[c] EXCEPT !.at = "run"]) /\ UNCHANGED lock
       ELSE End(c)
    /\ UNCHANGED <<source, faults>>

(* persistWorkflowFailure: the copy is written as it is, with the failure. *)
Failing(c) == Saving(c, [Copy(c) EXCEPT !.failed = TRUE], "end")

DependencyFails(c) ==
    /\ call[c].at \notin {"idle", "save"}
    /\ call[c].action # "decide" /\ Copy(c).status # "decision-required"
    /\ Failing(c)
    /\ UNCHANGED <<source, journal, lock, faults>>

CallStops(c) == /\ ~Running(c, "idle") /\ faults.stops < MaxStops
                /\ faults' = [faults EXCEPT !.stops = @ + 1] /\ End(c)
                /\ UNCHANGED <<source, journal>>

LockIsLost == /\ lock # None /\ ~faults.lost
              /\ faults' = [faults EXCEPT !.lost = TRUE] /\ lock' = None
              /\ UNCHANGED <<source, journal, call>>

-----------------------------------------------------------------------------
(* The repository, outside the service.                                    *)
MainMoves == /\ ~source.moved
             /\ source' = [source EXCEPT !.moved = TRUE]
             /\ UNCHANGED <<journal, lock, call, faults>>

(* A push changes the head under an open review.                           *)
BranchChanges == /\ source.branch = "prepared" /\ source.review # "merged"
                 /\ source' = [source EXCEPT !.branch = "changed"]
                 /\ UNCHANGED <<journal, lock, call, faults>>

(* proven: a person approved this head and merged it, and its checks pass. *)
(* Closing is final here: that a person reopens a pull request that was    *)
(* closed is not modelled.                                                 *)
ReviewEnds ==
    /\ source.review = "open"
    /\ \/ \E proven \in BOOLEAN :
             source' = [source EXCEPT !.review = "merged", !.proven = proven]
       \/ source' = [source EXCEPT !.review = "closed"]
    /\ UNCHANGED <<journal, lock, call, faults>>

-----------------------------------------------------------------------------
HeadIsPrepared == source.branch = "prepared"

(* Mutant: a merge is taken without the proof of its review.               *)
MergedIsAsPrepared == source.review = "merged" /\ HeadIsPrepared

MergedIsProven == source.review = "merged" /\ HeadIsPrepared /\ source.proven

(* The review under the branch of this request, whatever the record says.  *)
Found == source.review # None

(* The owner's command runs in a checkout of the bound revision, which     *)
(* must still be the main one; its result is written down at once.         *)
PrepareSource(c) ==
    /\ Going(c) /\ ~Copy(c).prepared /\ ~source.moved
    /\ Step(c, "preparing", [Copy(c) EXCEPT !.prepared = TRUE], "run")

Prepared(c) == /\ Running(c, "run") /\ Going(c)
               /\ Copy(c).status = "preparing" /\ Copy(c).prepared

(* prepareReview: an existing review of the prepared head is taken;        *)
(* otherwise the branch is made, from a main that has not moved.  The lock *)
(* is looked at before the provider's calls, and may be lost among them.   *)
TakeReview(c) ==
    /\ Prepared(c) /\ Found /\ HeadIsPrepared
    /\ Saving(c, [Moved(Copy(c), "review-required") EXCEPT !.review = TRUE], "end")
    /\ UNCHANGED <<source, journal, lock, faults>>

MakeBranch(c) ==
    /\ Prepared(c) /\ ~Found
    /\ \/ /\ source.branch = None /\ ~source.moved
          /\ source' = [source EXCEPT !.branch = "prepared"]
       \/ source.branch = "prepared" /\ UNCHANGED source
    /\ Go(c, [call[c] EXCEPT !.at = "publish"])
    /\ UNCHANGED <<journal, lock, faults>>

(* The provider admits one open pull request of a branch.  The answer of   *)
(* the request may be lost.                                                *)
OpenReview(c) ==
    /\ Running(c, "publish") /\ source.review \in {None, "closed"}
    /\ source' = [source EXCEPT !.review = "open"]
    /\ \/ Saving(c, [Moved(Copy(c), "review-required") EXCEPT !.review = TRUE], "end")
       \/ Failing(c)
    /\ UNCHANGED <<journal, lock, faults>>

Publishing(c) == TakeReview(c) \/ MakeBranch(c) \/ OpenReview(c)

(* Mutant: a cancel that knows of no review looks for none.                *)
KnownReview(c) == Copy(c).review

ReviewToCancel(c) == Copy(c).review \/ Found

(* A cancel is written down before anything is done for it.                *)
Cancelling(c, keeping) ==
    /\ call[c].action = "cancel"
    /\ Copy(c).status \notin {"cancelling"} \cup keeping
    /\ Step(c, Copy(c).status, Moved(Copy(c), "cancelling"), "run")

(* Without a review there is nothing to close.                             *)
CancelUnpublished(c, next) ==
    /\ ~ReviewToCancel(c)
    /\ Step(c, "cancelling", Moved(Copy(c), next), "end")

BeginClose(c) ==
    /\ Running(c, "run") /\ Copy(c).status = "cancelling"
    /\ ReviewToCancel(c) /\ Copy(c).prepared /\ HeadIsPrepared
    /\ source.review # "merged"
    /\ Go(c, [call[c] EXCEPT !.at = "close"])
    /\ UNCHANGED <<source, journal, lock, faults>>

(* A merged review cannot be closed: the provider refuses.                 *)
CloseReview(c) ==
    /\ Running(c, "close") /\ source.review # "merged"
    /\ source' = [source EXCEPT !.review = "closed"]
    /\ Go(c, [call[c] EXCEPT !.at = "observe-closed"])
    /\ UNCHANGED <<journal, lock, faults>>

ConfirmClosed(c, next) ==
    /\ Running(c, "observe-closed") /\ source.review = "closed" /\ HeadIsPrepared
    /\ Saving(c, Moved(Copy(c), next), "end")
    /\ UNCHANGED <<source, journal, lock, faults>>

Closing(c, next) == \/ CancelUnpublished(c, next) \/ BeginClose(c)
                    \/ CloseReview(c) \/ ConfirmClosed(c, next)

(* A merge is found by an observation, by a cancel, or after its close.    *)
FindsMerge(c) == \/ Running(c, "run") /\ Copy(c).status = "review-required" /\ Going(c)
                 \/ Running(c, "run") /\ Copy(c).status = "cancelling"
                 \/ Running(c, "observe-closed")

FinishMerged(c, next) ==
    /\ FindsMerge(c) /\ Copy(c).prepared /\ MergedIsProven
    /\ Saving(c, [Moved(Copy(c), next) EXCEPT !.review = TRUE], "end")
    /\ UNCHANGED <<source, journal, lock, faults>>

ObserveClosed(c, next) ==
    /\ Going(c) /\ source.review = "closed" /\ HeadIsPrepared
    /\ Step(c, "review-required", Moved(Copy(c), next), "end")

(* An observation of a review that is still open clears a failure.         *)
ObserveOpen(c, clears) ==
    /\ Running(c, "run") /\ Going(c) /\ Copy(c).status = "review-required"
    /\ source.review = "open" /\ HeadIsPrepared
    /\ IF clears /\ Copy(c).failed
       THEN Saving(c, Moved(Copy(c), "review-required"), "end") /\ UNCHANGED lock
       ELSE End(c)
    /\ UNCHANGED <<source, journal, faults>>

Outside == MainMoves \/ BranchChanges \/ ReviewEnds \/ LockIsLost

Interrupted(c) == DependencyFails(c) \/ CallStops(c)

-----------------------------------------------------------------------------
(* A request that succeeded was merged as it was prepared, and its merge   *)
(* was approved and checked at that head.                                  *)
SucceededIsReviewed ==
    journal.status = "succeeded" =>
        source.review = "merged" /\ source.branch = "prepared" /\ source.proven

(* A request is not cancelled over a change that was merged meanwhile,     *)
(* also when its review was opened by a call that stopped before it could  *)
(* write it down; unless a call went on after it had lost the lock.        *)
CancelStep ==
    /\ journal'.status # journal.status /\ journal'.status \in {"cancelled", "denied"}
    /\ ~faults.lost
    => source.review # "merged"
=============================================================================

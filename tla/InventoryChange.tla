-------------------------- MODULE InventoryChange --------------------------
(***************************************************************************)
(* A change of the Workspace Inventory: the promotion of an intake entry,  *)
(* or a lifecycle action on an active record.  Both are evaluated,         *)
(* prepared, reviewed and merged; a lifecycle request also ends when the   *)
(* authority it was made for has moved.                                    *)
(***************************************************************************)
EXTENDS OwnerReview

Terminal == {"succeeded", "cancelled", "rejected", "blocked", "stale"}

Promotes(c) == Copy(c).choice = "promotion"

(* What a readiness may say that is not "ready".                           *)
Outcomes(c) == IF Promotes(c) THEN {"blocked", "stale"} ELSE {"blocked"}

SubmitPromotion(c) == journal = NoRecord /\ Accept(c, "promotion")
SubmitLifecycle(c) == journal = NoRecord /\ Accept(c, "lifecycle")

Advance(c) == /\ journal.status \notin Terminal \cup {None}
              /\ \E action \in {"continue", "cancel"} : Begin(c, action)

(* The readiness outcome is the status that the request ends with.         *)
Evaluate(c) ==
    /\ Going(c)
    /\ \/ Step(c, "accepted", Moved(Copy(c), "evaluating"), "run")
       \/ Step(c, "evaluating", Moved(Copy(c), "preparing"), "run")
       \/ \E outcome \in Outcomes(c) : Step(c, "evaluating", Moved(Copy(c), outcome), "end")

PreparePromotion(c) == Promotes(c) /\ PrepareSource(c)
PrepareLifecycle(c) == ~Promotes(c) /\ PrepareSource(c)

(* authority_stale: found before the source is prepared, or before the     *)
(* branch is made.                                                         *)
Stale(c) ==
    /\ Going(c) /\ ~Promotes(c)
    /\ source.moved
    /\ Copy(c).prepared => source.branch = None /\ ~Found
    /\ Step(c, "preparing", Moved(Copy(c), "stale"), "end")

Observe(c) == ObserveClosed(c, "rejected") \/ ObserveOpen(c, TRUE)

Cancel(c) == Cancelling(c, {}) \/ Closing(c, "cancelled")

FinishPromotion(c) == Promotes(c) /\ FinishMerged(c, "succeeded")
FinishLifecycle(c) == ~Promotes(c) /\ FinishMerged(c, "succeeded")

(* The steps of every owner workflow, in this one's store and repository.  *)
Publish(c) == Publishing(c)
Keep(c) == Save(c)

Next == \/ Outside
        \/ \E c \in Calls : \/ SubmitPromotion(c) \/ SubmitLifecycle(c) \/ Advance(c)
                            \/ Evaluate(c) \/ PreparePromotion(c) \/ PrepareLifecycle(c)
                            \/ Stale(c) \/ Observe(c) \/ Cancel(c)
                            \/ FinishPromotion(c) \/ FinishLifecycle(c)
                            \/ Publish(c) \/ Keep(c) \/ Interrupted(c)

Spec == Init /\ [][Next]_vars
=============================================================================

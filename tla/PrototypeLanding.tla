------------------------- MODULE PrototypeLanding --------------------------
(***************************************************************************)
(* A Prototype Landing: readiness is kept with the record and expires; the *)
(* finish wants the review that the record names.                          *)
(***************************************************************************)
EXTENDS OwnerReview

Terminal == {"succeeded", "cancelled", "rejected", "requires-action"}

Submit(c) == journal = NoRecord /\ Accept(c, None)

Advance(c) == /\ journal.status \notin Terminal \cup {None}
              /\ \E action \in {"continue", "cancel"} : Begin(c, action)

Evaluate(c) ==
    /\ Going(c)
    /\ \/ Step(c, "accepted", Moved(Copy(c), "evaluating"), "run")
       \/ Step(c, "evaluating", Moved(Copy(c), "preparing"), "run")
       \/ Step(c, "evaluating", Moved(Copy(c), "requires-action"), "end")

(* Looked at in every call that finds the request preparing, before the    *)
(* provider is asked what an earlier call left there.                      *)
ReadinessExpires(c) ==
    Going(c) /\ Step(c, "preparing", Moved(Copy(c), "requires-action"), "end")

Prepare(c) == PrepareSource(c)

Observe(c) == ObserveClosed(c, "rejected") \/ ObserveOpen(c, TRUE)

Cancel(c) == Cancelling(c, {}) \/ Closing(c, "cancelled")

(* finish: the merged review has the number that the record knows.         *)
Finish(c) == Copy(c).review /\ FinishMerged(c, "succeeded")

(* The steps of every owner workflow, in this one's store and repository.  *)
Publish(c) == Publishing(c)
Keep(c) == Save(c)

Next == \/ Outside
        \/ \E c \in Calls : \/ Submit(c) \/ Advance(c) \/ Evaluate(c)
                            \/ ReadinessExpires(c) \/ Prepare(c) \/ Observe(c)
                            \/ Cancel(c) \/ Finish(c) \/ Publish(c) \/ Keep(c)
                            \/ Interrupted(c)

Spec == Init /\ [][Next]_vars

(* Calls go on, and the provider answers again and again.                  *)
Fairness == \A c \in Calls : /\ WF_vars(Keep(c)) /\ WF_vars(Advance(c))
                             /\ WF_vars(DependencyFails(c))
                             /\ SF_vars(Finish(c)) /\ SF_vars(Cancel(c))

FairSpec == Spec /\ Fairness
=============================================================================

-------------------------- MODULE WorkspaceIntake --------------------------
(***************************************************************************)
(* A Workspace Intake request: evaluated, prepared in the governance       *)
(* repository, reviewed and merged there.                                  *)
(***************************************************************************)
EXTENDS OwnerReview

Terminal == {"succeeded", "cancelled", "rejected", "requires-action"}

Submit(c) == journal = NoRecord /\ Accept(c, None)

Advance(c) == /\ journal.status \notin Terminal \cup {None}
              /\ \E action \in {"continue", "cancel"} : Begin(c, action)

Evaluate(c) ==
    /\ Going(c)
    /\ \/ Step(c, "accepted", Moved(Copy(c), "evaluating"), "run")
       \/ Step(c, "evaluating", Moved(Copy(c), "preparing"), "run")
       \/ \E outcome \in {"rejected", "requires-action"} :
             Step(c, "evaluating", Moved(Copy(c), outcome), "end")

Prepare(c) == PrepareSource(c)

Observe(c) == ObserveClosed(c, "rejected") \/ ObserveOpen(c, TRUE)

Cancel(c) == Cancelling(c, {}) \/ Closing(c, "cancelled")

Finish(c) == FinishMerged(c, "succeeded")

(* The steps of every owner workflow, in this one's store and repository.  *)
Publish(c) == Publishing(c)
Keep(c) == Save(c)

Next == \/ Outside
        \/ \E c \in Calls : \/ Submit(c) \/ Advance(c) \/ Evaluate(c) \/ Prepare(c)
                            \/ Observe(c) \/ Cancel(c) \/ Finish(c) \/ Publish(c) \/ Keep(c)
                            \/ Interrupted(c)

Spec == Init /\ [][Next]_vars
=============================================================================

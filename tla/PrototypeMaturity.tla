------------------------- MODULE PrototypeMaturity -------------------------
(***************************************************************************)
(* A Prototype Maturity request: the operator decides on ready evidence;   *)
(* only a promotion is published, the other decisions end with the source  *)
(* unchanged.                                                              *)
(***************************************************************************)
EXTENDS OwnerReview

Decisions == {"promote", "block", "route-closeout"}

Terminal == {"succeeded", "cancelled", "rejected", "requires-action",
             "blocked", "routed-closeout"}

Submit(c) == journal = NoRecord /\ Accept(c, None)

(* A call that finds a decision wanted returns at once: left out.          *)
Advance(c) ==
    /\ journal.status \notin Terminal \cup {None}
    /\ \E action \in {"continue", "cancel"} :
          /\ action = "continue" => journal.status # "decision-required"
          /\ Begin(c, action)

Evaluate(c) ==
    /\ Going(c)
    /\ \/ Step(c, "accepted", Moved(Copy(c), "evaluating"), "run")
       \/ Step(c, "evaluating", Moved(Copy(c), "decision-required"), "end")
       \/ Step(c, "evaluating", Moved(Copy(c), "requires-action"), "end")

(* A decision is bound once; ready evidence that has expired takes none.   *)
Decide(c) ==
    \/ journal.status = "decision-required" /\ Begin(c, "decide")
    \/ /\ call[c].action = "decide" /\ Copy(c).choice = None
       /\ \/ \E decision \in Decisions :
                Step(c, "decision-required",
                     [Moved(Copy(c), "preparing") EXCEPT !.choice = decision], "end")
          \/ Step(c, "decision-required", Moved(Copy(c), "requires-action"), "end")

ReadinessExpires(c) ==
    Going(c) /\ Step(c, "preparing", Moved(Copy(c), "requires-action"), "end")

Prepare(c) == PrepareSource(c)

FinishUnchanged(c) ==
    /\ Going(c) /\ Copy(c).prepared /\ Copy(c).choice # "promote"
    /\ Step(c, "preparing",
            Moved(Copy(c), IF Copy(c).choice = "block" THEN "blocked" ELSE "routed-closeout"),
            "end")

Publish(c) == Copy(c).choice = "promote" /\ Publishing(c)

Observe(c) == ObserveClosed(c, "rejected") \/ ObserveOpen(c, TRUE)

Cancel(c) == Cancelling(c, {}) \/ Closing(c, "cancelled")

Finish(c) == FinishMerged(c, "succeeded")

Keep(c) == Save(c)

Next == \/ Outside
        \/ \E c \in Calls :
              \/ Submit(c) \/ Advance(c) \/ Evaluate(c) \/ Decide(c)
              \/ ReadinessExpires(c) \/ Prepare(c) \/ FinishUnchanged(c) \/ Publish(c)
              \/ Observe(c) \/ Cancel(c) \/ Finish(c)
              \/ Keep(c) \/ Interrupted(c)

Spec == Init /\ [][Next]_vars
=============================================================================

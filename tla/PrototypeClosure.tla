------------------------- MODULE PrototypeClosure --------------------------
(***************************************************************************)
(* A Prototype Closure: decided on ready evidence, published, and after    *)
(* the merge read back; a graduation also waits for the disposition of its *)
(* runtime.  After the merge there is nothing to cancel.                   *)
(***************************************************************************)
EXTENDS OwnerReview

Actions == {"graduate-source", "retire-incubation"}

Merged == {"pending-readback", "pending-runtime-disposition"}

Terminal == {"succeeded", "denied", "failed"}

Submit(c) == journal = NoRecord /\ \E action \in Actions : Accept(c, action)

(* A call that would only return the record is left out.                   *)
Advance(c) ==
    /\ journal.status \notin Terminal \cup {None}
    /\ \/ journal.status # "decision-required" /\ Begin(c, "continue")
       \/ journal.status \notin Merged /\ Begin(c, "cancel")

Evaluate(c) ==
    /\ Going(c)
    /\ \/ Step(c, "accepted", Moved(Copy(c), "evaluating"), "run")
       \/ Step(c, "evaluating", Moved(Copy(c), "decision-required"), "end")
       \/ Step(c, "evaluating", Moved(Copy(c), "denied"), "end")

(* denied: by the operator, or because the evidence has expired.           *)
Decide(c) ==
    \/ journal.status = "decision-required" /\ Begin(c, "decide")
    \/ /\ call[c].action = "decide"
       /\ \E next \in {"reconciling", "denied"} :
             Step(c, "decision-required", Moved(Copy(c), next), "end")

Reconcile(c) == Going(c) /\ Step(c, "reconciling", Moved(Copy(c), "preparing"), "run")

Prepare(c) == PrepareSource(c)

(* Only an open review will do: one that was closed or merged before the   *)
(* record knew of it fails every further publication, and is left to a     *)
(* cancel.                                                                 *)
Publish(c) == \/ source.review = "open" /\ TakeReview(c)
              \/ MakeBranch(c) \/ OpenReview(c)

Observe(c) == ObserveClosed(c, "failed") \/ ObserveOpen(c, FALSE)

(* A merge that an observation or a cancel finds waits for its readback.   *)
FindMerge(c) ==
    /\ FindsMerge(c) /\ Copy(c).prepared /\ MergedIsAsPrepared
    /\ Saving(c, [Moved(Copy(c), "pending-readback") EXCEPT !.review = TRUE], "end")
    /\ UNCHANGED <<source, journal, lock, faults>>

Readback(c) ==
    /\ Going(c) /\ MergedIsProven
    /\ Step(c, "pending-readback",
            Moved(Copy(c), IF Copy(c).choice = "graduate-source"
                           THEN "pending-runtime-disposition" ELSE "succeeded"), "end")

AcceptDisposition(c) ==
    Going(c) /\ Step(c, "pending-runtime-disposition", Moved(Copy(c), "succeeded"), "end")

Cancel(c) == Cancelling(c, Merged) \/ Closing(c, "denied")

Keep(c) == Save(c)

Next == \/ Outside
        \/ \E c \in Calls :
              \/ Submit(c) \/ Advance(c) \/ Evaluate(c) \/ Decide(c) \/ Reconcile(c)
              \/ Prepare(c) \/ Publish(c) \/ Observe(c) \/ FindMerge(c) \/ Readback(c)
              \/ AcceptDisposition(c) \/ Cancel(c)
              \/ Keep(c) \/ Interrupted(c)

Spec == Init /\ [][Next]_vars
=============================================================================

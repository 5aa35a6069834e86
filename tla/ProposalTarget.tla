-------------------------- MODULE ProposalTarget ---------------------------
(***************************************************************************)
(* A Proposal applied to a Prototype target: published in the owner's      *)
(* repository, and after the merge acknowledged to the Proposal.  A        *)
(* cancelled application may be started again under the same identity for  *)
(* a newer authority, but only if nothing was prepared.                    *)
(***************************************************************************)
EXTENDS OwnerReview

Terminal == {"succeeded", "cancelled", "rejected"}

Restartable == journal.status = "cancelled" /\ ~journal.prepared /\ ~journal.review

Submit(c) == (journal = NoRecord \/ Restartable) /\ Accept(c, None)

Advance(c) == /\ journal.status \notin Terminal \cup {None}
              /\ \E action \in {"continue", "cancel"} : Begin(c, action)

(* The handoff and its repository are read again first: a failure there is *)
(* DependencyFails.                                                        *)
Start(c) == Going(c) /\ Step(c, "accepted", Moved(Copy(c), "preparing"), "run")

Prepare(c) == PrepareSource(c)

Observe(c) == ObserveClosed(c, "rejected") \/ ObserveOpen(c, TRUE)

Cancel(c) == Cancelling(c, {}) \/ Closing(c, "cancelled")

(* finish: the Proposal is told before the record says so; it takes the    *)
(* same acknowledgement again.                                             *)
Finish(c) ==
    \/ /\ FindsMerge(c) /\ Copy(c).prepared /\ Copy(c).review /\ MergedIsProven
       /\ source' = [source EXCEPT !.acknowledged = TRUE]
       /\ Go(c, [call[c] EXCEPT !.at = "acknowledged"])
       /\ UNCHANGED <<journal, lock, faults>>
    \/ /\ Running(c, "acknowledged")
       /\ Saving(c, Moved(Copy(c), "succeeded"), "end")
       /\ UNCHANGED <<source, journal, lock, faults>>

(* The steps of every owner workflow, in this one's store and repository.  *)
Publish(c) == Publishing(c)
Keep(c) == Save(c)

Next == \/ Outside
        \/ \E c \in Calls : \/ Submit(c) \/ Advance(c) \/ Start(c) \/ Prepare(c)
                            \/ Observe(c) \/ Cancel(c) \/ Finish(c) \/ Publish(c) \/ Keep(c)
                            \/ Interrupted(c)

Spec == Init /\ [][Next]_vars
=============================================================================

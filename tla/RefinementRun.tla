--------------------------- MODULE RefinementRun ---------------------------
(***************************************************************************)
(* The apply of an accepted Refinement draft: the service compares the     *)
(* draft with the packet it projects from the canonical Delivery tree and  *)
(* starts one durable run; the run executes the operations of the plan in  *)
(* order as activities, reads the tree back and appends a receipt.         *)
(*                                                                         *)
(* An activity attempt that timed out goes on in its worker: its writes    *)
(* may arrive during a later attempt, a later operation or after the run.  *)
(* The tree is read page by page while others write; every field of it is  *)
(* a required one.                                                         *)
(***************************************************************************)
EXTENDS Naturals, FiniteSets

CONSTANTS Drafts,       \* accepted drafts; a draft sets its own values
          Items,        \* work items of the package
          MaxAttempts,  \* maximumAttempts of the activities
          MaxEdits,     \* bound on the edits by others
          MaxStrays     \* bound on the timed-out attempts that go on

Governance == 1
PlanApply == 2
BulkUpdate == 3
ReadState == 4
PersistReceipt == 5

VARIABLES canon,     \* per cell, an operation and its target: what it holds
          tree,      \* the work items that are there
          edits,
          draft,     \* per draft: the packet it was prepared from, its request
          run,       \* per draft: its durable run
          attempts,  \* activity attempts in a worker
          receipts,  \* receipt events of the source record
          held       \* per draft: cells that had its value, its operations done

vars == <<canon, tree, edits, draft, run, attempts, receipts, held>>

None == "none"
Before == "before"
Other == "other"

Cells == {<<Governance, None>>} \cup ({PlanApply, BulkUpdate} \X Items)

(* A read of the tree: the places it has found, work items and the root,   *)
(* and what their cells held.  It asks for page after page until it has as *)
(* many work items as the list then has; the order of the list is left out.*)
Places == Items \cup {None}
NoRead == [canon |-> [c \in Cells |-> None], places |-> {}]
WithPage(seen, page) ==
    [canon |-> [c \in Cells |-> IF c[2] \in page THEN canon[c] ELSE seen.canon[c]],
     places |-> seen.places \cup page]
Reads(seen) ==
    {WithPage(seen, page) : page \in SUBSET ((tree \cup {None}) \ seen.places)}
Complete(seen) ==
    /\ None \in seen.places
    /\ Cardinality(seen.places \ {None}) >= Cardinality(tree)

(* A packet is such a read; it names the targets of the draft.  An         *)
(* operation without a target is skipped.                                  *)
Targets(d) == {c \in Cells : c[2] \in draft[d].packet.places}
OperationCells(d, operation) == {c \in Targets(d) : c[1] = operation}

NoRun == [state |-> None, operation |-> Governance, attempt |-> 1,
          begun |-> FALSE, written |-> {}, reused |-> {}]

Init == /\ canon = [c \in Cells |-> Before]
        /\ tree = Items /\ edits = 0
        /\ draft = [d \in Drafts |-> [packet |-> NoRead, request |-> None, seen |-> NoRead]]
        /\ run = [d \in Drafts |-> NoRun]
        /\ attempts = {} /\ receipts = {} /\ held = [d \in Drafts |-> {}]

-----------------------------------------------------------------------------
(* Other clients of the Delivery tree.                                     *)
Edit(c) == /\ edits < MaxEdits /\ c[2] \in tree \cup {None}
           /\ edits' = edits + 1
           /\ canon' = [canon EXCEPT ![c] = Other]
           /\ UNCHANGED <<tree, draft, run, attempts, receipts>>

Remove(i) == /\ edits < MaxEdits /\ i \in tree
             /\ edits' = edits + 1
             /\ tree' = tree \ {i}
             /\ UNCHANGED <<canon, draft, run, attempts, receipts>>

(* The service reads a page of the tree for a request.  Once the run is    *)
(* there a request only decides its own answer, and its read is one step.  *)
ReadForRequest(d) ==
    /\ draft[d].request \in {None, "prepared"}
    /\ \E seen \in Reads(draft[d].seen) :
          /\ seen # draft[d].seen /\ ~Complete(seen)
          /\ draft' = [draft EXCEPT ![d].seen = seen]
    /\ UNCHANGED <<canon, tree, edits, run, attempts, receipts>>

(* The operator gets the packet and accepts values for its targets.        *)
Prepare(d) ==
    /\ draft[d].request = None
    /\ \E seen \in Reads(draft[d].seen) :
          /\ Complete(seen)
          /\ draft' = [draft EXCEPT ![d] =
                          [packet |-> seen, request |-> "prepared", seen |-> NoRead]]
    /\ UNCHANGED <<canon, tree, edits, run, attempts, receipts>>

(* apply: the packet is projected again and compared with the draft, before*)
(* the run is looked for. A request whose answer was lost is sent again.   *)
Check(d) ==
    /\ draft[d].request \in {"prepared", "lost"}
    /\ \E seen \in Reads(draft[d].seen) :
          /\ Complete(seen)
          /\ draft' = [draft EXCEPT ![d] =
                          [@ EXCEPT !.seen = NoRead,
                                    !.request = IF seen = draft[d].packet THEN "checked"
                                                                          ELSE "refused"]]
    /\ UNCHANGED <<canon, tree, edits, run, attempts, receipts>>

(* The start is refused as a duplicate when the run exists, and the run is *)
(* answered; the answer may be lost.                                       *)
StartRun(d) ==
    /\ draft[d].request = "checked"
    /\ run' = IF run[d].state # None THEN run
              ELSE [run EXCEPT ![d].state = "running"]
    /\ \E answer \in {"answered", "lost"} : draft' = [draft EXCEPT ![d].request = answer]
    /\ UNCHANGED <<canon, tree, edits, attempts, receipts>>

-----------------------------------------------------------------------------
Running(d) == run[d].state = "running"
Current(a) == /\ Running(a.draft)
              /\ run[a.draft].operation = a.operation
              /\ run[a.draft].attempt = a.attempt

(* The workflow goes past an operation without targets.                    *)
Skip(d) == /\ Running(d) /\ run[d].operation \in {PlanApply, BulkUpdate}
           /\ OperationCells(d, run[d].operation) = {}
           /\ run' = [run EXCEPT ![d].operation = @ + 1]
           /\ UNCHANGED <<canon, tree, edits, draft, attempts, receipts>>

(* Mutant: the attempts are not counted.                                   *)
AttemptFailedUncounted(d) == [run EXCEPT ![d] = [@ EXCEPT !.begun = FALSE]]

(* The next attempt, or, after the last one, the failure of the run.       *)
AttemptFailed(d) ==
    LET my == run[d] IN
    [run EXCEPT ![d] = IF my.attempt < MaxAttempts
                       THEN [my EXCEPT !.attempt = my.attempt + 1, !.begun = FALSE]
                       ELSE [my EXCEPT !.state = "failed"]]

(* A worker takes the task, and begins to read the tree.                   *)
Begin(d) ==
    LET operation == run[d].operation IN
    /\ Running(d) /\ ~run[d].begun
    /\ operation = ReadState \/ OperationCells(d, operation) # {}
    /\ run' = [run EXCEPT ![d].begun = TRUE]
    /\ attempts' = attempts \cup
          {[draft |-> d, operation |-> operation, attempt |-> run[d].attempt,
            reads |-> TRUE, seen |-> NoRead, todo |-> {}, written |-> {}, reused |-> {}]}
    /\ UNCHANGED <<canon, tree, edits, draft, receipts>>

ReadPage(a) ==
    /\ a.reads
    /\ \E seen \in Reads(a.seen) :
          /\ seen # a.seen /\ ~Complete(seen)
          /\ attempts' = (attempts \ {a}) \cup {[a EXCEPT !.seen = seen]}
    /\ UNCHANGED <<canon, tree, edits, draft, run, receipts>>

(* An attempt is over without a result.                                    *)
Ends(a) == /\ attempts' = attempts \ {a}
           /\ run' = IF Current(a) THEN AttemptFailed(a.draft) ELSE run

(* After the last page: cells that have the accepted value are left alone, *)
(* plan_apply leaves all or none alone, and refuses another hierarchy than *)
(* the reviewed one.                                                       *)
BeginWrites(a) ==
    /\ a.reads /\ a.operation # ReadState
    /\ \E seen \in Reads(a.seen) :
          LET cells == OperationCells(a.draft, a.operation)
              done == {c \in cells : seen.canon[c] = a.draft}
              todo == IF a.operation = PlanApply /\ done # cells THEN cells
                                                                ELSE cells \ done
              places == draft[a.draft].packet.places IN
          /\ Complete(seen)
          /\ IF a.operation = PlanApply /\ todo # {} /\ seen.places # places
             THEN Ends(a)
             ELSE /\ attempts' = (attempts \ {a}) \cup
                        {[a EXCEPT !.reads = FALSE,
                                   !.seen = [NoRead EXCEPT !.places = seen.places],
                                   !.todo = todo, !.reused = cells \ todo]}
                  /\ UNCHANGED run
    /\ UNCHANGED <<canon, tree, edits, draft, receipts>>

(* One update of the backend, of an item that was found.                   *)
Write(a) ==
    \E c \in a.todo :
       /\ c[2] \in a.seen.places /\ c[2] \in tree \cup {None}
       /\ canon' = [canon EXCEPT ![c] = a.draft]
       /\ attempts' = (attempts \ {a}) \cup
             {[a EXCEPT !.todo = @ \ {c}, !.written = @ \cup {c}]}
       /\ UNCHANGED <<tree, edits, draft, run, receipts>>

(* A read or an update is refused, an item was not found, or the worker is *)
(* lost with its attempt.                                                  *)
Fail(a) == Ends(a) /\ UNCHANGED <<canon, tree, edits, draft, receipts>>

(* startToCloseTimeout: the attempt goes on in its worker, which nobody    *)
(* hears of when it only reads.                                            *)
Timeout(a) ==
    /\ Current(a)
    /\ run' = AttemptFailed(a.draft)
    /\ attempts' = IF /\ a.operation # ReadState
                      /\ Cardinality({b \in attempts : ~Current(b)}) < MaxStrays
                   THEN attempts ELSE attempts \ {a}
    /\ UNCHANGED <<canon, tree, edits, draft, receipts>>

(* The result of the last attempt moves the workflow; another is dropped.  *)
Answer(a) ==
    LET my == run[a.draft] IN
    /\ ~a.reads /\ a.todo = {}
    /\ attempts' = attempts \ {a}
    /\ run' = IF ~Current(a) THEN run
              ELSE [run EXCEPT ![a.draft] =
                      [my EXCEPT !.written = my.written \cup a.written,
                                 !.reused = my.reused \cup a.reused,
                                 !.operation = my.operation + 1, !.attempt = 1,
                                 !.begun = FALSE]]
    /\ UNCHANGED <<canon, tree, edits, draft, receipts>>

-----------------------------------------------------------------------------
(* Mutant: the references the operations returned are taken as evidence.   *)
ReadbackTrustingReferences(d, seen) == TRUE

(* readRefinementCanonicalState compares every accepted value with what    *)
(* its own read has found.                                                 *)
Readback(d, seen) ==
    \A c \in Targets(d) : c[2] \in seen.places /\ seen.canon[c] = d

ReadCanonicalState(a) ==
    /\ a.reads /\ a.operation = ReadState
    /\ \E seen \in Reads(a.seen) :
          /\ Complete(seen)
          /\ IF Current(a) /\ Readback(a.draft, seen)
             THEN /\ attempts' = attempts \ {a}
                  /\ run' = [run EXCEPT ![a.draft] =
                               [@ EXCEPT !.operation = PersistReceipt, !.attempt = 1,
                                         !.begun = FALSE]]
             ELSE Ends(a)
    /\ UNCHANGED <<canon, tree, edits, draft, receipts>>

Event(d) == [draft |-> d, written |-> run[d].written, reused |-> run[d].reused]

(* persistReceipt: an event of the run is looked for, then one is appended.*)
(* The answer of the append may be lost.                                   *)
Persist(d) ==
    /\ Running(d) /\ run[d].operation = PersistReceipt
    /\ IF \E e \in receipts : e.draft = d
       THEN /\ run' = [run EXCEPT ![d].state =
                         IF Event(d) \in receipts THEN "completed" ELSE "failed"]
            /\ UNCHANGED receipts
       ELSE /\ receipts' = receipts \cup {Event(d)}
            /\ \/ run' = [run EXCEPT ![d].state = "completed"]
               \/ run' = AttemptFailed(d)
    /\ UNCHANGED <<canon, tree, edits, draft, attempts>>

PersistFails(d) ==
    /\ Running(d) /\ run[d].operation = PersistReceipt
    /\ run' = AttemptFailed(d)
    /\ UNCHANGED <<canon, tree, edits, draft, attempts, receipts>>

Workflow(d) == Skip(d) \/ Begin(d) \/ Persist(d)

Noted ==
    held' = [d \in Drafts |-> held[d] \cup
                {c \in Cells : /\ run'[d].operation >= ReadState
                               /\ c[2] \in tree' \cup {None} /\ canon'[c] = d}]

Next == /\ \/ \E c \in Cells : Edit(c)
           \/ \E i \in Items : Remove(i)
           \/ \E d \in Drafts : \/ ReadForRequest(d) \/ Prepare(d) \/ Check(d)
                                \/ StartRun(d) \/ Workflow(d) \/ PersistFails(d)
           \/ \E a \in attempts : \/ ReadPage(a) \/ BeginWrites(a) \/ Write(a)
                                  \/ ReadCanonicalState(a)
                                  \/ Fail(a) \/ Timeout(a) \/ Answer(a)
        /\ Noted

(* Temporal schedules every task, and every attempt times out in the end.  *)
Proceeds(d) == Workflow(d) /\ Noted

AttemptEnds(d) ==
    (\E a \in attempts : a.draft = d /\ (Answer(a) \/ Timeout(a))) /\ Noted

Fairness == \A d \in Drafts : WF_vars(Proceeds(d)) /\ WF_vars(AttemptEnds(d))

Spec == Init /\ [][Next]_vars
FairSpec == Spec /\ Fairness
-----------------------------------------------------------------------------
(* docs/contracts/refinement-v1.md:106: a run that projects completed has  *)
(* its receipt, every target of the draft was written or found as accepted,*)
(* and each of them held its accepted value at some moment after the last  *)
(* operation was done, whatever other clients, other runs and attempts     *)
(* given up for lost wrote meanwhile.  It may be another moment for each:  *)
(* what a paged read finds need never have been there together.            *)
CompletionIsReadBack ==
    \A d \in Drafts : run[d].state = "completed" =>
        /\ Event(d) \in receipts
        /\ run[d].written \cup run[d].reused = Targets(d)
        /\ Targets(d) \subseteq held[d]

(* A started run ends, with a receipt or with its failure.                 *)
RunsEnd == \A d \in Drafts : Running(d) ~> ~Running(d)

=============================================================================

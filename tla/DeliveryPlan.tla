---------------------------- MODULE DeliveryPlan ----------------------------
(***************************************************************************)
(* The work packages below one Epic, and the calls that make and place     *)
(* them: the application of a plan, the creation of one item, and a        *)
(* planning repair.  A work package is made without its parent, then       *)
(* placed under it, then given the fields that its create form did not     *)
(* take; a plan looks at all of them once, when it begins.  Two levels     *)
(* stand for the tree: an objective and a feature under the Epic, a story  *)
(* under the feature.                                                      *)
(***************************************************************************)
EXTENDS Naturals, SequencesExt

CONSTANTS
    Calls,
    Plans,        \* the plans that may be applied: what each wishes for the
                  \* items it names, and what becomes of the ones it does not
    Trees,        \* what may be there at first
    Classified,   \* the names whose classification is set after creation
    MaxMoves,     \* bound on what operators change
    MaxFailures   \* bound on the calls that fail for the network or a stop

VARIABLES
    record,       \* the Epic's own fields, and the work packages in the
                  \* order of their making
    call,
    faults        \* history: failures, moves, and whether calls overlapped

planVars == <<record, call, faults>>

Names == {"objective", "feature", "story"}
Root == 0
Nowhere == 99

Closed == {"done", "retired"}
Open(item) == item.status \notin Closed

Nothing == [f \in {} |-> {}]
NoPlan == [wish |-> Nothing, missing |-> "none", epic |-> FALSE]
NoWish == [status |-> "none", pi |-> "none"]

Nobody == [at |-> "idle", op |-> "none", plan |-> NoPlan, seen |-> Nothing,
           todo |-> <<>>, id |-> Nowhere, name |-> "none", parent |-> Nowhere,
           wish |-> NoWish, lock |-> 0, fields |-> Nothing, again |-> FALSE]

Init ==
    /\ record \in [epic : {"none"}, items : Trees]
    /\ call = [c \in Calls |-> Nobody]
    /\ faults = [failed |-> 0, moved |-> 0, overlapped |-> FALSE]

Ids(items) == DOMAIN items
Present == record.items

Busy(c) == call[c].at \notin {"idle", "answered", "refused"}
OtherBusy(c) == \E d \in Calls \ {c} : Busy(d)

Noted(c) ==
    faults' = [faults EXCEPT !.overlapped = @ \/ OtherBusy(c)]

Ends(c, at) == call' = [call EXCEPT ![c] = [Nobody EXCEPT !.at = at]]
Refused(c) == Ends(c, "refused") /\ UNCHANGED <<record, faults>>

-----------------------------------------------------------------------------
(* Looking an item up: by parent, type and subject, the earliest first.    *)
Named(items, n, parent) ==
    {i \in Ids(items) : items[i].name = n /\ items[i].parent = parent}

(* Mutant: closed items are not looked at.                                 *)
NamedOpen(items, n, parent) == {i \in Named(items, n, parent) : Open(items[i])}

Matching(items, n, parent) == Named(items, n, parent)

Known(items, n, parent) ==
    IF Matching(items, n, parent) = {} THEN Nowhere
    ELSE Min(Matching(items, n, parent))

ParentOf(items, n) == IF n = "story" THEN Known(items, "feature", Root) ELSE Root

Place(items, n) ==
    IF ParentOf(items, n) = Nowhere THEN Nowhere
    ELSE Known(items, n, ParentOf(items, n))

Below(items, i) ==
    \/ items[i].parent = Root
    \/ items[i].parent \in Ids(items) /\ items[items[i].parent].parent = Root

Of(asked, held) == IF asked = "as is" THEN held ELSE asked

(* What an item will be when the plan was applied, as far as it is known.  *)
Fresh(n) == [name |-> n, parent |-> Nowhere, status |-> "new", pi |-> "backlog",
             whole |-> n \notin Classified, version |-> 0]

Wished(item, wish) == [item EXCEPT !.status = Of(wish.status, @), !.pi = Of(wish.pi, @)]

Planned(plan, items) ==
    [n \in DOMAIN plan.wish |->
        Wished(IF Place(items, n) = Nowhere THEN Fresh(n) ELSE items[Place(items, n)],
               plan.wish[n])]

-----------------------------------------------------------------------------
(* The checks of a plan, all on its first read.  A committed feature needs *)
(* an open leaf; committed scope needs an open objective.  With a park,    *)
(* nothing that the plan does not name is counted as retained.             *)
Committed(item) == Open(item) /\ item.pi = "planned"

HasLeaf(plan, items) ==
    \/ "story" \in DOMAIN plan.wish /\ plan.wish["story"].status \notin Closed
    \/ /\ plan.missing = "ignore" /\ Place(items, "feature") # Nowhere
       /\ \E i \in Named(items, "story", Place(items, "feature")) : Open(items[i])

LeafFront(plan, items) ==
    "feature" \in DOMAIN plan.wish /\ Committed(Planned(plan, items)["feature"])
        => HasLeaf(plan, items)

ScopeIsCommitted(plan, items) ==
    \/ \E n \in DOMAIN plan.wish : Committed(Planned(plan, items)[n])
    \/ plan.missing = "ignore"
       /\ \E i \in Ids(items) : Below(items, i) /\ Committed(items[i])

HasObjective(plan, items) ==
    \/ "objective" \in DOMAIN plan.wish /\ Committed(Planned(plan, items)["objective"])
    \/ plan.missing = "ignore"
       /\ \E i \in Ids(items) : /\ items[i].name = "objective"
                                /\ items[i].parent = Root /\ Open(items[i])

Elaborates(plan, items) ==
    /\ LeafFront(plan, items)
    /\ ScopeIsCommitted(plan, items) => HasObjective(plan, items)

(* An active item is committed to an increment.                            *)
ValidWish(wish) == wish.status = "ready" => wish.pi = "planned"

Admissible(plan) == \A n \in DOMAIN plan.wish : ValidWish(plan.wish[n])

(* Depth first: an item, its children, and then what is missing under it.  *)
Steps(plan) ==
    SelectSeq(<<[do |-> "epic", of |-> "none"], [do |-> "item", of |-> "objective"],
                [do |-> "item", of |-> "feature"], [do |-> "item", of |-> "story"],
                [do |-> "sweep", of |-> "feature"], [do |-> "sweep", of |-> "root"]>>,
              LAMBDA s : \/ s.do = "epic" /\ plan.epic
                         \/ s.do = "item" /\ s.of \in DOMAIN plan.wish
                         \/ /\ s.do = "sweep" /\ plan.missing # "ignore"
                            /\ s.of = "feature" => "story" \in DOMAIN plan.wish)

BeginPlan(c) ==
    \E plan \in Plans :
        /\ call[c].at = "idle" /\ Noted(c) /\ UNCHANGED record
        /\ IF Admissible(plan) /\ Elaborates(plan, Present)
           THEN call' = [call EXCEPT ![c].at = "next", ![c].op = "plan",
                            ![c].plan = plan, ![c].seen = Present,
                            ![c].todo = Steps(plan)]
           ELSE Ends(c, "refused")

Do(c, what) == call[c].at = "next" /\ call[c].todo # <<>> /\ Head(call[c].todo).do = what
Subject(c) == Head(call[c].todo).of

(* A step that is done; what it made or changed is known to the call.      *)
Goes(c, at) == call' = [call EXCEPT ![c].at = at]
Advances(c) == call' = [call EXCEPT ![c].at = "next", ![c].todo = Tail(@)]
Learns(c, id, item) ==
    call' = [call EXCEPT ![c] =
                [@ EXCEPT !.at = "next", !.seen = (id :> item) @@ @,
                          !.todo = IF @ = <<>> THEN @ ELSE Tail(@)]]

(* updateDeliveryInitiative, which reads and patches the Epic on its own.  *)
UpdateEpic(c) ==
    /\ Do(c, "epic") /\ record' = [record EXCEPT !.epic = c]
    /\ Advances(c) /\ Noted(c)

(* An item that the plan knows is patched where it differs from what was   *)
(* read when the plan began; the others are made.                          *)
Sends(c, id, read, item) ==
    call' = [call EXCEPT ![c] =
                [@ EXCEPT !.at = "patch", !.id = id, !.lock = read.version,
                          !.again = FALSE,
                          !.fields = [f \in {g \in {"status", "pi", "whole"} : item[g] # read[g]}
                                        |-> item[f]]]]

ApplyItem(c) ==
    LET n == Subject(c)
        seen == call[c].seen
        wish == call[c].plan.wish[n]
        id == Place(seen, n) IN
    /\ Do(c, "item")
    /\ IF id = Nowhere
       THEN call' = [call EXCEPT ![c] =
                        [@ EXCEPT !.at = "create", !.name = n, !.wish = wish,
                                  !.parent = ParentOf(seen, n)]]
       ELSE LET item == [Wished(seen[id], wish) EXCEPT !.whole = TRUE] IN
            IF item = seen[id] THEN Advances(c) ELSE Sends(c, id, seen[id], item)
    /\ UNCHANGED <<record, faults>>

-----------------------------------------------------------------------------
(* Making an item: by POST without a parent, then by PATCH under it, then  *)
(* with the fields that only an existing work package takes.  The POST is  *)
(* not repeated; what it made is found again by its parent only.           *)
Created(c) == Wished(Fresh(call[c].name), call[c].wish)

Create(c) ==
    /\ call[c].at = "create"
    /\ record' = [record EXCEPT !.items = Append(@, Created(c))]
    /\ call' = [call EXCEPT ![c].at = "place", ![c].id = Len(Present) + 1]
    /\ Noted(c)

Changed(id, fields) ==
    [Present EXCEPT ![id] = [(fields @@ @) EXCEPT !.version = @ + 1]]

Put(c) ==
    LET id == call[c].id
        items == Changed(id, [parent |-> call[c].parent]) IN
    /\ call[c].at = "place"
    /\ record' = [record EXCEPT !.items = items]
    /\ IF items[id].whole THEN Learns(c, id, items[id]) ELSE Goes(c, "classify")
    /\ Noted(c)

(* An active item is checked again when it has all its fields, and stays   *)
(* although the call fails.                                                *)
Classify(c) ==
    LET id == call[c].id
        items == Changed(id, [whole |-> TRUE]) IN
    /\ call[c].at = "classify"
    /\ record' = [record EXCEPT !.items = items]
    /\ \/ Learns(c, id, items[id])
       \/ items[id].status = "ready" /\ Ends(c, "refused")
    /\ Noted(c)

-----------------------------------------------------------------------------
(* patchWorkPackagePayload: a refused PATCH is sent once more, with the    *)
(* same fields and the version that is current.  What a park changed is    *)
(* not noted in the plan's own picture.                                    *)
Patch(c) ==
    LET id == call[c].id
        items == Changed(id, call[c].fields) IN
    /\ call[c].at = "patch" /\ Present[id].version = call[c].lock
    /\ record' = [record EXCEPT !.items = items]
    /\ IF Head(call[c].todo).do = "item"
       THEN \/ Learns(c, id, items[id])
            \/ items[id].name = "objective" /\ items[id].status = "ready" /\ Ends(c, "refused")
       ELSE Advances(c)
    /\ Noted(c)

Conflict(c) ==
    /\ call[c].at = "patch" /\ Present[call[c].id].version # call[c].lock
    /\ IF call[c].again THEN Ends(c, "refused")
       ELSE call' = [call EXCEPT ![c].lock = Present[call[c].id].version, ![c].again = TRUE]
    /\ UNCHANGED <<record, faults>>

(* The children of an item that the plan does not name, as far as the call *)
(* knows them, are parked one by one.                                      *)
Unnamed(c, parent) ==
    {i \in Ids(call[c].seen) :
        /\ call[c].seen[i].parent = parent
        /\ call[c].seen[i].name \notin DOMAIN call[c].plan.wish}

Sweep(c) ==
    LET parent == IF Subject(c) = "root" THEN Root ELSE Place(call[c].seen, Subject(c)) IN
    /\ Do(c, "sweep")
    /\ call' = [call EXCEPT ![c].todo =
                   SetToSeq({[do |-> "park", of |-> i] : i \in Unnamed(c, parent)}) \o Tail(@)]
    /\ UNCHANGED <<record, faults>>

ParkedBy(plan, item) ==
    IF plan.missing = "retire" THEN [item EXCEPT !.status = "retired", !.pi = "backlog"]
    ELSE [item EXCEPT !.status = "parked"]

(* manageDeliveryParking reads the item again, whatever its status is.     *)
ReadToPark(c) ==
    LET id == Subject(c)
        item == ParkedBy(call[c].plan, Present[id]) IN
    /\ Do(c, "park")
    /\ IF item = Present[id] THEN Advances(c) ELSE Sends(c, id, Present[id], item)
    /\ UNCHANGED <<record, faults>>

(* The last read of the Epic, and the answer.                              *)
Answers(c) ==
    /\ call[c].at = "next" /\ call[c].todo = <<>>
    /\ Ends(c, "answered") /\ UNCHANGED <<record, faults>>

-----------------------------------------------------------------------------
(* createDeliveryWorkItem: the list it looks for a sibling in has open     *)
(* work packages only.                                                     *)
(* Mutant: siblings are not looked for.                                    *)
NoSiblings(n, parent) == {}

Siblings(n, parent) == NamedOpen(Present, n, parent)

Asked == [status |-> "new", pi |-> "planned"]

BeginCreate(c) ==
    \E n \in Names :
        LET parent == ParentOf(Present, n) IN
        /\ call[c].at = "idle" /\ parent # Nowhere /\ Noted(c) /\ UNCHANGED record
        /\ IF Siblings(n, parent) = {}
           THEN call' = [call EXCEPT ![c] =
                            [@ EXCEPT !.at = "create", !.op = "create", !.name = n,
                                      !.wish = Asked, !.parent = parent]]
           ELSE Ends(c, "refused")

(* repairDeliveryPlan: each repair reads its target, checks it, and reads  *)
(* it again to change it; the first that fails ends the call.              *)
BeginRepair(c) ==
    \E repairs \in {<<i, j>> : i, j \in Ids(Present)},
       action \in {"retarget", "decommit"} :
        /\ call[c].at = "idle" /\ Noted(c) /\ UNCHANGED record
        /\ call' = [call EXCEPT ![c].at = "next", ![c].op = action,
                       ![c].todo = [k \in DOMAIN repairs |->
                                       [do |-> "repair", of |-> repairs[k]]]]

OpenChildren(i) == {j \in Ids(Present) : Present[j].parent = i /\ Open(Present[j])}

(* Mutant: an item may be taken back although scope is open under it.      *)
MayRepairParent(action, i) == Below(Present, i) /\ Open(Present[i])

MayRepair(action, i) ==
    /\ Below(Present, i) /\ Open(Present[i])
    /\ action = "decommit" => Present[i].name # "objective" /\ OpenChildren(i) = {}

CheckRepair(c) ==
    /\ Do(c, "repair")
    /\ IF MayRepair(call[c].op, Subject(c)) THEN Goes(c, "repair") ELSE Ends(c, "refused")
    /\ UNCHANGED <<record, faults>>

Repaired(action, item) ==
    IF action = "retarget" THEN [item EXCEPT !.pi = "planned"]
    ELSE [item EXCEPT !.status = "new", !.pi = "backlog"]

Repair(c) ==
    LET id == Subject(c)
        item == Repaired(call[c].op, Present[id]) IN
    /\ call[c].at = "repair"
    /\ Sends(c, id, Present[id], item)
    /\ UNCHANGED <<record, faults>>

(* A request fails for the network, or the process stops.                  *)
Fails(c) ==
    /\ Busy(c) /\ faults.failed < MaxFailures
    /\ Ends(c, "refused")
    /\ faults' = [faults EXCEPT !.failed = @ + 1]
    /\ UNCHANGED record

(* An operator completes an item, or opens it again.                       *)
OthersChange ==
    \E i \in Ids(Present), status \in {"done", "ready"} :
        /\ faults.moved < MaxMoves /\ Present[i].status # status
        /\ record' = [record EXCEPT !.items = Changed(i, [status |-> status])]
        /\ faults' = [faults EXCEPT !.moved = @ + 1,
                                    !.overlapped = @ \/ \E c \in Calls : Busy(c)]
        /\ UNCHANGED call

Next ==
    \/ \E c \in Calls :
          \/ BeginPlan(c) \/ UpdateEpic(c) \/ ApplyItem(c) \/ Sweep(c) \/ ReadToPark(c)
          \/ Create(c) \/ Put(c) \/ Classify(c) \/ Patch(c) \/ Conflict(c)
          \/ BeginCreate(c) \/ BeginRepair(c) \/ CheckRepair(c) \/ Repair(c)
          \/ Answers(c) \/ Fails(c)
    \/ OthersChange

Spec == Init /\ [][Next]_planVars

-----------------------------------------------------------------------------
(* What a plan asked for is there when it is answered, however many calls  *)
(* failed before it and whatever they left, unless others worked on the    *)
(* items meanwhile: every item once in its place with its values, the rest *)
(* under it parked, and, where nothing was parked, an open objective for   *)
(* the committed scope.                                                    *)
Holds(plan, items) ==
    /\ \A n \in DOMAIN plan.wish :
          /\ Place(items, n) # Nowhere
          /\ LET item == items[Place(items, n)] IN
             item.whole /\ Wished(item, plan.wish[n]) = item
    /\ plan.missing # "ignore" =>
          \A i \in Ids(items) :
             /\ items[i].parent = Root \/ /\ "story" \in DOMAIN plan.wish
                                          /\ items[i].parent = Place(items, "feature")
             /\ items[i].name \notin DOMAIN plan.wish
             => ParkedBy(plan, items[i]) = items[i]
    /\ plan.missing = "ignore" => Elaborates(plan, items)

AnswerStep ==
    \A c \in Calls :
        /\ call[c].op = "plan" /\ call[c].at = "next" /\ call'[c].at = "answered"
        /\ ~faults.overlapped
        => Holds(call[c].plan, record.items)

(* An item is placed beside another of its type and subject only when that *)
(* was closed and the item was asked for by itself, or when calls overlap. *)
PlaceStep ==
    \A i \in Ids(Present) :
        /\ Present[i].parent = Nowhere /\ record'.items[i].parent # Nowhere
        /\ ~faults.overlapped
        => \A j \in Named(Present, Present[i].name, record'.items[i].parent) :
              /\ ~Open(Present[j])
              /\ \A c \in Calls : call[c].at = "place" => call[c].op = "create"

(* A feature is not taken back from its increment over committed scope     *)
(* below it, unless calls overlap.                                         *)
DecommitStep ==
    \A c \in Calls :
        call[c].op = "decommit" /\ call[c].at = "patch" /\ record'.items # Present
        /\ ~faults.overlapped
        => \A j \in OpenChildren(call[c].id) : Present[j].pi # "planned"
=============================================================================

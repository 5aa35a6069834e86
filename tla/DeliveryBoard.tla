---------------------------- MODULE DeliveryBoard ----------------------------
(***************************************************************************)
(* The board of a Delivery in OpenProject: an initiative, its items, what  *)
(* they depend on, and the readers that judge it (openproject-client.js).  *)
(* A reader has the items page by page, then the relations, then what they *)
(* name elsewhere, while others change all of it.  A review reads the      *)
(* initiative; a change of its phase or status reads the whole project, as *)
(* the completion of an item does.  Moves and creations are in             *)
(* DeliveryItem and DeliveryPlan, and so are the notes and the records of  *)
(* the initiative; here they are all there.                                *)
(***************************************************************************)
EXTENDS Naturals, FiniteSets

CONSTANTS
    Calls,
    PageSize,       \* work packages on a page (100 in the code), not zero
    MaxBegun        \* bound: operations that a behaviour begins

VARIABLES
    record,     \* the items and their relations
    call        \* call -> operation, place, what it has read, its answer

boardVars == <<record, call>>

(* The initiative, a feature of it with a story, the initiative that they  *)
(* may depend on, and a work package of another project.                   *)
Epic == 1
Feature == 2
Story == 3
Upstream == 4
Outside == 5
Ids == Epic..Outside

ParentOf == <<0, Epic, Feature, 0, 0>>

Below(i) == IF i = Epic THEN {Feature, Story} ELSE IF i = Feature THEN {Story} ELSE {}

Scope == {Epic} \cup Below(Epic)
Project == Scope \cup {Upstream}

Terminal == {"done", "retired"}
Active == {"ready", "blocked"}
Ended == {"idle", "answered", "refused"}

(* An item: its fields are those that its type requires, all filled in or  *)
(* not; its evidence is that of a completion; the initiative has a phase.  *)
Item(status) ==
    [status |-> status, held |-> FALSE, evidence |-> status = "done",
     whole |-> TRUE, pi |-> "pi", bucket |-> "pi", phase |-> "none", lock |-> 0]

Nothing == [i \in {} |-> 0]

Idle ==
    [op |-> "none", on |-> 0, at |-> "idle", saw |-> Item("new"),
     got |-> Nothing, page |-> 0, root |-> FALSE, links |-> {},
     change |-> Nothing, told |-> FALSE, truth |-> FALSE, disturbed |-> FALSE]

(* A relation: the target follows what it depends on.                      *)
Follows(id, from, to) == [id |-> id, from |-> from, to |-> to]

Over(new, old) == [f \in DOMAIN old |-> IF f \in DOMAIN new THEN new[f] ELSE old[f]]

Only(items, ids) == [i \in DOMAIN items \cap ids |-> items[i]]

-----------------------------------------------------------------------------
(* What a reader makes of the items and relations that it has.             *)

IsBlocked(item) == item.held \/ item.status = "blocked"

IsSound(item) == item.status = "done" => item.evidence /\ item.whole

OpenBelow(i, got) == {j \in DOMAIN got \cap Below(i) : got[j].status \notin Terminal}

Unresolved(got, links) ==
    {l \in links : /\ l.to \in Scope /\ {l.from, l.to} \subseteq DOMAIN got
                   /\ got[l.from].status # "done"}

(* What stands against a closing, or a retirement, of the initiative.      *)
ReadyTo(wish, got, links) ==
    /\ OpenBelow(Epic, got) = {}
    /\ wish # "retired" =>
          /\ \A i \in DOMAIN got \cap Below(Epic) : ~IsBlocked(got[i]) /\ IsSound(got[i])
          /\ Unresolved(got, links) = {}

(* The roadmap shows work in the version of its PI, or in a bucket.        *)
BucketFor(status, pi) ==
    IF pi # "none" THEN pi ELSE IF status = "retired" THEN "retired" ELSE "unassigned"

(* What the quality pack of the project calls drift is what does not fit.  *)
IsInPlace(i, item) ==
    IF i = Epic
    THEN /\ item.status = "done" => item.phase = "Closing"
         /\ item.status = "retired" => item.phase = "none" /\ item.pi = "none"
    ELSE item.bucket = BucketFor(item.status, item.pi)

-----------------------------------------------------------------------------
(* What the operations on an item send, from what they saw of it.          *)

(* Done is reached by completion, blocked by the blocker workflow; active  *)
(* work is in a PI and has its fields; a Feature is not committed here.    *)
Updates(i, saw) ==
    {change \in [status : {"ready", "retired", saw.status}, pi : {"pi", "none"},
                 whole : BOOLEAN] :
        /\ saw.held => change.status = "blocked"
        /\ change.status \in Active => change.pi = "pi" /\ change.whole
        /\ change.status = "done" => saw.evidence
        /\ i = Feature /\ change.pi = "pi" => saw.pi = "pi"}

(* A committed active Feature keeps an open story, unless only its fields  *)
(* are repaired.                                                           *)
KeepsAFront(i, saw, change, got) ==
    i = Feature /\ change.pi = "pi" /\ change.status \in Active =>
        \/ \E j \in DOMAIN got : ParentOf[j] = i /\ got[j].status \notin Terminal
        \/ change.status = saw.status /\ change.pi = saw.pi

Parks(saw) ==
    {[status |-> "retired", pi |-> "none", held |-> FALSE],
     [status |-> "parked", held |-> FALSE]}

Resumes(saw) == {[status |-> s] : s \in {"ready", "done"}}

Blocks(saw) == {[status |-> "blocked", held |-> TRUE]}

Clears(saw) == {[status |-> "ready", held |-> FALSE]}

MayComplete(i, saw, got) ==
    ~IsBlocked(saw) /\ saw.whole /\ OpenBelow(i, got) = {}

Completes(saw) == {[status |-> "done", evidence |-> TRUE]}

Changes(op, i, saw) ==
    CASE op = "update" -> Updates(i, saw)
      [] op = "park" -> Parks(saw)
      [] op = "resume" -> Resumes(saw)
      [] op = "block" -> Blocks(saw)
      [] op = "clear" -> Clears(saw)
      [] OTHER -> Completes(saw)

(* Mutant: the version goes with another PI only, not with another status. *)
WithBucketOfPi(op, saw, change) ==
    LET after == Over(change, saw)
        bucket == BucketFor(after.status, after.pi) IN
    IF op \in {"update", "complete"} /\ after.pi # saw.pi /\ bucket # saw.bucket
    THEN [f \in DOMAIN change \cup {"bucket"} |-> IF f = "bucket" THEN bucket ELSE change[f]]
    ELSE change

(* The version goes with an update or a completion whose PI, or version,   *)
(* is there; parking leaves it to the reconciler of the platform.          *)
WithBucket(op, saw, change) ==
    LET after == Over(change, saw)
        bucket == BucketFor(after.status, after.pi) IN
    IF op \in {"update", "complete"} /\ bucket # saw.bucket
    THEN [f \in DOMAIN change \cup {"bucket"} |-> IF f = "bucket" THEN bucket ELSE change[f]]
    ELSE change

(* Only what differs from the read is sent.                                *)
Sent(saw, change) == [f \in {g \in DOMAIN change : change[g] # saw[g]} |-> change[f]]

-----------------------------------------------------------------------------
(* Whether a step takes back what a reader may already have seen: an item  *)
(* that was closed, free, sound or done, or a relation less.               *)
Fits(item) ==
    [closed |-> item.status \in Terminal, free |-> ~IsBlocked(item),
     sound |-> IsSound(item), done |-> item.status = "done"]

Backward(new) ==
    \/ ~(new.links \subseteq record.links)
    \/ \E i \in Ids : \E f \in DOMAIN Fits(record.item[i]) :
          Fits(record.item[i])[f] /\ ~Fits(new.item[i])[f]

(* A step of c that changes the board, noted for the readers.              *)
Writes(c, new, mine) ==
    /\ record' = new
    /\ call' = [d \in Calls |->
                  IF d = c THEN mine
                  ELSE [call[d] EXCEPT
                          !.disturbed = @ \/ (call[d].at \notin Ended /\ Backward(new))]]

Goes(c, mine) == call' = [call EXCEPT ![c] = mine] /\ UNCHANGED record

(* A call that has ended keeps its answer only.                            *)
Answer(c, at, told, truth) ==
    [Idle EXCEPT !.at = at, !.told = told, !.truth = truth,
                 !.disturbed = told /\ call[c].disturbed]

Refused(c) == Answer(c, "refused", FALSE, FALSE)

-----------------------------------------------------------------------------
(* Operations: review the initiative, change it, set or clear that the     *)
(* Story follows the Upstream, or one on an item.                          *)
Targets(op) ==
    IF op \in {"review", "closing", "done", "retired"} THEN {Epic}
    ELSE IF op \in {"set", "unset"} THEN {Story} ELSE {Feature, Story}

Ops ==
    {"review", "closing", "done", "retired", "set", "unset", "update", "park",
     "resume", "block", "clear", "complete"}

Begin(c) ==
    \E op \in Ops : \E i \in Targets(op) :
        /\ call[c].at \in Ended /\ record.begun < MaxBegun
        /\ record' = [record EXCEPT !.begun = @ + 1, !.unset = @ \/ op = "unset"]
        /\ call' = [call EXCEPT ![c] =
                      [Idle EXCEPT !.op = op, !.on = i,
                                   !.at = IF op = "review" THEN "pages"
                                          ELSE IF op \in {"set", "unset"} THEN "relations"
                                          ELSE "read"]]

(* An operation reads the work package that it is about; those that look   *)
(* at others list the project then, whatever the status.                   *)
ReadTarget(c) ==
    LET my == call[c]
        lists == my.op \in {"closing", "done", "retired", "complete"}
                 \/ (my.op = "update" /\ my.on = Feature) IN
    /\ my.at = "read"
    /\ Goes(c, [my EXCEPT !.saw = record.item[my.on], !.root = TRUE,
                          !.at = IF lists THEN "pages" ELSE "decide"])

(* A review asks for the initiative and for its descendants at once ...    *)
ReadRoot(c) ==
    LET my == call[c] IN
    /\ my.at = "pages" /\ ~my.root
    /\ Goes(c, [my EXCEPT !.root = TRUE])

Listed(op) == IF op = "review" THEN Below(Epic) ELSE Project

(* ... and a list is of pages, each of the project as it is then.          *)
OnPage(ids, page) ==
    {i \in ids : LET before == Cardinality({j \in ids : j < i}) IN
                 before >= page * PageSize /\ before < (page + 1) * PageSize}

IsLastPage(ids, page) == (page + 1) * PageSize >= Cardinality(ids)

ReadPage(c) ==
    LET my == call[c]
        ids == Listed(my.op)
        read == OnPage(ids, my.page) IN
    /\ my.at = "pages" /\ read # {}
    /\ Goes(c, [my EXCEPT !.got = [i \in DOMAIN my.got \cup read |->
                                     IF i \in read THEN record.item[i] ELSE my.got[i]],
                          !.page = @ + 1])

PagesAreRead(c) ==
    LET my == call[c] IN
    /\ my.at = "pages" /\ my.root /\ my.page > 0 /\ IsLastPage(Listed(my.op), my.page - 1)

(* Mutant: only what leaves the items is listed.                           *)
RelationsFrom(ids) == {l \in record.links : l.from \in ids}

(* The relations that involve an item of the scope, either way.            *)
Relations(ids) == {l \in record.links : {l.from, l.to} \cap ids # {}}

ReadRelations(c) ==
    LET my == call[c] IN
    /\ PagesAreRead(c) /\ my.op \notin {"complete", "update"}
    /\ Goes(c, [my EXCEPT !.links = Relations(IF my.op = "review" THEN Scope ELSE Project),
                          !.at = IF my.op = "review" THEN "related" ELSE "decide"])

(* Mutant: nothing outside the initiative is read.                         *)
UnreadNothing(c) == {}

(* What a relation of the scope names elsewhere is read by itself.         *)
Unread(c) == {l.from : l \in call[c].links} \ (DOMAIN call[c].got \cup {Epic})

ReadRelated(c) ==
    \E i \in Unread(c) :
        /\ call[c].at = "related"
        /\ Goes(c, [call[c] EXCEPT !.got = [j \in DOMAIN @ \cup {i} |->
                                              IF j = i THEN record.item[i] ELSE @[j]]])

(* The initiative is closable, of what is in the given set.                *)
Closable(ids) ==
    /\ \A i \in Below(Epic) :
          \/ record.item[i].status = "retired" /\ ~record.item[i].held
          \/ /\ record.item[i].status = "done" /\ ~record.item[i].held
             /\ record.item[i].evidence /\ record.item[i].whole
    /\ \A l \in record.links :
          l.to \in Scope /\ l.from \in ids => record.item[l.from].status = "done"

Retirable == \A i \in Below(Epic) : record.item[i].status \in Terminal

Tell(c) ==
    LET my == call[c] IN
    /\ my.at = "related" /\ Unread(c) = {}
    /\ LET told == ReadyTo("closing", my.got, my.links) IN
       Goes(c, Answer(c, "answered", told, told /\ Closable(Ids)))

-----------------------------------------------------------------------------
(* A change of the initiative: Closing is a phase, done is from there, or  *)
(* goes there, and a retired initiative has neither a phase nor a PI.      *)
Goals(op) ==
    CASE op = "closing" -> {[phase |-> "Closing"]}
      [] op = "done" -> {[status |-> "done"], [status |-> "done", phase |-> "Closing"]}
      [] OTHER -> {[status |-> "retired", phase |-> "none", pi |-> "none"]}

DecideChange(c) ==
    \E change \in Goals(call[c].op) :
        LET my == call[c]
            allowed == /\ ReadyTo(my.op, my.got, my.links)
                       /\ my.op = "done" => Over(change, my.saw).phase = "Closing"
                       /\ my.op = "closing" => my.saw.status # "retired" IN
        /\ my.op \in {"closing", "done", "retired"} /\ my.at = "decide"
        /\ Goes(c, IF ~allowed THEN Refused(c)
                   ELSE IF Sent(my.saw, change) = Nothing
                   THEN Answer(c, "answered", FALSE, FALSE)
                   ELSE [my EXCEPT !.change = Sent(my.saw, change), !.got = Nothing,
                                   !.links = {}, !.page = 0, !.at = "patch"])

DecideItem(c) ==
    \E change \in Changes(call[c].op, call[c].on, call[c].saw) :
        LET my == call[c]
            sent == Sent(my.saw, WithBucket(my.op, my.saw, change)) IN
        /\ my.op \notin {"closing", "done", "retired"}
        /\ my.at = "decide" \/ (my.op \in {"complete", "update"} /\ PagesAreRead(c))
        /\ my.op = "complete" => MayComplete(my.on, my.saw, my.got)
        /\ my.op = "update" => KeepsAFront(my.on, my.saw, change, my.got)
        /\ Goes(c, IF sent = Nothing THEN Answer(c, "answered", FALSE, FALSE)
                   ELSE [my EXCEPT !.change = sent, !.got = Nothing, !.page = 0,
                                   !.at = IF my.op = "complete" THEN "replay" ELSE "patch"])

(* Whether what the change relied on is so when it is made.                *)
Holds(op, i) ==
    CASE op = "retired" -> Retirable
      [] op \in {"closing", "done"} -> Closable(Project)
      [] OTHER -> OpenBelow(i, record.item) = {}

(* The PATCH has the lock version of the first read, and one that is       *)
(* refused is sent again with a new one; a completion is sent with the     *)
(* lock version of the moment.  The history notes what the PATCH found.    *)
Patch(c) ==
    LET my == call[c]
        now == record.item[my.on] IN
    /\ my.at = "replay" \/ (my.at = "patch" /\ my.saw.lock = now.lock)
    /\ Writes(c,
              [record EXCEPT
                 !.item[my.on] = [Over(my.change, now) EXCEPT !.lock = @ + 1],
                 !.kept = [@ EXCEPT ![my.on] =
                             my.op \in {"update", "complete", "closing", "done", "retired"}
                             /\ now = my.saw]],
              IF my.op \in {"complete", "closing", "done", "retired"}
              THEN Answer(c, "answered", TRUE, Holds(my.op, my.on))
              ELSE Answer(c, "answered", FALSE, FALSE))

Conflict(c) ==
    LET my == call[c] IN
    /\ my.at = "patch" /\ my.saw.lock # record.item[my.on].lock
    /\ Goes(c, [my EXCEPT !.at = "replay"])

(* Any read may fail, any check refuse, and any answer be lost.            *)
Fails(c) == call[c].at \notin Ended /\ Goes(c, Refused(c))

-----------------------------------------------------------------------------
(* That the Story follows the Upstream: its relations are listed; without  *)
(* one it is created, and all but the oldest are deleted, or all.          *)
Matching == {l \in record.links : l.from = Upstream /\ l.to = Story}

(* Mutant: what is there twice goes, and the first with it.                *)
OldestIsNone(links) == {}

Oldest(links) == {l \in links : \A m \in links : l.id <= m.id}

Surplus(op, links) == IF op = "unset" THEN links ELSE links \ Oldest(links)

ListRelations(c) ==
    LET my == call[c] IN
    /\ my.at = "relations"
    /\ Goes(c, [my EXCEPT !.links = Surplus(my.op, Matching),
                          !.at = IF my.op = "set" /\ Matching = {} THEN "create" ELSE "delete"])

Create(c) ==
    /\ call[c].at = "create"
    /\ Writes(c, [record EXCEPT !.links = @ \cup {Follows(record.next, Upstream, Story)},
                                !.next = @ + 1, !.set = TRUE],
              Answer(c, "answered", FALSE, FALSE))

(* The relation may have been deleted meanwhile, and the call fails.       *)
Delete(c) ==
    \E l \in call[c].links :
        /\ call[c].at = "delete" /\ \A m \in call[c].links : l.id <= m.id
        /\ IF l \in record.links
           THEN Writes(c, [record EXCEPT !.links = @ \ {l}],
                       [call[c] EXCEPT !.links = @ \ {l}])
           ELSE Goes(c, Refused(c))

Settled(c) ==
    /\ call[c].at = "delete" /\ call[c].links = {}
    /\ record' = [record EXCEPT !.set = @ \/ call[c].op = "set"]
    /\ call' = [call EXCEPT ![c] = Answer(c, "answered", FALSE, FALSE)]

(* What the initiative depends on is done by others.                       *)
Proceeds ==
    \E i \in {Upstream, Outside} :
        /\ record.item[i].status = "ready"
        /\ record' = [record EXCEPT !.item[i] = Item("done")]
        /\ UNCHANGED call

Init ==
    /\ \E status \in {"ready", "done"} :
       \E links \in {{}, {Follows(1, Upstream, Story), Follows(2, Upstream, Story)},
                     {Follows(1, Outside, Feature)}} :
          record = [item |-> [i \in Ids |->
                                [Item(IF i \in {Feature, Story} THEN status ELSE "ready")
                                   EXCEPT !.phase = IF i = Epic THEN "Executing" ELSE @]],
                    links |-> links, next |-> 3, begun |-> 0,
                    set |-> links # {}, unset |-> FALSE, kept |-> [i \in Ids |-> FALSE]]
    /\ call = [c \in Calls |-> Idle]

Next ==
    \/ Proceeds
    \/ \E c \in Calls :
          \/ Begin(c) \/ ReadTarget(c) \/ ReadRoot(c) \/ ReadPage(c)
          \/ ReadRelations(c) \/ ReadRelated(c) \/ Tell(c)
          \/ DecideChange(c) \/ DecideItem(c) \/ Patch(c) \/ Conflict(c)
          \/ Fails(c) \/ ListRelations(c) \/ Create(c) \/ Delete(c) \/ Settled(c)

Spec == Init /\ [][Next]_boardVars

-----------------------------------------------------------------------------
(* A review that finds the initiative ready, a change of it that was let   *)
(* through and a completed item are right, although they were read in      *)
(* pieces, as long as the work only went forward meanwhile.                *)
JudgementsAreTrue ==
    \A c \in Calls : call[c].told /\ ~call[c].disturbed => call[c].truth

(* What a review finds ready, the change of the initiative lets through:   *)
(* the review sees more.                                                   *)
ReviewIsStricter ==
    LET seen == Scope \cup {l.from : l \in Relations(Scope)} IN
    ReadyTo("closing", Only(record.item, seen), Relations(Scope)) =>
        ReadyTo("closing", Only(record.item, Project), Relations(Project))

(* A dependency that was set stays, however many set it at once and take   *)
(* out what is there twice, until it is cleared.                           *)
DependencyStays ==
    record.set /\ ~record.unset => \E l \in record.links : l.to \in {Story, Feature}

(* A change of an item that was still as it had been read leaves it where  *)
(* the roadmap expects it, and the initiative in the phase of its status.  *)
RoadmapFollows ==
    \A i \in Ids : record.kept[i] => IsInPlace(i, record.item[i])
=============================================================================

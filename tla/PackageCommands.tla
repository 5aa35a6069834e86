-------------------------- MODULE PackageCommands --------------------------
(***************************************************************************)
(* The accepted commands on one Delivery package: the application of a     *)
(* Work Design (work-design), the typed changes and the repository link    *)
(* (delivery-change, with the Catalog), and the closeout                   *)
(* (delivery-closeout).  Each writes its acceptance as a comment of the    *)
(* package in OpenProject, has an owner make the change, and writes the    *)
(* result as a second comment; a repeated command is answered from the     *)
(* comments.  The owners' own steps are those of DeliveryItem and          *)
(* DeliveryPlan; here they succeed, fail, or succeed and lose the answer.  *)
(***************************************************************************)
EXTENDS Naturals, Sequences

CONSTANTS
    Calls,      \* the requests that reach the service
    Commands,   \* command ids; of a Work Design, key and digest of the draft
    Payloads,   \* what may be sent under one id
    MaxEdits,   \* bound: changes of the package by others
    MaxFailures \* bound: stops, failed calls and lost comments

VARIABLES
    record,     \* what the commands are, and whether OOS knows its own user
    canon,      \* the package, the lock version of its source, the Catalog
    activity,   \* the comments of OOS on the package, in order
    request,    \* command -> what the operator prepared it against
    call,       \* call -> place, command and what it read
    held,       \* the calls that later ones in the process wait for
    commits,    \* history: command -> how often its owner was asked
    receipts,   \* the closeouts attested to Workspace Intake
    faults,     \* history: what failed, overlapped, and was done by commands
    edits

vars == <<record, canon, activity, request, call, held, commits, receipts,
          faults, edits>>

Op == record.op

(* The guided steps of a closeout: demonstrated, Closing, inspected, done. *)
Steps == 0..4

Idle == [at |-> "idle", m |-> "none", payload |-> "none",
         gate |-> "open", before |-> <<>>, status |-> "none", catalog |-> 0,
         on |-> "none"]

-----------------------------------------------------------------------------
(* The revision that a command is checked against: the lock version of the *)
(* source of a Work Design, the digest of the tree for the others.  The    *)
(* comments are in neither.                                                *)
Version == <<canon.version>>

Digest == <<canon.tree, canon.open, canon.steps>>

Source == IF Op = "design" THEN Version ELSE Digest

Members(s) == {s[i] : i \in DOMAIN s}

Of(m, events) == {e \in Members(events) : e.m = m}

Results(m, events) == {e \in Of(m, events) : e.type = "result"}

(* An acceptance of any command that has no result.                        *)
HasUnfinishedAcceptance(events) ==
    \E e \in Members(events) : e.type = "accepted" /\ Results(e.m, events) = {}

LastTerminal(events) ==
    LET terminals == SelectSeq(events, LAMBDA e : e.type = "result") IN
    IF terminals = <<>> THEN "none" ELSE terminals[Len(terminals)].status

(* What the comments say of other closeouts comes before the gates.        *)
Gate(events) ==
    IF HasUnfinishedAcceptance(events) THEN "reconcile"
    ELSE IF LastTerminal(events) = "partial_failure" THEN "partial" ELSE "open"

(* Everything below the initiative is done or retired, and evidenced.      *)
ScopeIsDone == ~canon.open

(* It is Closing, demonstrated and inspected.                              *)
IsReviewed == canon.steps >= 3

ReadyForCloseout == ScopeIsDone /\ IsReviewed

(* Only evidence is missing that the closeout itself records.              *)
OnlyGuidedEvidenceStepsRemain == ScopeIsDone /\ ~IsReviewed

MayClose(gate) ==
    /\ canon.steps < 4 /\ gate # "reconcile"
    /\ ReadyForCloseout \/ (OnlyGuidedEvidenceStepsRemain /\ gate = "open")

(* Two events of one application that differ (their times do) make the     *)
(* history of the source unreadable.                                       *)
Conflicting(events) ==
    \E d, e \in Members(events) : d.m = e.m /\ d.type = e.type /\ d.by # e.by

-----------------------------------------------------------------------------
Ended == {"answered", "failed"}

Active(c) == call[c].at \notin Ended \cup {"idle"}

Goes(c, at) == call' = [call EXCEPT ![c].at = at] /\ UNCHANGED held

(* The end of a call lets those go on that wait for it.                    *)
Ends(c, at) ==
    /\ call' = [call EXCEPT ![c] = [Idle EXCEPT !.at = at]]
    /\ held' = held \ {c}

MayFail == faults.count < MaxFailures

Counted == [faults EXCEPT !.count = @ + 1]

Fails(c) ==
    /\ MayFail /\ Active(c) /\ call[c].at # "wait"
    /\ Ends(c, "failed")
    /\ faults' = Counted
    /\ UNCHANGED <<record, canon, activity, request, commits, receipts, edits>>

(* The service stops: nothing of a call is left but its comments.          *)
Restart ==
    /\ MayFail /\ \E c \in Calls : Active(c)
    /\ faults' = Counted
    /\ call' = [c \in Calls |-> IF Active(c) THEN [Idle EXCEPT !.at = "failed"] ELSE call[c]]
    /\ held' = {} /\ record' = [record EXCEPT !.identity = "unread"]
    /\ UNCHANGED <<canon, activity, request, commits, receipts, edits>>

(* The operator reads the projection and prepares a command against it,   *)
(* which it sends at once and maybe again.                                 *)
Prepares(m) ==
    IF request[m] # <<>> THEN UNCHANGED request
    ELSE \E entrant \in {b \in BOOLEAN : b => Op = "close"} :
            request' = [request EXCEPT ![m] =
                [source |-> Source, catalog |-> canon.catalog, entrant |-> entrant]]

(* A Work Design waits for the call of its application, a closeout for     *)
(* that of its Delivery; the others wait for none.                         *)
Serialized == Op \in {"design", "close"}

Ahead(m) == {d \in held : Op = "close" \/ call[d].m = m}

Begin(c) ==
    \E m \in Commands, payload \in Payloads :
        LET begun == [Idle EXCEPT !.m = m, !.payload = payload] IN
        /\ call[c].at = "idle" /\ Prepares(m)
        /\ \/ /\ ~Serialized \/ Ahead(m) = {}
              /\ call' = [call EXCEPT ![c] = [begun EXCEPT !.at = "look"]]
              /\ held' = IF Serialized THEN held \cup {c} ELSE held
           \/ \E d \in Ahead(m) :
                 /\ Serialized
                 /\ call' = [call EXCEPT ![c] = [begun EXCEPT !.at = "wait", !.on = d]]
                 /\ UNCHANGED held
        /\ UNCHANGED <<record, canon, activity, commits, receipts, faults, edits>>

(* The one waited for has ended: the waiting call goes on, and none waits  *)
(* for it.                                                                 *)
Follow(c) ==
    /\ call[c].at = "wait" /\ call[call[c].on].at \in Ended
    /\ call' = [call EXCEPT ![c].at = "look", ![c].on = "none"]
    /\ UNCHANGED <<record, canon, activity, request, held, commits, receipts, faults, edits>>

(* Whose comments count is read once.  Changes and closeouts keep a failed *)
(* read as they keep a good one; a Work Design reads again.                *)
Identify(c) ==
    /\ call[c].at = "look" /\ record.identity = "unread"
    /\ \/ /\ record' = [record EXCEPT !.identity = "read"]
          /\ UNCHANGED <<call, held>>
       \/ /\ MayFail /\ record' = [record EXCEPT !.identity = IF Op = "design" THEN "unread" ELSE "lost"]
          /\ Ends(c, "failed")
    /\ UNCHANGED <<canon, activity, request, commits, receipts, faults, edits>>

(* Mutant: a call that finds an acceptance goes on from there.             *)
ResumesAny == TRUE

(* Only a Work Design takes up an acceptance without result.               *)
Resumes == Op = "design"

(* A command is answered from its result; between acceptance and result it *)
(* is refused, for the operator to look, save that a Work Design is        *)
(* applied once more; and it begins where it has no comment.               *)
Look(c) ==
    LET my == call[c]
        mine == Of(my.m, activity)
        refused == \/ record.identity = "lost"
                   \/ Op = "design" /\ Conflicting(activity)
                   \/ \E e \in mine : e.payload # my.payload
        answered == Results(my.m, activity) # {}
        Proceeds(at) ==
            /\ call' = [call EXCEPT ![c].at = at, ![c].gate = Gate(activity)]
            /\ UNCHANGED held IN
    /\ my.at = "look" /\ record.identity # "unread"
    /\ \/ refused /\ Ends(c, "failed")
       \/ ~refused /\ answered /\ Op # "close" /\ Ends(c, "answered")
       \/ ~refused /\ answered /\ Op = "close" /\ Proceeds("attest")
       \/ ~refused /\ ~answered /\ mine # {} /\ ~Resumes /\ Ends(c, "failed")
       \/ ~refused /\ ~answered /\ mine # {} /\ Resumes /\ Proceeds("dispatch")
       \/ ~refused /\ mine = {} /\ Proceeds("before")
    /\ UNCHANGED <<record, canon, activity, request, commits, receipts, faults, edits>>

(* The package before the acceptance: as the command was prepared for, and *)
(* ready for a closeout.                                                   *)
Before(c) ==
    LET admitted == /\ Source = request[call[c].m].source
                    /\ Op = "close" => MayClose(call[c].gate) IN
    /\ call[c].at = "before"
    /\ \/ ~admitted /\ Ends(c, "failed")
       \/ /\ admitted
          /\ call' = [call EXCEPT ![c].at = "accept", ![c].before = Source]
          /\ UNCHANGED held
    /\ UNCHANGED <<record, canon, activity, request, commits, receipts, faults, edits>>

Event(c, type, status) ==
    [m |-> call[c].m, payload |-> call[c].payload, type |-> type, status |-> status, by |-> c]

(* A comment is written and the call goes on, or the answer of the write   *)
(* is lost, or the write.  A Work Design then looks for its comment.       *)
Comments(c, type, status, then) ==
    LET my == call[c]
        event == Event(c, type, status)
        overlapping == \E e \in Of(my.m, activity) : e.type = type
        noted == [faults EXCEPT !.overlapped = @ \/ overlapping] IN
    \/ /\ activity' = Append(activity, event)
       /\ faults' = noted
       /\ IF then = "answered" THEN Ends(c, then) ELSE Goes(c, then)
    \/ /\ MayFail
       /\ activity' \in {activity, Append(activity, event)}
       /\ faults' = [noted EXCEPT !.count = @ + 1]
       /\ IF Op = "design" THEN Goes(c, type) ELSE Ends(c, "failed")

Accept(c) ==
    /\ call[c].at = "accept"
    /\ Comments(c, "accepted", "accepted", IF Op = "design" THEN "dispatch" ELSE "recheck")
    /\ UNCHANGED <<record, canon, request, commits, receipts, edits>>

(* The comment whose write gave no answer is found, alone, or is not.      *)
Recover(c) ==
    LET my == call[c]
        found == {e.by : e \in {d \in Of(my.m, activity) : d.type = my.at}} IN
    /\ my.at \in {"accepted", "result"}
    /\ \/ found # {c} /\ Ends(c, "failed")
       \/ found = {c} /\ my.at = "accepted" /\ Goes(c, "dispatch")
       \/ found = {c} /\ my.at = "result" /\ Ends(c, "answered")
    /\ UNCHANGED <<record, canon, activity, request, commits, receipts, faults, edits>>

Finishes(c, status) ==
    call' = [call EXCEPT ![c].at = "record", ![c].status = status] /\ UNCHANGED held

(* The package is read again after the acceptance.                         *)
Recheck(c) ==
    LET stale == Source # call[c].before IN
    /\ call[c].at = "recheck"
    /\ \/ (stale \/ Op = "rollback") /\ Finishes(c, "rejected")
       \/ ~stale /\ Op = "route" /\ Finishes(c, "routed")
       \/ ~stale /\ Op = "link" /\ Goes(c, "catalog")
       \/ ~stale /\ Op \in {"revise", "close"} /\ Goes(c, "dispatch")
    /\ UNCHANGED <<record, canon, activity, request, commits, receipts, faults, edits>>

-----------------------------------------------------------------------------
(* The link of a repository begins in the Catalog: its projection is the   *)
(* one the request names, its value may be changed and its repository is   *)
(* ready, or the Catalog refuses.                                          *)
CheckCatalog(c) ==
    /\ call[c].at = "catalog"
    /\ \/ canon.catalog = request[call[c].m].catalog /\ Goes(c, "mutate")
       \/ Finishes(c, "rejected")
    /\ UNCHANGED <<record, canon, activity, request, commits, receipts, faults, edits>>

MutateCatalog(c) ==
    LET my == call[c]
        current == canon.catalog = request[my.m].catalog IN
    /\ my.at = "mutate"
    /\ \/ /\ current
          /\ canon' = [canon EXCEPT !.catalog = @ + 1]
          /\ faults' = [faults EXCEPT !.catalogued = @ \cup {my.m}]
          /\ \/ /\ call' = [call EXCEPT ![c].at = "readback", ![c].catalog = canon.catalog + 1]
                /\ UNCHANGED held
             \/ Finishes(c, "rejected")
       \/ Finishes(c, "rejected") /\ UNCHANGED <<canon, faults>>
    /\ UNCHANGED <<record, activity, request, commits, receipts, edits>>

(* The mutation counts when the next projection is of its own revision.    *)
ReadCatalog(c) ==
    /\ call[c].at = "readback"
    /\ \/ canon.catalog = call[c].catalog /\ Goes(c, "dispatch")
       \/ canon.catalog # call[c].catalog /\ Finishes(c, "rejected")
    /\ UNCHANGED <<record, canon, activity, request, commits, receipts, faults, edits>>

-----------------------------------------------------------------------------
(* What the owner makes of the package: all of it, or, when it fails,      *)
(* nothing, a part, or all.  A closeout that fails may have taken some of  *)
(* its steps, and takes Closing and done only while nothing is open.       *)
Effects(m) ==
    IF Op = "close"
    THEN {[canon EXCEPT !.steps = n] :
             n \in {k \in Steps : k >= canon.steps /\ (canon.open => k <= 1 \/ k = canon.steps)}}
    ELSE {[canon EXCEPT !.tree = @ \cup {m}, !.version = @ + bump] :
             bump \in IF Op = "design" THEN {0, 1} ELSE {0}}

Whole(m, package) == IF Op = "close" THEN package.steps = 4 ELSE m \in package.tree

(* Mutant: the package was being changed, so any failure is a partial one. *)
PartialFailure == "partial_failure"

(* The status of a failure: by then the Catalog has the repository.        *)
FailureStatus == IF Op = "link" THEN "partial_failure" ELSE "rejected"

(* Of a closed Delivery the source may be left unclosed.                   *)
SuccessStatuses == IF Op = "close" THEN {"applied", "partial_failure"} ELSE {"applied"}

Asks(c) ==
    /\ call[c].at = "dispatch"
    /\ commits' = [commits EXCEPT ![call[c].m] = @ + 1]
    /\ faults' = [faults EXCEPT
                    !.late = @ \/ Results(call[c].m, activity) # {},
                    !.done = IF Whole(call[c].m, canon') THEN @ \cup {call[c].m} ELSE @]
    /\ UNCHANGED <<record, activity, request, receipts, edits>>

Dispatch(c) ==
    /\ canon' \in Effects(call[c].m) /\ Whole(call[c].m, canon')
    /\ Asks(c)
    /\ \/ Op = "link" /\ Goes(c, "linked")
       \/ Op # "link" /\ \E status \in SuccessStatuses : Finishes(c, status)

DispatchFails(c) ==
    /\ canon' \in Effects(call[c].m) \cup {canon}
    /\ Asks(c)
    /\ \/ Op = "design" /\ Ends(c, "failed")
       \/ Op # "design" /\ Finishes(c, FailureStatus)

(* A link counts when the next read of the package has the repository.     *)
ReadLink(c) ==
    /\ call[c].at = "linked"
    /\ Finishes(c, IF call[c].m \in canon.tree THEN "applied" ELSE FailureStatus)
    /\ UNCHANGED <<record, canon, activity, request, commits, receipts, faults, edits>>

(* The package is read once more (a failure ends the call), and the result *)
(* written.                                                                *)
Record(c) ==
    /\ call[c].at = "record"
    /\ Comments(c, "result", call[c].status, IF Op = "close" THEN "attest" ELSE "answered")
    /\ UNCHANGED <<record, canon, request, commits, receipts, edits>>

(* An applied closeout that brings something into the workspace is         *)
(* attested to its intake, also by a repetition, or the call fails.        *)
Candidate(m) ==
    /\ request[m].entrant
    /\ \E e \in Results(m, activity) : e.status = "applied"

Attest(c) ==
    LET m == call[c].m IN
    /\ call[c].at = "attest"
    /\ receipts' = IF Candidate(m) THEN receipts \cup {m} ELSE receipts
    /\ \/ Ends(c, "answered")
       \/ Candidate(m) /\ Ends(c, "failed")
    /\ UNCHANGED <<record, canon, activity, request, commits, faults, edits>>

-----------------------------------------------------------------------------
(* Others change the package: something else, what a command did, or what  *)
(* is open below the initiative.                                           *)
Edit ==
    /\ edits < MaxEdits /\ edits' = edits + 1
    /\ \/ Op = "design" /\ canon' = [canon EXCEPT !.version = @ + 1]
       \/ Op \notin {"design", "close"}
          /\ \E m \in canon.tree \cup {"edit"} :
                canon' = [canon EXCEPT !.tree = (@ \cup {m}) \ (@ \cap {m})]
       \/ Op = "close" /\ canon' = [canon EXCEPT !.open = ~@]
    /\ UNCHANGED <<record, activity, request, call, held, commits, receipts, faults>>

Init ==
    /\ record \in [op : {"design", "revise", "route", "rollback", "link", "close"},
                   identity : {"unread"}]
    /\ canon \in [version : {0}, tree : {{}}, open : {FALSE}, catalog : {0},
                  steps : IF Op = "close" THEN {0, 3} ELSE {0}]
    /\ activity = <<>>
    /\ request = [m \in Commands |-> <<>>]
    /\ call = [c \in Calls |-> Idle]
    /\ held = {} /\ receipts = {}
    /\ commits = [m \in Commands |-> 0]
    /\ faults = [count |-> 0, overlapped |-> FALSE, late |-> FALSE, done |-> {}, catalogued |-> {}]
    /\ edits = 0

Next ==
    \/ \E c \in Calls :
          \/ Begin(c) \/ Follow(c) \/ Identify(c) \/ Look(c) \/ Before(c) \/ Accept(c)
          \/ Recover(c) \/ Recheck(c) \/ CheckCatalog(c) \/ MutateCatalog(c) \/ ReadCatalog(c)
          \/ Dispatch(c) \/ DispatchFails(c) \/ ReadLink(c) \/ Record(c) \/ Attest(c)
          \/ Fails(c)
    \/ Restart \/ Edit

Spec == Init /\ [][Next]_vars

-----------------------------------------------------------------------------
(* Fewer than three calls have come.                                       *)
OnlyTwoCame ==
    \E c, d \in Calls : \A e \in Calls : call[e].at = "idle" \/ e \in {c, d}

(* The owner of a change, link or closeout is asked once for a command,    *)
(* whatever was repeated, lost or stopped, unless two of its calls wrote   *)
(* their acceptance at the same time.  That does not happen to Work        *)
(* Designs and closeouts while fewer than three calls have come: a third   *)
(* finds the call gone on which the second waited.                         *)
AskedOnce ==
    /\ Op # "design" /\ ~faults.overlapped => \A m \in Commands : commits[m] <= 1
    /\ Serialized /\ OnlyTwoCame => ~faults.overlapped /\ ~faults.late

(* What a result says was done was done: an applied command was applied as *)
(* a whole; a partial failure of a link left the Catalog changed, one of a *)
(* closeout the Delivery closed; and what is attested was applied.         *)
ResultsAreTrue ==
    /\ \A e \in Members(activity) :
          /\ e.status = "applied" => e.m \in faults.done
          /\ e.status = "partial_failure" =>
                e.m \in IF Op = "link" THEN faults.catalogued ELSE faults.done
    /\ \A m \in receipts :
          \E e \in Members(activity) : e.m = m /\ e.status = "applied"

=============================================================================

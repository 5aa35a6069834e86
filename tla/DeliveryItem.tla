---------------------------- MODULE DeliveryItem ----------------------------
(***************************************************************************)
(* A Delivery work package: generic update, move, blocker workflow,        *)
(* parking, completion, the system-demo, inspect-and-adapt and PI-review   *)
(* records, the guided closeout of an Epic, which runs several of them,    *)
(* and the projection of an evidence reference (openproject-client.js).    *)
(* Notes are appended to one description, records to one text field, both  *)
(* rebuilt from what was read; a note or record is the call that made it.  *)
(***************************************************************************)
EXTENDS WorkPackage

Texts == {"notes", "demo", "inspect"}

Fields(kind) ==
    [kind |-> kind, status |-> "new", blocker |-> "none", parking |-> "none",
     parent |-> "first", phase |-> "Executing", notes |-> {}, demo |-> {},
     inspect |-> {}]

(* The operations of an Epic, and of the work items below it.              *)
OpsOf(kind) ==
    IF kind = "Epic" THEN {"change", "demo", "inspect", "close", "project"}
    ELSE {"update", "move", "block", "clear", "park", "resume", "complete",
          "review", "project"}

(* The lock version of the read goes with the PATCH, except where the      *)
(* payload is built without one.                                           *)
SendsLock(op) == op \notin {"complete", "demo", "inspect", "review"}

ReplaysAny(op) == TRUE

(* A refused PATCH is replayed, except a projected reference, which is     *)
(* built again from a new read.                                            *)
Replays(op) == op # "project"

Noted(c, now) == [notes |-> now.notes \cup {c}]

Closable(now) == now.demo # {} /\ now.inspect # {}

-----------------------------------------------------------------------------
(* The changes of each operation that its checks let through on what it    *)
(* read (of the related work packages nothing is kept).                    *)

(* An Epic: Closing needs a demonstration, done needs Closing and an       *)
(* inspection, and retired has no phase.                                   *)
ChangedInitiative(now) ==
    {change \in [status : {now.status, "ready", "done", "retired"},
                 phase : {now.phase, "Closing", "none"}] :
        /\ change.status = "retired" => change.phase = "none"
        /\ change.phase = "none" => change.status = "retired" \/ now.phase = "none"
        /\ change.phase = "Closing" => now.demo # {}
        /\ change.status = "done" => change.phase = "Closing" /\ Closable(now)}

(* blocked is entered, and a blocker is cleared, in the blocker workflow;  *)
(* done is reached by completion.                                          *)
UpdatedItem(c, now) ==
    {Both([status |-> s], Noted(c, now)) :
        s \in {t \in {"new", "ready", now.status} : now.blocker = "none" \/ t = "blocked"}}

Moved(c, now) == {Both([parent |-> c], Noted(c, now))}

Blocked(c, now) == {[status |-> "blocked", blocker |-> c]}

Cleared(c, now) == {[status |-> "ready", blocker |-> "none"]}

Parked(c, now) ==
    {Both([status |-> s, parking |-> c, blocker |-> "none"], Noted(c, now)) :
        s \in {"parked", "retired"}}

(* Resuming takes any status that is not inactive.                         *)
Resumed(c, now) ==
    {Both([status |-> s, parking |-> "none"], Noted(c, now)) : s \in {"ready", "blocked", "done"}}

MayComplete(now) == now.status # "blocked" /\ now.blocker = "none"

Completed(c, now) ==
    {change \in {Both([status |-> "done"], Noted(c, now))} : MayComplete(now)}

Demonstrated(c, now) == {[demo |-> now.demo \cup {c}]}

Inspected(c, now) == {[inspect |-> now.inspect \cup {c}]}

Reviewed(c, now) == {Noted(c, now)}

Projected(c, now) == {Noted(c, now)}

Changes(c, op, now) ==
    CASE op = "change" -> ChangedInitiative(now)
      [] op = "update" -> UpdatedItem(c, now)
      [] op = "move" -> Moved(c, now)
      [] op = "block" -> Blocked(c, now)
      [] op = "clear" -> Cleared(c, now)
      [] op = "park" -> Parked(c, now)
      [] op = "resume" -> Resumed(c, now)
      [] op = "complete" -> Completed(c, now)
      [] op = "demo" -> Demonstrated(c, now)
      [] op = "inspect" -> Inspected(c, now)
      [] op = "review" -> Reviewed(c, now)
      [] OTHER -> Projected(c, now)

(* A retired Epic takes no phase, one without a demonstration not Closing. *)
Closings(now) == {p \in {"Closing"} : now.status # "retired" /\ now.demo # {}}

(* The guided closeout of an Epic: the demo record, the Closing phase, the *)
(* inspection record, the closing text, done.  Each step reads and patches *)
(* on its own; a repetition has the same records, and finds those that are *)
(* there.                                                                  *)
CloseChanges(step, now) ==
    CASE step = "demonstrate" -> Demonstrated("close", now)
      [] step = "closing" -> {[phase |-> p] : p \in Closings(now)}
      [] OTHER -> Inspected("close", now)

After == [demonstrate |-> "closing", closing |-> "examine", examine |-> "compose"]

-----------------------------------------------------------------------------
Begin(c) ==
    \E op \in OpsOf(record.fields.kind) :
        /\ call[c].at = "idle"
        /\ call' = [call EXCEPT ![c].op = op,
                                ![c].at = IF op = "close" THEN "demonstrate" ELSE "read"]
        /\ UNCHANGED <<record, last, faults>>

(* Only what differs from the read is sent, and the status of a            *)
(* completion; the call asked for its own note or record, and for the      *)
(* other values.                                                           *)
SendsChange(c, change, locked, then) ==
    LET now == record.fields
        sent == [f \in {g \in DOMAIN change :
                          change[g] # now[g] \/ (g = "status" /\ call[c].op = "complete")}
                    |-> change[f]]
        asked == [f \in DOMAIN sent |->
                    IF f \in Texts THEN sent[f] \ now[f] ELSE sent[f]] IN
    /\ IF sent = Nothing THEN Goes(c, then)
       ELSE Sends(c, sent, asked, then, IF locked THEN "patch" ELSE "unlocked")
    /\ UNCHANGED <<record, last, faults>>

Read(c) ==
    \E change \in Changes(c, call[c].op, record.fields) :
        call[c].at = "read" /\ SendsChange(c, change, SendsLock(call[c].op), "answered")

CloseStep(c) ==
    \E step \in DOMAIN After :
        \E change \in CloseChanges(step, record.fields) :
            /\ call[c].at = step
            /\ SendsChange(c, change, step = "closing", After[step])

(* The closing text is composed with one read of the description ...       *)
Compose(c) ==
    /\ call[c].at = "compose"
    /\ call' = [call EXCEPT ![c].saw = record.fields, ![c].at = "finish"]
    /\ UNCHANGED <<record, last, faults>>

(* ... and sent, as the whole description, with the lock version of the    *)
(* next.                                                                   *)
Finish(c) ==
    /\ call[c].at = "finish"
    /\ record.fields.phase = "Closing" /\ Closable(record.fields)
    /\ call' = [call EXCEPT ![c].patch = Both([status |-> "done"], Noted(c, call[c].saw)),
                            ![c].asked = [status |-> "done", notes |-> {c}],
                            ![c].lock = record.lock, ![c].then = "answered",
                            ![c].at = "patch"]
    /\ UNCHANGED <<record, last, faults>>

(* The answer arrives, or is lost and the operation fails.                 *)
Patch(c) ==
    \E at \in {call[c].then, "refused"} :
        Applies(c, at, ~SendsLock(call[c].op) \/ call[c].op = "close", Texts)

Conflict(c) == Replays(call[c].op) /\ Conflicts(c, TRUE)

(* A projection whose PATCH was refused reads again, once.                 *)
Rebuild(c) ==
    /\ ~Replays(call[c].op) /\ call[c].at = "patch" /\ call[c].lock # record.lock
    /\ IF call[c].retried THEN Goes(c, "refused")
       ELSE call' = [call EXCEPT ![c].retried = TRUE, ![c].at = "read"]
    /\ UNCHANGED <<record, last, faults>>

Init == \E kind \in {"Epic", "item"} : WpInit(Fields(kind))

Next ==
    \E c \in Calls :
        \/ Begin(c) \/ Read(c) \/ CloseStep(c) \/ Compose(c) \/ Finish(c) \/ TakeLock(c)
        \/ Patch(c) \/ Conflict(c) \/ Rebuild(c) \/ Rereads(c) \/ Fails(c)

Spec == Init /\ [][Next]_wpVars

IsProjection(c) == call[c].op = "project" /\ call'[c].at # call[c].at

NotesStay == record.fields.notes \subseteq record'.fields.notes

(* Projecting an evidence reference takes nothing out of the description,  *)
(* whatever was written to it between the read and the PATCH.              *)
ProjectionOnlyAdds == [][\A c \in Calls : IsProjection(c) => NotesStay]_wpVars

=============================================================================

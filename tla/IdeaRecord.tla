----------------------------- MODULE IdeaRecord -----------------------------
(***************************************************************************)
(* An idea: triage, evaluation, decision, consumption into a Delivery and  *)
(* closeout (idea-service.js over openproject-client.js).  The service     *)
(* reads the idea to check its status, the client reads it again to build  *)
(* the PATCH.  The four texts of an idea are sections of one description,  *)
(* which every call rebuilds; the text of a call is the call itself.       *)
(***************************************************************************)
EXTENDS WorkPackage

CONSTANTS Deliveries    \* the Epics that OpenProject may create

VARIABLE epics          \* epic -> absent, open or done: all name this idea

vars == <<wpVars, epics>>

Text == [triage |-> "none", evaluation |-> "none", decision |-> "none",
         closeout |-> "none"]

Fields == [status |-> "captured", ref |-> "none", triage |-> "none",
           evaluation |-> "none", decision |-> "none", closeout |-> "none"]

Existing == {d \in Deliveries : epics[d] # "absent"}

(* park stands for both decisions that set an idea aside: parked, rejected. *)
Ops == {"triage", "evaluate", "accept", "park", "consume", "close"}

(* The statuses from which the service starts an operation.                *)
TriageFrom == {"captured", "triaged"}
DecideFrom == {"triaged", "parked", "accepted"}
ConsumeFrom == {"accepted"}
CloseoutFrom == {"accepted", "implemented"}
EvaluateFrom == {"captured", "triaged", "parked", "accepted", "implemented"}

StartsFrom(op) ==
    CASE op = "triage"            -> TriageFrom
      [] op \in {"accept", "park"} -> DecideFrom
      [] op = "consume"           -> ConsumeFrom
      [] op = "close"             -> CloseoutFrom
      [] OTHER -> EvaluateFrom

Begin(c) ==
    \E op \in Ops :
        /\ call[c].at = "idle"
        /\ record.fields.status \in StartsFrom(op)
        /\ op = "close" => record.fields.ref # "none"
        /\ call' = [call EXCEPT ![c].op = op, ![c].saw = record.fields,
                                ![c].at = IF op = "consume" THEN "lookup" ELSE "read"]
        /\ UNCHANGED <<record, last, faults, epics>>

(* The section that an operation writes, and the status it sets.           *)
Triaged(c) == [triage |-> c, status |-> "triaged"]
Evaluated(c) == [evaluation |-> c]
Decided(c, status) == [decision |-> c, status |-> status]
ClosedOut(c) == [closeout |-> c, status |-> "implemented"]

Asked(c) ==
    LET op == call[c].op IN
    CASE op = "triage" -> Triaged(c) [] op = "evaluate" -> Evaluated(c)
      [] op = "accept" -> Decided(c, "accepted") [] op = "park" -> Decided(c, "parked")
      [] OTHER -> ClosedOut(c)

(* The description rebuilt from what the service had read.                 *)
ReadWithEarlierTexts(c) ==
    /\ call[c].at = "read"
    /\ call[c].op = "close" =>
          record.fields.status = "accepted" /\ epics[record.fields.ref] = "done"
    /\ Sends(c, Both(Asked(c), [f \in DOMAIN Text |-> call[c].saw[f]]), Asked(c), "answered", "patch")
    /\ UNCHANGED <<record, last, faults, epics>>

(* The client's read: the whole description is rebuilt from it.            *)
Read(c) ==
    /\ call[c].at = "read"
    /\ call[c].op = "close" =>
          record.fields.status = "accepted" /\ epics[record.fields.ref] = "done"
    /\ Sends(c, Both(Asked(c), [f \in DOMAIN Text |-> record.fields[f]]), Asked(c), "answered", "patch")
    /\ UNCHANGED <<record, last, faults, epics>>

(* A closeout of an implemented idea is answered as a repetition; of an    *)
(* idea in another status, or with an open Delivery, it is refused.        *)
NotClosed(c) ==
    /\ call[c].at = "read" /\ call[c].op = "close"
    /\ record.fields.status # "accepted" \/ epics[record.fields.ref] # "done"
    /\ Goes(c, IF record.fields.status = "implemented" /\ epics[record.fields.ref] = "done"
               THEN "answered" ELSE "refused")
    /\ UNCHANGED <<record, last, faults, epics>>

KnownByReference(c) == {call[c].saw.ref} \ {"none"}

(* A consumption uses the Delivery that the idea names, or the one that    *)
(* names the idea, and creates one when there is none.                     *)
Known(c) == IF call[c].saw.ref # "none" THEN {call[c].saw.ref} ELSE Existing

Lookup(c) ==
    /\ call[c].at = "lookup" /\ Known(c) = {}
    /\ Goes(c, "create")
    /\ UNCHANGED <<record, last, faults, epics>>

Found(c) ==
    \E d \in Deliveries :
        /\ call[c].at = "lookup" /\ Known(c) = {d}
        /\ IF call[c].saw.ref = d THEN Goes(c, "answered")
           ELSE call' = [call EXCEPT ![c].asked = [ref |-> d], ![c].at = "link"]
        /\ UNCHANGED <<record, last, faults, epics>>

(* The create is not repeated; its answer may be lost.                     *)
Create(c) ==
    \E d \in Deliveries \ Existing, answered \in BOOLEAN :
        /\ call[c].at = "create"
        /\ epics' = [epics EXCEPT ![d] = "open"]
        /\ faults' = [faults EXCEPT
                         !.overlapped = @ \/ \E e \in Calls \ {c} : call[e].at = "create"]
        /\ IF answered THEN call' = [call EXCEPT ![c].asked = [ref |-> d], ![c].at = "link"]
           ELSE Goes(c, "refused")
        /\ UNCHANGED <<record, last>>

(* The reference is set with the lock version of a read of its own.        *)
Link(c) ==
    /\ call[c].at = "link"
    /\ Sends(c, call[c].asked, call[c].asked, "answered", "patch")
    /\ UNCHANGED <<record, last, faults, epics>>

(* The answer to the PATCH may be lost; that of a link is looked up, and   *)
(* found when the idea names the Delivery.                                 *)
Patch(c) ==
    \E at \in {"answered", "lost"} :
        Applies(c, at, FALSE, {}) /\ UNCHANGED epics

LookAgain(c) ==
    /\ call[c].at = "lost"
    /\ Goes(c, IF call[c].op = "consume" /\ record.fields.ref = call[c].patch.ref
               THEN "answered" ELSE "refused")
    /\ UNCHANGED <<record, last, faults, epics>>

Conflict(c) == Conflicts(c, TRUE) /\ UNCHANGED epics

Reread(c) == Rereads(c) /\ UNCHANGED epics

Fail(c) == Fails(c) /\ UNCHANGED epics

(* External: the Delivery's own workflow finishes it.                      *)
DeliveryEnds ==
    \E d \in Existing :
        epics[d] = "open" /\ epics' = [epics EXCEPT ![d] = "done"] /\ UNCHANGED wpVars

(* An idea as it was captured, or already accepted.                        *)
Accepted == [Fields EXCEPT !.status = "accepted", !.triage = "earlier",
                           !.decision = "earlier"]

Init == (WpInit(Fields) \/ WpInit(Accepted)) /\ epics = [d \in Deliveries |-> "absent"]

Next ==
    \/ \E c \in Calls :
          \/ Begin(c) \/ Read(c) \/ NotClosed(c) \/ Lookup(c) \/ Found(c) \/ Create(c) \/ Link(c)
          \/ Patch(c) \/ LookAgain(c) \/ Conflict(c) \/ Reread(c) \/ Fail(c)
    \/ DeliveryEnds

Spec == Init /\ [][Next]_vars

(* However often the consumption of an idea is repeated, after a lost      *)
(* answer, a failure or a conflict, it has one Delivery: unless two        *)
(* consumptions were about to create one at the same time.                 *)
OneDelivery == ~faults.overlapped => \A d, e \in Existing : d = e
=============================================================================

---------------------------- MODULE WorkPackage ----------------------------
(***************************************************************************)
(* One OpenProject work package and the calls that change it, as far as    *)
(* ideas and delivery items share it: a call reads the work package,       *)
(* builds a PATCH from what it read and sends it with the lock version of  *)
(* that read.  OpenProject refuses a PATCH whose lock version is old; the  *)
(* client then reads the lock version again and sends the same PATCH once  *)
(* more (patchWorkPackagePayload).  Values of set type are notes that a    *)
(* PATCH extends; the others are replaced.                                 *)
(***************************************************************************)
EXTENDS Naturals

CONSTANTS
    Calls,      \* the calls, each of one operation
    MaxLock     \* bound: the lock version that a behaviour may reach

VARIABLES
    record,     \* the work package: its lock version and its fields
    call,       \* call -> operation, place, what it read, sends and does then
    last,       \* history: field -> what the changes of it amount to
    faults      \* history: what a call did to another's change

wpVars == <<record, call, last, faults>>

Nothing == [f \in {} |-> {}]

Idle ==
    [op |-> "none", at |-> "idle", saw |-> Nothing, patch |-> Nothing,
     asked |-> Nothing, lock |-> 0, retried |-> FALSE,
     then |-> "answered"]

WpInit(fields) ==
    /\ record = [lock |-> 0, fields |-> fields]
    /\ call = [c \in Calls |-> Idle]
    /\ last = fields
    /\ faults = [replayed |-> FALSE, unlocked |-> FALSE, overlapped |-> FALSE]

Ended == {"answered", "refused"}

(* A call that has ended keeps nothing; what it was told is not kept       *)
(* either.                                                                 *)
Goes(c, at) ==
    call' = [call EXCEPT ![c] =
                IF at \in Ended THEN [Idle EXCEPT !.at = "ended"]
                ELSE [@ EXCEPT !.at = at, !.retried = FALSE]]

Refused(c) == Goes(c, "refused") /\ UNCHANGED <<record, last, faults>>

(* A call may fail at any read: the network, or a check of the form.       *)
Fails(c) == call[c].at \notin {"idle", "ended"} /\ Refused(c)

(* The PATCH is built from one read, with or without its lock version.     *)
Sends(c, patch, asked, then, at) ==
    call' = [call EXCEPT ![c].saw = record.fields, ![c].lock = record.lock,
                         ![c].patch = patch, ![c].asked = asked,
                         ![c].then = then, ![c].at = at]

(* A PATCH without a lock version takes the one that is current.           *)
TakeLock(c) ==
    /\ call[c].at = "unlocked"
    /\ call' = [call EXCEPT ![c].lock = record.lock, ![c].at = "patch"]
    /\ UNCHANGED <<record, last, faults>>

(* Two records as one: a field of both is as in the first.                 *)
Both(new, old) ==
    [f \in DOMAIN new \cup DOMAIN old |-> IF f \in DOMAIN new THEN new[f] ELSE old[f]]

Over(new, old) == [f \in DOMAIN old |-> IF f \in DOMAIN new THEN new[f] ELSE old[f]]

(* OpenProject applies the PATCH; the call goes on at a place.  The        *)
(* history notes a change that is built from an old read.                  *)
Applies(c, at, unlocked, texts) ==
    LET my == call[c]
        stale == my.saw # record.fields IN
    /\ my.at = "patch" /\ my.lock = record.lock /\ record.lock < MaxLock
    /\ record' = [lock |-> record.lock + 1, fields |-> Over(my.patch, record.fields)]
    /\ last' = [f \in DOMAIN last |->
                   IF f \notin DOMAIN my.asked THEN last[f]
                   ELSE IF f \in texts THEN last[f] \cup my.asked[f] ELSE my.asked[f]]
    /\ faults' = [faults EXCEPT !.replayed = @ \/ (stale /\ my.retried),
                                !.unlocked = @ \/ (stale /\ unlocked)]
    /\ Goes(c, at)

(* The one replay of a PATCH that was refused as stale.                    *)
Conflicts(c, replays) ==
    /\ call[c].at = "patch" /\ call[c].lock # record.lock
    /\ Goes(c, IF ~call[c].retried /\ replays THEN "reread" ELSE "refused")
    /\ UNCHANGED <<record, last, faults>>

Rereads(c) ==
    /\ call[c].at = "reread"
    /\ call' = [call EXCEPT ![c].lock = record.lock, ![c].retried = TRUE,
                            ![c].at = "patch"]
    /\ UNCHANGED <<record, last, faults>>

(* Every field holds what the calls that addressed it asked for: a call    *)
(* that rewrites more than it was asked to change (an idea's description   *)
(* is one text, rebuilt from what was read) undoes no change of another,   *)
(* unless it replayed a refused PATCH or sent one without a lock version.  *)
NoUpdateIsLost ==
    ~faults.replayed /\ ~faults.unlocked => record.fields = last
=============================================================================

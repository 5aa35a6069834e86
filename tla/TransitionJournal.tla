------------------------- MODULE TransitionJournal -------------------------
(***************************************************************************)
(* The journal file of the lifecycle transitions: every create and append  *)
(* is a transaction that locks the journal, reads it whole, changes the    *)
(* copy and writes it whole.  The lock is held by a flock child of its     *)
(* own, which may die before the transaction ends.                         *)
(*                                                                         *)
(* What an event means is LifecycleTransition; here it is an identity at a *)
(* position.                                                               *)
(***************************************************************************)
EXTENDS Naturals, Sequences, FiniteSets

CONSTANTS Calls,        \* concurrent requests
          Requests,     \* [id, key, content] of creations
          Events        \* event ids of appends, for any transition

VARIABLES journal,      \* [records, keys] of journal.json
          lock,         \* the call whose flock child holds the lock file
          call,         \* per call: how far its transaction is
          acked,        \* events a caller was told are recorded
          overran       \* a transaction wrote after it had lost its lock

vars == <<journal, lock, call, acked, overran>>

None == "none"
Ids == {r.id : r \in Requests}
Keys == {r.key : r \in Requests}
NoRequest == [id |-> None, key |-> None, content |-> None]

(* A stored transition: the request it is bound to and its events, of      *)
(* which the creation is number 0.                                         *)
NoRecord == [request |-> NoRequest, events |-> << >>]
Empty == [records |-> [i \in Ids |-> NoRecord], keys |-> [k \in Keys |-> None]]

Stored(data, i) == data.records[i].request # NoRequest
IsEvent(data, i, n, e) == n \in DOMAIN data.records[i].events /\ data.records[i].events[n] = e

Submission(op, request, id, event, expected) ==
    [op |-> op, request |-> request, id |-> id, event |-> event, expected |-> expected]
NoSubmission == Submission(None, NoRequest, None, None, 0)

(* live: what the call knows of its lock.                                  *)
NoCall == [at |-> "idle", sub |-> NoSubmission, live |-> FALSE, data |-> Empty]

-----------------------------------------------------------------------------
(* What the operation of a transaction makes of the data it read.          *)

(* put, for a record whose idempotency key is free or its own.             *)
Put(data, i, rec) ==
    [records |-> [data.records EXCEPT ![i] = rec],
     keys |-> [data.keys EXCEPT ![rec.request.key] = i]]

(* The idempotency key is bound to this very request.                      *)
Bound(data, r) ==
    data.keys[r.key] # None /\ data.records[data.keys[r.key]].request = r

(* A creation replays the request its key is bound to, or is new; an event *)
(* is replayed, or must expect the current sequence.                       *)
Admits(data, s) ==
    IF s.op = "create"
    THEN data.keys[s.request.key] = None \/ Bound(data, s.request)
    ELSE /\ Stored(data, s.id)
         /\ \/ \E n \in DOMAIN data.records[s.id].events : IsEvent(data, s.id, n, s.event)
            \/ s.expected = Len(data.records[s.id].events)

Replays(data, s) ==
    IF s.op = "create" THEN Bound(data, s.request)
    ELSE \E n \in DOMAIN data.records[s.id].events : IsEvent(data, s.id, n, s.event)

Operate(data, s) ==
    IF Replays(data, s) THEN data
    ELSE IF s.op = "create" THEN Put(data, s.request.id, [request |-> s.request,
                                                          events |-> << >>])
    ELSE Put(data, s.id, [data.records[s.id] EXCEPT !.events = Append(@, s.event)])

-----------------------------------------------------------------------------
Init == /\ journal = Empty /\ lock = None
        /\ call = [c \in Calls |-> NoCall]
        /\ acked = {} /\ overran = FALSE

(* acquire, which fails at once when the lock is held, and the read.       *)
Begin(c, s) ==
    /\ call[c].at = "idle" /\ lock = None
    /\ lock' = c
    /\ call' = [call EXCEPT ![c] = [at |-> "loaded", sub |-> s, live |-> TRUE,
                                    data |-> journal]]
    /\ UNCHANGED <<journal, acked, overran>>

(* Mutant: the lock is not tested again.                                   *)
TransactBlindly(c) ==
    /\ call[c].at = "loaded"
    /\ IF Admits(call[c].data, call[c].sub)
       THEN /\ call' = [call EXCEPT ![c].at = "saving",
                                    ![c].data = Operate(@, call[c].sub)]
            /\ UNCHANGED lock
       ELSE /\ call' = [call EXCEPT ![c] = NoCall]
            /\ lock' = IF lock = c THEN None ELSE lock
    /\ UNCHANGED <<journal, acked, overran>>

(* The operation and the tests of the lock before and after it.  A replay  *)
(* goes on to write what it read.                                          *)
Transact(c) ==
    /\ call[c].at = "loaded"
    /\ IF call[c].live /\ Admits(call[c].data, call[c].sub)
       THEN /\ call' = [call EXCEPT ![c].at = "saving",
                                    ![c].data = Operate(@, call[c].sub)]
            /\ UNCHANGED lock
       ELSE /\ call' = [call EXCEPT ![c] = NoCall]
            /\ lock' = IF lock = c THEN None ELSE lock
    /\ UNCHANGED <<journal, acked, overran>>

(* The rename of the written copy ...                                      *)
Save(c) ==
    /\ call[c].at = "saving"
    /\ journal' = call[c].data
    /\ overran' = (overran \/ (lock # c /\ call[c].live))
    /\ call' = [call EXCEPT ![c].at = "saved", ![c].data = Empty]
    /\ UNCHANGED <<lock, acked>>

(* ... or a write that fails, and with it the request.                     *)
SaveFails(c) ==
    /\ call[c].at \in {"saving", "saved"}
    /\ call' = [call EXCEPT ![c] = NoCall]
    /\ lock' = IF lock = c THEN None ELSE lock
    /\ UNCHANGED <<journal, acked, overran>>

(* The lock is released and the caller is told.                            *)
Answer(c) ==
    LET s == call[c].sub IN
    /\ call[c].at = "saved"
    /\ acked' = IF s.op = "append" THEN acked \cup {[id |-> s.id, event |-> s.event]}
                                   ELSE acked
    /\ lock' = IF lock = c THEN None ELSE lock
    /\ call' = [call EXCEPT ![c] = NoCall]
    /\ UNCHANGED <<journal, overran>>

(* The flock child dies; the process may notice before it tests the lock.  *)
LockDies(c) ==
    /\ lock = c /\ lock' = None
    /\ UNCHANGED <<journal, call, acked, overran>>

NoticeLockDied(c) ==
    /\ call[c].at = "loaded" /\ call[c].live /\ lock # c
    /\ call' = [call EXCEPT ![c].live = FALSE]
    /\ UNCHANGED <<journal, lock, acked, overran>>

(* The service stops, and with its pipes the flock children.               *)
Stop ==
    /\ \E c \in Calls : call[c].at # "idle"
    /\ call' = [c \in Calls |-> NoCall] /\ lock' = None
    /\ UNCHANGED <<journal, acked, overran>>

Submissions ==
    {Submission("create", r, None, None, 0) : r \in Requests}
    \cup {Submission("append", NoRequest, i, e, n) :
             i \in Ids, e \in Events, n \in 0..Cardinality(Events) - 1}

Next == \/ Stop
        \/ \E c \in Calls : \/ \E s \in Submissions : Begin(c, s)
                            \/ Transact(c) \/ Save(c) \/ SaveFails(c) \/ Answer(c)
                            \/ LockDies(c) \/ NoticeLockDied(c)

Spec == Init /\ [][Next]_vars
-----------------------------------------------------------------------------
(* An event its writer was told is recorded stays, across stops, failed    *)
(* writes and other writers, unless a transaction wrote after it had lost  *)
(* its lock.                                                               *)
AcknowledgedEventsSurvive ==
    ~overran => \A a \in acked :
        \E n \in DOMAIN journal.records[a.id].events : IsEvent(journal, a.id, n, a.event)

=============================================================================

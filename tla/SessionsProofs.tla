--------------------------- MODULE SessionsProofs ---------------------------
(***************************************************************************)
(* Proofs about what the service and its commands keep in files: the       *)
(* journal of transitions, the saved work of a browser, the commands of a  *)
(* work session and its cleanup, for any number of calls, requests, tabs,  *)
(* processes and commits.                                                  *)
(*                                                                         *)
(* Each part has the inductive invariant of one component, whose variables *)
(* MCSessions shares; the last part lifts them to the specification of the *)
(* run, in which a behaviour is about one component.                       *)
(***************************************************************************)
EXTENDS MCSessions, Sequences, TLAPS

-----------------------------------------------------------------------------
(* The journal of transitions.                                             *)

Ids == Journal!Ids
Keys == Journal!Keys

Transitions == [request : Requests \cup {Journal!NoRequest}, events : Seq(Events)]
JournalFiles == [records : [Ids -> Transitions], keys : [Keys -> Ids \cup {"none"}]]

(* A stored transition has its own id and its key leads to it; one that is *)
(* not stored has no events.                                               *)
Bound(data) ==
    \A i \in Ids :
        IF Journal!Stored(data, i)
        THEN /\ data.records[i].request.id = i
             /\ data.keys[data.records[i].request.key] = i
        ELSE data.records[i].events = << >>

Has(data, i, e) ==
    \E n \in DOMAIN data.records[i].events : Journal!IsEvent(data, i, n, e)

(* Every event of one file is in the other.                                *)
Extends(new, old) == \A i \in Ids, e \in Events : Has(old, i, e) => Has(new, i, e)

JournalCalls ==
    [at : {"idle", "loaded", "saving", "saved"},
     sub : Journal!Submissions \cup {Journal!NoSubmission},
     live : BOOLEAN, data : JournalFiles]

JournalTypeOK ==
    /\ journal \in JournalFiles
    /\ call \in [Writers -> JournalCalls]
    /\ acked \in SUBSET [id : Ids, event : Events]
    /\ overran \in BOOLEAN
    /\ \A c \in Writers : call[c].at # "idle" => call[c].sub \in Journal!Submissions

FilesAreBound == Bound(journal) /\ \A c \in Writers : Bound(call[c].data)

(* As long as every transaction kept its lock: a call that has it read     *)
(* what the journal still holds, and writes all of it.                     *)
HolderKnowsTheJournal ==
    \A c \in Writers : lock = c /\ ~overran =>
        /\ call[c].at = "loaded" /\ call[c].live => call[c].data = journal
        /\ call[c].at = "saving" => Extends(call[c].data, journal)

Made(k, found, over) == k.sub.op = "append" =>
    /\ k.at = "saving" => Has(k.data, k.sub.id, k.sub.event)
    /\ k.at = "saved" /\ ~over => Has(found, k.sub.id, k.sub.event)

AppendsAreMade == \A c \in Writers : Made(call[c], journal, overran)

SavingIsLive == \A c \in Writers : call[c].at = "saving" => call[c].live

JournalInv ==
    /\ JournalTypeOK /\ FilesAreBound
    /\ SavingIsLive /\ HolderKnowsTheJournal /\ AppendsAreMade
    /\ Journal!AcknowledgedEventsSurvive
-----------------------------------------------------------------------------
(* A creation is admitted or replayed as its key says; what it makes of a  *)
(* file keeps every event.                                                 *)
LEMMA CreateKeepsEvents ==
    ASSUME NEW d \in JournalFiles, Bound(d),
           NEW s \in Journal!Submissions, s.op = "create",
           Journal!Admits(d, s)
    PROVE  /\ Journal!Operate(d, s) \in JournalFiles
           /\ Bound(Journal!Operate(d, s))
           /\ Extends(Journal!Operate(d, s), d)
  <1> DEFINE r == s.request
             fresh == [request |-> r, events |-> << >>]
             n == [records |-> [d.records EXCEPT ![r.id] = fresh],
                   keys |-> [d.keys EXCEPT ![r.key] = r.id]]
  <1>1. r \in Requests /\ r.id \in Ids /\ r.key \in Keys
    BY DEF Journal!Submissions, Journal!Submission, Ids, Keys, Journal!Ids, Journal!Keys
  <1>2. CASE Journal!Replays(d, s)
    BY <1>2 DEF Journal!Operate, Extends
  <1>3. CASE ~Journal!Replays(d, s)
    <2>1. d.keys[r.key] = "none"
      BY <1>3 DEF Journal!Admits, Journal!Replays, Journal!None
    <2>2. Journal!Operate(d, s) = n
      BY <1>3 DEF Journal!Operate, Journal!Put
    <2>3. fresh \in Transitions /\ r.id # "none" /\ r # Journal!NoRequest
      BY <1>1, JournalAssumption
      DEF Transitions, Ids, Journal!Ids, Journal!NoRequest, Journal!None
    <2>4. n \in JournalFiles
      BY <1>1, <2>3 DEF JournalFiles
    <2>5. d.records[r.id].events = << >>
      <3> SUFFICES ASSUME Journal!Stored(d, r.id) PROVE FALSE
        BY <1>1 DEF Bound
      <3>1. d.records[r.id].request \in Requests
        BY <1>1 DEF Journal!Stored, JournalFiles, Transitions
      <3>2. /\ d.records[r.id].request.id = r.id
            /\ d.keys[d.records[r.id].request.key] = r.id
        BY <1>1 DEF Bound
      <3>3. d.records[r.id].request.key = r.key
        BY <3>1, <3>2, <1>1, JournalAssumption
      <3> QED
        BY <3>2, <3>3, <2>1, <2>3
    <2>6. Extends(n, d)
      BY <1>1, <2>5 DEF Extends, Has, Journal!IsEvent, JournalFiles
    <2>7. Bound(n)
      <3> SUFFICES ASSUME NEW i \in Ids
                   PROVE  IF Journal!Stored(n, i)
                          THEN /\ n.records[i].request.id = i
                               /\ n.keys[n.records[i].request.key] = i
                          ELSE n.records[i].events = << >>
        BY DEF Bound
      <3>1. CASE i = r.id
        BY <3>1, <1>1, <2>3 DEF JournalFiles, Journal!Stored
      <3>2. CASE i # r.id
        <4>1. n.records[i] = d.records[i]
          BY <3>2, <1>1 DEF JournalFiles
        <4>2. CASE Journal!Stored(d, i)
          <5>1. d.records[i].request \in Requests
            BY <4>2 DEF Journal!Stored, JournalFiles, Transitions
          <5>2. d.keys[d.records[i].request.key] = i /\ d.records[i].request.id = i
            BY <4>2 DEF Bound
          <5>3. i # "none"
            BY JournalAssumption DEF Ids, Journal!Ids
          <5>4. d.records[i].request.key # r.key
            BY <5>2, <5>3, <2>1
          <5>5. n.keys[d.records[i].request.key] = d.keys[d.records[i].request.key]
            BY <5>4, <5>1, <1>1 DEF JournalFiles, Keys, Journal!Keys
          <5> QED
            BY <4>1, <4>2, <5>2, <5>5 DEF Journal!Stored
        <4>3. CASE ~Journal!Stored(d, i)
          BY <4>1, <4>3 DEF Bound, Journal!Stored
        <4> QED
          BY <4>2, <4>3
      <3> QED
        BY <3>1, <3>2
    <2> QED
      BY <2>2, <2>4, <2>6, <2>7
  <1> QED
    BY <1>2, <1>3

(* What an appended sequence holds.                                        *)
LEMMA Appended ==
    ASSUME NEW S, NEW q \in Seq(S), NEW e \in S
    PROVE  /\ Append(q, e) \in Seq(S)
           /\ Len(q) \in Nat /\ DOMAIN q = 1..Len(q)
           /\ DOMAIN Append(q, e) = 1..Len(q) + 1
           /\ Append(q, e)[Len(q) + 1] = e
           /\ \A k \in 1..Len(q) : Append(q, e)[k] = q[k]
  OBVIOUS

(* An append adds its event behind the others, unless it is there.         *)
LEMMA AppendKeepsEvents ==
    ASSUME NEW d \in JournalFiles, Bound(d),
           NEW s \in Journal!Submissions, s.op = "append",
           Journal!Admits(d, s)
    PROVE  /\ Journal!Operate(d, s) \in JournalFiles
           /\ Bound(Journal!Operate(d, s))
           /\ Extends(Journal!Operate(d, s), d)
           /\ Has(Journal!Operate(d, s), s.id, s.event)
  <1> DEFINE old == d.records[s.id]
             new == [old EXCEPT !.events = Append(@, s.event)]
             n == [records |-> [d.records EXCEPT ![s.id] = new],
                   keys |-> [d.keys EXCEPT ![new.request.key] = s.id]]
  <1>1. s.id \in Ids /\ s.event \in Events /\ s.op # "create"
    BY DEF Journal!Submissions, Journal!Submission, Ids
  <1>2. CASE Journal!Replays(d, s)
    BY <1>1, <1>2 DEF Journal!Operate, Journal!Replays, Extends, Has
  <1>3. CASE ~Journal!Replays(d, s)
    <2>1. Journal!Operate(d, s) = n
      BY <1>1, <1>3 DEF Journal!Operate, Journal!Put
    <2>2. Journal!Stored(d, s.id) /\ old \in Transitions
      BY <1>1 DEF Journal!Admits, JournalFiles
    <2>3. /\ old.request \in Requests /\ old.request.key \in Keys
          /\ old.request.id = s.id /\ d.keys[old.request.key] = s.id
      BY <1>1, <2>2
      DEF Bound, Journal!Stored, Transitions, Keys, Journal!Keys
    <2>4. /\ new = [request |-> old.request, events |-> Append(old.events, s.event)]
          /\ old.events \in Seq(Events)
          /\ new \in Transitions
      <3>1. /\ new = [request |-> old.request, events |-> Append(old.events, s.event)]
            /\ old.events \in Seq(Events)
            /\ old.request \in Requests \cup {Journal!NoRequest}
        <4> HIDE DEF old
        <4> QED
          BY <2>2 DEF Transitions
      <3>2. Append(old.events, s.event) \in Seq(Events)
        BY <1>1, <3>1, Appended
      <3> QED
        BY <3>1, <3>2 DEF Transitions
    <2>5. n = [records |-> [d.records EXCEPT ![s.id] = new], keys |-> d.keys]
      BY <2>3, <2>4 DEF JournalFiles
    <2>6. n \in JournalFiles
      BY <1>1, <2>4, <2>5 DEF JournalFiles
    <2>7. /\ n.records[s.id] = new
          /\ \A i \in Ids : i # s.id => n.records[i] = d.records[i]
      BY <1>1, <2>5 DEF JournalFiles
    <2>8. Bound(n)
      <3> SUFFICES ASSUME NEW i \in Ids
                   PROVE  IF Journal!Stored(n, i)
                          THEN /\ n.records[i].request.id = i
                               /\ n.keys[n.records[i].request.key] = i
                          ELSE n.records[i].events = << >>
        BY DEF Bound
      <3>1. n.keys = d.keys
        BY <2>5
      <3>2. CASE i = s.id
        <4>1. n.records[i].request = old.request
          BY <3>2, <2>4, <2>7
        <4> QED
          BY <4>1, <3>1, <3>2, <2>2, <2>3 DEF Journal!Stored
      <3>3. CASE i # s.id
        BY <3>1, <3>3, <2>7 DEF Bound, Journal!Stored
      <3> QED
        BY <3>2, <3>3
    <2>9. /\ DOMAIN old.events = 1..Len(old.events)
          /\ Len(old.events) \in Nat
          /\ DOMAIN new.events = 1..Len(old.events) + 1
          /\ new.events[Len(old.events) + 1] = s.event
          /\ \A k \in 1..Len(old.events) : new.events[k] = old.events[k]
      <3> HIDE DEF old, new
      <3>1. new.events = Append(old.events, s.event)
        BY <2>4
      <3> QED
        BY <1>1, <2>4, <3>1, Appended
    <2>10. Has(n, s.id, s.event)
      <3> HIDE DEF old, new, n
      <3> QED
        BY <2>7, <2>9 DEF Has, Journal!IsEvent
    <2>11. Extends(n, d)
      <3> SUFFICES ASSUME NEW i \in Ids, NEW e \in Events, Has(d, i, e)
                   PROVE  Has(n, i, e)
        BY DEF Extends
      <3>1. CASE i # s.id
        BY <3>1, <2>7 DEF Has, Journal!IsEvent
      <3>2. CASE i = s.id
        BY <3>2, <2>7, <2>9 DEF Has, Journal!IsEvent
      <3> QED
        BY <3>1, <3>2
    <2> QED
      BY <2>1, <2>6, <2>8, <2>10, <2>11
  <1> QED
    BY <1>2, <1>3

(* A new journal is well formed.                                           *)
LEMMA EmptyIsBound == Journal!Empty \in JournalFiles /\ Bound(Journal!Empty)
  <1>1. Journal!NoRecord \in Transitions
    BY DEF Journal!NoRecord, Transitions
  <1>2. Journal!Empty \in JournalFiles
    BY <1>1 DEF Journal!Empty, JournalFiles, Ids, Keys, Journal!None
  <1> QED
    BY <1>2 DEF Journal!Empty, Bound, Journal!Stored, Journal!NoRecord, Ids

(* The empty journal satisfies the invariant.                              *)
LEMMA JournalInit == Journal!Init => JournalInv
  <1> SUFFICES ASSUME Journal!Init PROVE JournalInv
    OBVIOUS
  <1> USE DEF Journal!Init
  <1>2. JournalTypeOK
    BY EmptyIsBound DEF JournalTypeOK, JournalCalls, Journal!NoCall
  <1> QED
    BY EmptyIsBound, <1>2
    DEF JournalInv, FilesAreBound, SavingIsLive, HolderKnowsTheJournal,
        AppendsAreMade, Made, Journal!NoCall, Journal!AcknowledgedEventsSurvive

(* A call that ends or a service that stops only forgets.                  *)
LEMMA CallEnds ==
    ASSUME JournalInv, NEW c \in Writers, UNCHANGED <<journal, overran>>,
           call' = [call EXCEPT ![c] = Journal!NoCall],
           lock' = (IF lock = c THEN "none" ELSE lock),
           acked' \in SUBSET [id : Ids, event : Events],
           \A a \in acked' \ acked : ~overran => Has(journal, a.id, a.event)
    PROVE  JournalInv'
  <1> USE DEF JournalInv
  <1>0. Journal!NoCall.at = "idle" /\ Journal!NoCall.data = Journal!Empty
    BY DEF Journal!NoCall
  <1>1. Journal!NoCall \in JournalCalls /\ Bound(Journal!NoCall.data)
    BY EmptyIsBound DEF Journal!NoCall, JournalCalls
  <1>2. /\ call'[c] = Journal!NoCall
        /\ \A d \in Writers : d # c => call'[d] = call[d]
    BY DEF JournalTypeOK
  <1>3. JournalTypeOK'
    BY <1>0, <1>1, <1>2 DEF JournalTypeOK
  <1>4. FilesAreBound'
    BY <1>1, <1>2 DEF FilesAreBound
  <1>5. SavingIsLive'
    BY <1>0, <1>2 DEF SavingIsLive
  <1>6. HolderKnowsTheJournal'
    BY <1>0, <1>2, JournalAssumption DEF HolderKnowsTheJournal
  <1>7. AppendsAreMade'
    BY <1>0, <1>2 DEF AppendsAreMade, Made
  <1>8. Journal!AcknowledgedEventsSurvive'
    BY DEF Journal!AcknowledgedEventsSurvive, Has
  <1> QED
    BY <1>3, <1>4, <1>5, <1>6, <1>7, <1>8

(* Every step of a transaction keeps the invariant.                        *)
LEMMA JournalStep == JournalInv /\ [Journal!Next]_Journal!vars => JournalInv'
  <1> SUFFICES ASSUME JournalInv, [Journal!Next]_Journal!vars PROVE JournalInv'
    OBVIOUS
  <1> USE DEF JournalInv
  <1>1. ASSUME NEW c \in Writers, NEW s \in Journal!Submissions, Journal!Begin(c, s)
        PROVE  JournalInv'
    <2> USE <1>1 DEF Journal!Begin
    <2>1. /\ call'[c] = [at |-> "loaded", sub |-> s, live |-> TRUE, data |-> journal]
          /\ \A d \in Writers : d # c => call'[d] = call[d]
      BY DEF JournalTypeOK
    <2>2. JournalTypeOK'
      BY <2>1 DEF JournalTypeOK, JournalCalls
    <2>3. FilesAreBound'
      BY <2>1 DEF FilesAreBound
    <2>4. SavingIsLive'
      BY <2>1 DEF SavingIsLive
    <2>5. HolderKnowsTheJournal'
      BY <2>1 DEF HolderKnowsTheJournal
    <2>6. AppendsAreMade'
      BY <2>1 DEF AppendsAreMade, Made
    <2>7. Journal!AcknowledgedEventsSurvive'
      BY DEF Journal!AcknowledgedEventsSurvive
    <2> QED
      BY <2>2, <2>3, <2>4, <2>5, <2>6, <2>7
  <1>2. ASSUME NEW c \in Writers, Journal!Transact(c) PROVE JournalInv'
    <2>1. CASE ~(call[c].live /\ Journal!Admits(call[c].data, call[c].sub))
      BY <1>2, <2>1, CallEnds DEF Journal!Transact, Journal!None, JournalTypeOK
    <2>2. CASE call[c].live /\ Journal!Admits(call[c].data, call[c].sub)
      <3> DEFINE d == call[c].data
                 s == call[c].sub
                 n == Journal!Operate(d, s)
      <3>1. /\ call[c].at = "loaded" /\ call[c].live
            /\ call' = [call EXCEPT ![c].at = "saving", ![c].data = n]
            /\ UNCHANGED <<lock, journal, acked, overran>>
        BY <1>2, <2>2 DEF Journal!Transact
      <3>2. d \in JournalFiles /\ Bound(d) /\ s \in Journal!Submissions
        BY <3>1 DEF JournalTypeOK, JournalCalls, FilesAreBound
      <3>3. s.op \in {"create", "append"}
        BY <3>2 DEF Journal!Submissions, Journal!Submission
      <3>4. /\ n \in JournalFiles /\ Bound(n) /\ Extends(n, d)
            /\ s.op = "append" => Has(n, s.id, s.event)
        BY <2>2, <3>2, <3>3, CreateKeepsEvents, AppendKeepsEvents
      <3> HIDE DEF n
      <3>5. /\ call'[c] = [call[c] EXCEPT !.at = "saving", !.data = n]
            /\ call'[c].at = "saving" /\ call'[c].data = n /\ call'[c].live
            /\ call'[c].sub = call[c].sub
            /\ call'[c] \in JournalCalls
            /\ \A e \in Writers : e # c => call'[e] = call[e]
        BY <3>1, <3>4 DEF JournalTypeOK, JournalCalls
      <3>6. JournalTypeOK'
        BY <3>1, <3>2, <3>5 DEF JournalTypeOK
      <3>7. FilesAreBound'
        BY <3>1, <3>4, <3>5 DEF FilesAreBound
      <3>8. SavingIsLive'
        BY <3>5 DEF SavingIsLive
      <3>9. HolderKnowsTheJournal'
        BY <3>1, <3>4, <3>5 DEF HolderKnowsTheJournal
      <3>10. AppendsAreMade'
        <4>1. Made(call'[c], journal, overran)
          BY <3>4, <3>5 DEF Made
        <4>2. \A e \in Writers : Made(call'[e], journal, overran)
          BY <3>5, <4>1 DEF AppendsAreMade
        <4> QED
          BY <3>1, <4>2 DEF AppendsAreMade
      <3>11. Journal!AcknowledgedEventsSurvive'
        BY <3>1 DEF Journal!AcknowledgedEventsSurvive
      <3> QED
        BY <3>6, <3>7, <3>8, <3>9, <3>10, <3>11
    <2> QED
      BY <2>1, <2>2
  <1>3. ASSUME NEW c \in Writers, Journal!Save(c) PROVE JournalInv'
    <2>1. /\ call[c].at = "saving" /\ call[c].live
          /\ journal' = call[c].data
          /\ overran' = (overran \/ lock # c)
          /\ UNCHANGED <<lock, acked>>
      BY <1>3 DEF Journal!Save, SavingIsLive
    <2>2. /\ call'[c].at = "saved" /\ call'[c].sub = call[c].sub
          /\ call'[c].data = Journal!Empty
          /\ call'[c] \in JournalCalls
          /\ \A d \in Writers : d # c => call'[d] = call[d]
      BY EmptyIsBound, <1>3 DEF Journal!Save, JournalTypeOK, JournalCalls
    <2>3. ~overran' => ~overran /\ lock = c /\ Extends(journal', journal)
      BY <2>1 DEF HolderKnowsTheJournal, JournalTypeOK
    <2>4. JournalTypeOK'
      BY <1>3, <2>1, <2>2 DEF Journal!Save, JournalTypeOK, JournalCalls
    <2>5. FilesAreBound'
      BY EmptyIsBound, <2>1, <2>2 DEF FilesAreBound
    <2>6. SavingIsLive'
      BY <2>2 DEF SavingIsLive
    <2>7. HolderKnowsTheJournal'
      BY <2>1, <2>2, <2>3 DEF HolderKnowsTheJournal
    <2>8. AppendsAreMade'
      <3> SUFFICES ASSUME NEW d \in Writers PROVE Made(call'[d], journal', overran')
        BY DEF AppendsAreMade
      <3>1. CASE d = c
        BY <3>1, <2>1, <2>2 DEF AppendsAreMade, Made
      <3>2. CASE d # c
        <4>1. call'[d] = call[d] /\ Made(call[d], journal, overran)
          BY <3>2, <2>2 DEF AppendsAreMade
        <4>2. call[d].at = "saved" /\ call[d].sub.op = "append" =>
                call[d].sub.id \in Ids /\ call[d].sub.event \in Events
          BY DEF JournalTypeOK, Journal!Submissions, Journal!Submission, Ids
        <4> QED
          BY <4>1, <4>2, <2>3 DEF Made, Extends
      <3> QED
        BY <3>1, <3>2
    <2>9. Journal!AcknowledgedEventsSurvive'
      BY <2>1, <2>3
      DEF Journal!AcknowledgedEventsSurvive, Extends, Has, JournalTypeOK
    <2> QED
      BY <2>4, <2>5, <2>6, <2>7, <2>8, <2>9
  <1>4. ASSUME NEW c \in Writers, Journal!SaveFails(c) PROVE JournalInv'
    BY <1>4, CallEnds DEF Journal!SaveFails, Journal!None, JournalTypeOK
  <1>5. ASSUME NEW c \in Writers, Journal!Answer(c) PROVE JournalInv'
    <2>1. call[c].sub \in Journal!Submissions /\ call[c].at = "saved"
      BY <1>5 DEF Journal!Answer, JournalTypeOK
    <2> DEFINE s == call[c].sub
               target == [id |-> s.id, event |-> s.event]
    <2>2. s.op = "append" => target \in [id : Ids, event : Events]
      BY <2>1 DEF Journal!Submissions, Journal!Submission, Ids
    <2>3. acked' = IF s.op = "append" THEN acked \cup {target} ELSE acked
      BY <1>5 DEF Journal!Answer
    <2>4. ~overran /\ s.op = "append" => Has(journal, target.id, target.event)
      BY <2>1 DEF AppendsAreMade, Made
    <2>5. acked' \in SUBSET [id : Ids, event : Events]
      BY <2>2, <2>3 DEF JournalTypeOK
    <2>6. \A a \in acked' \ acked : ~overran => Has(journal, a.id, a.event)
      BY <2>3, <2>4
    <2> QED
      BY <1>5, <2>5, <2>6, CallEnds DEF Journal!Answer, Journal!None
  <1>6. ASSUME NEW c \in Writers, Journal!LockDies(c) PROVE JournalInv'
    BY <1>6, JournalAssumption
    DEF Journal!LockDies, Journal!None, JournalTypeOK, FilesAreBound, SavingIsLive,
        HolderKnowsTheJournal, AppendsAreMade, Journal!AcknowledgedEventsSurvive
  <1>7. ASSUME NEW c \in Writers, Journal!NoticeLockDied(c) PROVE JournalInv'
    <2>1. /\ lock # c /\ call[c].at = "loaded"
          /\ UNCHANGED <<journal, lock, acked, overran>>
          /\ call'[c] = [call[c] EXCEPT !.live = FALSE]
          /\ \A d \in Writers : d # c => call'[d] = call[d]
      BY <1>7 DEF Journal!NoticeLockDied, JournalTypeOK
    <2>2. /\ call'[c].at = "loaded" /\ call'[c].data = call[c].data
          /\ call'[c].sub = call[c].sub /\ call'[c] \in JournalCalls
      BY <2>1 DEF JournalTypeOK, JournalCalls
    <2>3. JournalTypeOK'
      BY <1>7, <2>1, <2>2 DEF Journal!NoticeLockDied, JournalTypeOK
    <2>4. FilesAreBound'
      BY <2>1, <2>2 DEF FilesAreBound
    <2>5. SavingIsLive' /\ HolderKnowsTheJournal' /\ AppendsAreMade'
      BY <2>1, <2>2 DEF SavingIsLive, HolderKnowsTheJournal, AppendsAreMade, Made
    <2>6. Journal!AcknowledgedEventsSurvive'
      BY <2>1 DEF Journal!AcknowledgedEventsSurvive
    <2> QED
      BY <2>3, <2>4, <2>5, <2>6
  <1>8. ASSUME Journal!Stop PROVE JournalInv'
    <2>1. /\ call' = [c \in Writers |-> Journal!NoCall] /\ lock' = "none"
          /\ UNCHANGED <<journal, acked, overran>>
      BY <1>8 DEF Journal!Stop, Journal!None
    <2>2. \A c \in Writers : /\ call'[c].at = "idle" /\ call'[c].data = Journal!Empty
                             /\ call'[c] \in JournalCalls
      BY EmptyIsBound, <2>1 DEF Journal!NoCall, JournalCalls
    <2>3. JournalTypeOK'
      BY <2>1, <2>2 DEF JournalTypeOK
    <2>4. FilesAreBound'
      BY EmptyIsBound, <2>1, <2>2 DEF FilesAreBound
    <2>5. SavingIsLive' /\ HolderKnowsTheJournal' /\ AppendsAreMade'
      BY <2>2 DEF SavingIsLive, HolderKnowsTheJournal, AppendsAreMade, Made
    <2>6. Journal!AcknowledgedEventsSurvive'
      BY <2>1 DEF Journal!AcknowledgedEventsSurvive
    <2> QED
      BY <2>3, <2>4, <2>5, <2>6
  <1>9. CASE UNCHANGED Journal!vars
    BY <1>9
    DEF Journal!vars, JournalTypeOK, FilesAreBound, SavingIsLive,
        HolderKnowsTheJournal, AppendsAreMade, Journal!AcknowledgedEventsSurvive
  <1> QED
    BY <1>1, <1>2, <1>3, <1>4, <1>5, <1>6, <1>7, <1>8, <1>9 DEF Journal!Next

-----------------------------------------------------------------------------
(* The saved work of an operator and subject.                              *)

Saves == [by : Sessions \cup {"none"}, number : Nat, expected : Nat,
          content : Contents \cup {"none"}, briefs : SUBSET Briefs]
SavedRecords == [revision : Nat, command : Saves]
Tabs == [command : Saves, number : Nat, revision : Nat,
         content : Contents \cup {"none"}, briefs : SUBSET Briefs,
         told : SUBSET [revision : Nat, number : Nat]]

SavedTypeOK ==
    /\ current \in SavedRecords /\ previous \in SavedRecords
    /\ session \in [Sessions -> Tabs]
    /\ writing.record \in SavedRecords

(* What a tab submitted is its own.                                        *)
CommandsAreOwn ==
    \A s \in Sessions :
        session[s].command # Saved!NoCommand => session[s].command.by = s

(* Between the two writes of a save the record it replaces is kept, and    *)
(* the tab still waits for its answer.                                     *)
WriteIsPrepared ==
    writing.what = "current" =>
        /\ writing.by \in Sessions
        /\ writing.record.revision = current.revision + 1
        /\ writing.record.command.expected = current.revision
        /\ writing.record.command = session[writing.by].command
        /\ writing.record.command # Saved!NoCommand
        /\ current # Saved!NoRecord => previous = current

IndexingIsKept == writing.what = "index" => writing.original \in kept

FirstIsRevisionOne == current.revision = 0 => current = Saved!NoRecord

SavedInv ==
    /\ SavedTypeOK /\ CommandsAreOwn /\ WriteIsPrepared
    /\ IndexingIsKept /\ FirstIsRevisionOne
    /\ Saved!AcknowledgedSavesSurvive /\ Saved!RecoveryIsComplete

(* Nothing saved satisfies the invariant.                                  *)
LEMMA SavedInit == Saved!Init => SavedInv
  <1> SUFFICES ASSUME Saved!Init PROVE SavedInv
    OBVIOUS
  <1>1. Saved!NoCommand \in Saves
    BY DEF Saved!NoCommand, Saves, Saved!None
  <1>2. Saved!NoRecord \in SavedRecords
    BY <1>1 DEF Saved!NoRecord, SavedRecords
  <1>3. Saved!NewSession \in Tabs
    BY <1>1 DEF Saved!NewSession, Tabs, Saved!None
  <1>4. /\ current = Saved!NoRecord /\ previous = Saved!NoRecord
        /\ kept = {} /\ index = {} /\ writing = Saved!NotWriting
        /\ \A s \in Sessions : session[s] = Saved!NewSession
        /\ session \in [Sessions -> Tabs]
    BY <1>3 DEF Saved!Init
  <1>5. Saved!NoRecord.revision = 0
    BY DEF Saved!NoRecord
  <1>6. Saved!NotWriting.record = Saved!NoRecord /\ Saved!NotWriting.what = "none"
    BY DEF Saved!NotWriting, Saved!None
  <1>7. Saved!NewSession.told = {} /\ Saved!NewSession.command = Saved!NoCommand
    BY DEF Saved!NewSession
  <1>8. SavedTypeOK
    BY <1>2, <1>4, <1>6 DEF SavedTypeOK
  <1>9. CommandsAreOwn
    BY <1>4, <1>7 DEF CommandsAreOwn
  <1>10. WriteIsPrepared /\ IndexingIsKept /\ FirstIsRevisionOne
    BY <1>4, <1>6 DEF WriteIsPrepared, IndexingIsKept, FirstIsRevisionOne
  <1>11. Saved!AcknowledgedSavesSurvive
    BY <1>4, <1>5, <1>7 DEF Saved!AcknowledgedSavesSurvive
  <1>12. Saved!RecoveryIsComplete
    BY <1>4, <1>5 DEF Saved!RecoveryIsComplete
  <1> QED
    BY <1>8, <1>9, <1>10, <1>11, <1>12 DEF SavedInv

(* A tab that is told of the current revision is its saver.                *)
LEMMA ToldIsSaver ==
    ASSUME SavedInv, NEW s \in Sessions,
           session[s].command # Saved!NoCommand,
           current' \in SavedRecords, current'.command = session[s].command,
           \/ current' = current
           \/ current'.revision = current.revision + 1
              /\ current'.command.expected = current.revision,
           session' = Saved!Told(s, current'.revision)
    PROVE  /\ session' \in [Sessions -> Tabs]
           /\ CommandsAreOwn' /\ Saved!AcknowledgedSavesSurvive'
  <1> DEFINE t0 == [revision |-> current'.revision, number |-> session[s].command.number]
  <1>1. /\ session[s] \in Tabs /\ t0 \in [revision : Nat, number : Nat]
        /\ session[s].command \in Saves
    BY DEF SavedInv, SavedTypeOK, Tabs, Saves, SavedRecords
  <1>2. /\ session'[s] = [session[s] EXCEPT !.command = Saved!NoCommand,
                            !.revision = current'.revision,
                            !.content = session[s].command.content,
                            !.briefs = session[s].command.briefs,
                            !.told = @ \cup {t0}]
        /\ \A r \in Sessions \ {s} : session'[r] = session[r]
        /\ session' = [session EXCEPT ![s] = session'[s]]
    BY DEF SavedInv, SavedTypeOK, Saved!Told
  <1>3. Saved!NoCommand \in Saves
    BY DEF Saved!NoCommand, Saves, Saved!None
  <1>4. /\ session'[s] \in Tabs /\ session'[s].command = Saved!NoCommand
        /\ session'[s].told = session[s].told \cup {t0}
    <2> HIDE DEF t0
    <2>1. session'[s] = [command |-> Saved!NoCommand, number |-> session[s].number,
                         revision |-> current'.revision,
                         content |-> session[s].command.content,
                         briefs |-> session[s].command.briefs,
                         told |-> session[s].told \cup {t0}]
      BY <1>1, <1>2 DEF Tabs
    <2>2. /\ session[s].command.content \in Contents \cup {"none"}
          /\ session[s].command.briefs \in SUBSET Briefs
          /\ current'.revision \in Nat /\ session[s].number \in Nat
          /\ session[s].told \in SUBSET [revision : Nat, number : Nat]
      BY <1>1 DEF Tabs, Saves, SavedRecords
    <2> QED
      BY <1>1, <1>3, <2>1, <2>2 DEF Tabs
  <1>5. session' \in [Sessions -> Tabs]
    BY <1>2, <1>4 DEF SavedInv, SavedTypeOK
  <1>6. CommandsAreOwn'
    <2> SUFFICES ASSUME NEW r \in Sessions, session'[r].command # Saved!NoCommand
                 PROVE  session'[r].command.by = r
      BY DEF CommandsAreOwn
    <2>1. session'[r] = session[r]
      BY <1>2, <1>4
    <2> QED
      BY <2>1 DEF SavedInv, CommandsAreOwn
  <1>7. \A r \in Sessions : \A t \in session[r].told :
           /\ t \in [revision : Nat, number : Nat]
           /\ t.revision <= current.revision
           /\ t.revision = current.revision =>
                 current.command.by = r /\ current.command.number = t.number
           /\ \A q \in Sessions : \A u \in session[q].told :
                 t.revision = u.revision => q = r /\ t = u
    BY DEF SavedInv, SavedTypeOK, Tabs, Saved!AcknowledgedSavesSurvive
  <1>8. current'.command.by = s /\ current.revision \in Nat /\ current'.revision \in Nat
    BY DEF SavedInv, CommandsAreOwn, SavedTypeOK, SavedRecords
  <1>9. \A r \in Sessions : \A t \in session[r].told :
           t.revision = t0.revision => r = s /\ t = t0
    BY <1>1, <1>7, <1>8
  <1>10. \A r \in Sessions : \A t \in session'[r].told :
            t \in session[r].told \/ (r = s /\ t = t0)
    BY <1>2, <1>4
  <1>11. current'.revision > 0 => current'.command.expected = current'.revision - 1
    BY <1>8 DEF SavedInv, Saved!AcknowledgedSavesSurvive
  <1>12. ASSUME NEW r \in Sessions, NEW t \in session'[r].told
         PROVE  /\ t.revision <= current'.revision
                /\ t.revision = current'.revision =>
                      current'.command.by = r /\ current'.command.number = t.number
    BY <1>7, <1>8, <1>10, <1>12
  <1>13. ASSUME NEW r \in Sessions, NEW t \in session'[r].told,
                NEW q \in Sessions, NEW u \in session'[q].told,
                t.revision = u.revision
         PROVE  q = r /\ t = u
    BY <1>7, <1>9, <1>10, <1>13
  <1>14. Saved!AcknowledgedSavesSurvive'
    BY <1>11, <1>12, <1>13 DEF Saved!AcknowledgedSavesSurvive
  <1> QED
    BY <1>5, <1>6, <1>14

(* A tab that is told nothing, between two commands or between two writes. *)
LEMMA TabOnly ==
    ASSUME SavedInv, NEW s \in Sessions, NEW tab \in Tabs,
           session' = [session EXCEPT ![s] = tab],
           tab.told = session[s].told,
           tab.command # Saved!NoCommand => tab.command.by = s,
           writing = Saved!NotWriting \/ session[s].command = Saved!NoCommand,
           UNCHANGED <<current, previous, kept, index, writing>>
    PROVE  SavedInv'
  <1> USE DEF SavedInv
  <1>1. session'[s] = tab /\ \A r \in Sessions \ {s} : session'[r] = session[r]
    BY DEF SavedTypeOK
  <1>2. SavedTypeOK'
    BY <1>1 DEF SavedTypeOK
  <1>3. CommandsAreOwn'
    <2> SUFFICES ASSUME NEW r \in Sessions, session'[r].command # Saved!NoCommand
                 PROVE  session'[r].command.by = r
      BY DEF CommandsAreOwn
    <2> QED
      BY <1>1 DEF CommandsAreOwn
  <1>4. WriteIsPrepared' /\ IndexingIsKept' /\ FirstIsRevisionOne'
    <2>1. Saved!NotWriting.what = "none"
      BY DEF Saved!NotWriting, Saved!None
    <2>2. writing.what = "current" =>
             writing.by # s /\ session'[writing.by] = session[writing.by]
      BY <1>1, <2>1 DEF WriteIsPrepared
    <2> QED
      BY <2>2 DEF WriteIsPrepared, IndexingIsKept, FirstIsRevisionOne
  <1>5. \A r \in Sessions : session'[r].told = session[r].told
    BY <1>1
  <1>6. Saved!AcknowledgedSavesSurvive'
    BY <1>5 DEF Saved!AcknowledgedSavesSurvive
  <1>7. Saved!RecoveryIsComplete'
    BY DEF Saved!RecoveryIsComplete
  <1> QED
    BY <1>2, <1>3, <1>4, <1>6, <1>7

(* Every step of a tab or of the store keeps the invariant.                *)
LEMMA SavedStep == SavedInv /\ [Saved!Next]_Saved!vars => SavedInv'
  <1> SUFFICES ASSUME SavedInv, [Saved!Next]_Saved!vars PROVE SavedInv'
    OBVIOUS
  <1> USE DEF SavedInv
  <1>0. Saved!NoCommand \in Saves /\ Saved!NoRecord \in SavedRecords
    <2>1. Saved!NoCommand \in Saves
      BY DEF Saved!NoCommand, Saves, Saved!None
    <2> QED
      BY <2>1 DEF Saved!NoRecord, SavedRecords
  <1>a. Saved!NotWriting.record = Saved!NoRecord /\ Saved!NotWriting.what = "none"
    BY DEF Saved!NotWriting, Saved!None
  <1>1. ASSUME NEW s \in Sessions, Saved!Read(s) PROVE SavedInv'
    <2> DEFINE tab == [session[s] EXCEPT !.revision = current.revision,
                          !.content = current.command.content,
                          !.briefs = current.command.briefs]
    <2>1. /\ session' = [session EXCEPT ![s] = tab]
          /\ UNCHANGED <<current, previous, kept, index, writing>>
          /\ writing = Saved!NotWriting /\ session[s].command = Saved!NoCommand
      BY <1>1 DEF Saved!Read, Saved!Free, SavedTypeOK
    <2>2. /\ session[s] \in Tabs /\ current.revision \in Nat
          /\ current.command.content \in Contents \cup {"none"}
          /\ current.command.briefs \in SUBSET Briefs
      BY DEF SavedTypeOK, SavedRecords, Saves
    <2>3. /\ tab \in Tabs /\ tab.told = session[s].told
          /\ tab.command = session[s].command
      BY <2>2 DEF Tabs
    <2> HIDE DEF tab
    <2> QED
      BY <2>1, <2>3, TabOnly
  <1>2. ASSUME NEW s \in Sessions, Saved!Replay(s) PROVE SavedInv'
    <2>1. /\ session' = Saved!Told(s, current'.revision)
          /\ session[s].command # Saved!NoCommand
          /\ current'.command = session[s].command
          /\ UNCHANGED <<current, previous, kept, index, writing>>
          /\ writing = Saved!NotWriting
      BY <1>2 DEF Saved!Replay, Saved!Free
    <2>2. current' \in SavedRecords
      BY <2>1 DEF SavedTypeOK
    <2>3. /\ session' \in [Sessions -> Tabs]
          /\ CommandsAreOwn' /\ Saved!AcknowledgedSavesSurvive'
      BY <2>1, <2>2, ToldIsSaver
    <2> QED
      BY <1>a, <2>1, <2>3
      DEF SavedTypeOK, WriteIsPrepared, IndexingIsKept, FirstIsRevisionOne,
          Saved!RecoveryIsComplete
  <1>3. ASSUME NEW s \in Sessions, Saved!Refuse(s) PROVE SavedInv'
    <2> DEFINE tab == [session[s] EXCEPT !.command = Saved!NoCommand]
    <2>1. /\ session' = [session EXCEPT ![s] = tab]
          /\ UNCHANGED <<current, previous, kept, index, writing>>
          /\ writing = Saved!NotWriting
      BY <1>3 DEF Saved!Refuse, Saved!Free, SavedTypeOK
    <2>2. /\ tab \in Tabs /\ tab.told = session[s].told
          /\ tab.command = Saved!NoCommand
      BY <1>0 DEF SavedTypeOK, Tabs
    <2> HIDE DEF tab
    <2> QED
      BY <2>1, <2>2, TabOnly
  <1>4. ASSUME NEW s \in Sessions, NEW content \in Contents, NEW briefs \in SUBSET Briefs,
               Saved!Submit(s, content, briefs)
        PROVE  SavedInv'
    <2> DEFINE c == [by |-> s, number |-> session[s].number + 1,
                     expected |-> session[s].revision,
                     content |-> content, briefs |-> briefs]
               tab == [session[s] EXCEPT !.number = @ + 1, !.command = c]
    <2>1. /\ session' = [session EXCEPT ![s] = tab]
          /\ session[s].command = Saved!NoCommand
          /\ UNCHANGED <<current, previous, kept, index, writing>>
      BY <1>4 DEF Saved!Submit, SavedTypeOK
    <2>2. c \in Saves /\ c.by = s
      BY DEF SavedTypeOK, Tabs, Saves
    <2> HIDE DEF c
    <2>3. tab \in Tabs /\ tab.told = session[s].told /\ tab.command = c
      <3>1. session[s] \in Tabs
        BY DEF SavedTypeOK
      <3>2. session[s].number + 1 \in Nat
        BY <3>1 DEF Tabs
      <3>3. tab = [session[s] EXCEPT !.number = session[s].number + 1, !.command = c]
        BY <3>1 DEF Tabs
      <3> DEFINE next == session[s].number + 1
      <3> HIDE DEF next
      <3>4. next \in Nat /\ tab = [session[s] EXCEPT !.number = next, !.command = c]
        BY <3>2, <3>3 DEF next
      <3> QED
        BY <2>2, <3>1, <3>4 DEF Tabs
    <2> HIDE DEF tab
    <2> QED
      BY <2>1, <2>2, <2>3, TabOnly
  <1>5. ASSUME NEW s \in Sessions, Saved!KeepPrevious(s) PROVE SavedInv'
    <2> DEFINE c == session[s].command
               n == [revision |-> current.revision + 1, command |-> c]
    <2>1. /\ c # Saved!NoCommand /\ current.revision = c.expected
          /\ previous' = IF current = Saved!NoRecord THEN previous ELSE current
          /\ writing' = [Saved!NotWriting EXCEPT !.what = "current", !.by = s,
                                                 !.record = n]
          /\ UNCHANGED <<current, kept, index, session>>
      BY <1>5 DEF Saved!KeepPrevious, Saved!Accepted
    <2>2. c \in Saves /\ n \in SavedRecords
      BY DEF SavedTypeOK, Tabs, SavedRecords
    <2>3. writing'.what = "current" /\ writing'.by = s /\ writing'.record = n
      BY <2>1 DEF Saved!NotWriting
    <2>4. SavedTypeOK'
      BY <2>1, <2>2, <2>3 DEF SavedTypeOK
    <2>5. WriteIsPrepared' /\ IndexingIsKept'
      BY <2>1, <2>3 DEF WriteIsPrepared, IndexingIsKept
    <2>6. Saved!RecoveryIsComplete'
      BY <2>1 DEF Saved!RecoveryIsComplete, SavedTypeOK, SavedRecords
    <2> QED
      BY <2>1, <2>4, <2>5, <2>6
      DEF CommandsAreOwn, FirstIsRevisionOne, Saved!AcknowledgedSavesSurvive
  <1>6. ASSUME Saved!WriteCurrent PROVE SavedInv'
    <2>1. /\ writing.what = "current" /\ current' = writing.record
          /\ writing' = Saved!NotWriting
          /\ \/ session' = Saved!Told(writing.by, current'.revision)
             \/ UNCHANGED session
          /\ UNCHANGED <<previous, kept, index>>
      BY <1>6 DEF Saved!WriteCurrent
    <2>2. /\ writing.by \in Sessions /\ current' \in SavedRecords
          /\ current'.revision = current.revision + 1
          /\ current'.command.expected = current.revision
          /\ current'.command = session[writing.by].command
          /\ current'.command # Saved!NoCommand
          /\ current # Saved!NoRecord => previous = current
      BY <2>1 DEF WriteIsPrepared, SavedTypeOK
    <2>3. /\ session' \in [Sessions -> Tabs]
          /\ CommandsAreOwn' /\ Saved!AcknowledgedSavesSurvive'
      <3>1. CASE session' = Saved!Told(writing.by, current'.revision)
        BY <2>2, <3>1, ToldIsSaver
      <3>2. CASE UNCHANGED session
        <4>1. session' \in [Sessions -> Tabs] /\ CommandsAreOwn'
          BY <3>2 DEF SavedTypeOK, CommandsAreOwn
        <4>2. current.revision \in Nat /\ current'.revision \in Nat
          BY <2>2 DEF SavedTypeOK, SavedRecords
        <4>3. \A s \in Sessions : \A t \in session[s].told : t.revision \in Nat
          BY DEF SavedTypeOK, Tabs
        <4>4. Saved!AcknowledgedSavesSurvive'
          BY <2>2, <3>2, <4>2, <4>3 DEF Saved!AcknowledgedSavesSurvive
        <4> QED
          BY <4>1, <4>4
      <3> QED
        BY <2>1, <3>1, <3>2
    <2>4. SavedTypeOK'
      BY <1>0, <1>a, <2>1, <2>2, <2>3 DEF SavedTypeOK
    <2>5. WriteIsPrepared' /\ IndexingIsKept'
      BY <1>a, <2>1 DEF WriteIsPrepared, IndexingIsKept
    <2>6. FirstIsRevisionOne' /\ Saved!RecoveryIsComplete'
      <3>1. /\ current.revision \in Nat /\ previous.revision \in Nat
            /\ current.revision > 0 => previous.revision = current.revision
            /\ previous.revision <= current.revision
        BY <2>2 DEF SavedTypeOK, SavedRecords, Saved!RecoveryIsComplete, Saved!NoRecord
      <3> QED
        BY <2>1, <2>2, <3>1 DEF FirstIsRevisionOne, Saved!RecoveryIsComplete
    <2> QED
      BY <2>3, <2>4, <2>5, <2>6
  <1>7. ASSUME Saved!Interrupt PROVE SavedInv'
    BY <1>0, <1>a, <1>7
    DEF Saved!Interrupt, SavedTypeOK, CommandsAreOwn, WriteIsPrepared,
        IndexingIsKept, FirstIsRevisionOne, Saved!AcknowledgedSavesSurvive,
        Saved!RecoveryIsComplete
  <1>8. ASSUME NEW o \in Originals, Saved!KeepOriginal(o) PROVE SavedInv'
    <2>1. /\ writing'.what = "index" /\ writing'.original = o
          /\ writing'.record = Saved!NoRecord
          /\ kept' = kept \cup {o}
          /\ UNCHANGED <<current, previous, index, session>>
      BY <1>8 DEF Saved!KeepOriginal, Saved!NotWriting
    <2> QED
      BY <1>0, <2>1
      DEF SavedTypeOK, CommandsAreOwn, WriteIsPrepared, IndexingIsKept,
          FirstIsRevisionOne, Saved!AcknowledgedSavesSurvive, Saved!RecoveryIsComplete
  <1>9. ASSUME Saved!IndexOriginal PROVE SavedInv'
    BY <1>0, <1>a, <1>9
    DEF Saved!IndexOriginal, SavedTypeOK, CommandsAreOwn, WriteIsPrepared,
        IndexingIsKept, FirstIsRevisionOne, Saved!AcknowledgedSavesSurvive,
        Saved!RecoveryIsComplete
  <1>10. CASE UNCHANGED Saved!vars
    BY <1>10
    DEF Saved!vars, SavedTypeOK, CommandsAreOwn, WriteIsPrepared,
        IndexingIsKept, FirstIsRevisionOne, Saved!AcknowledgedSavesSurvive,
        Saved!RecoveryIsComplete
  <1> QED
    BY <1>1, <1>2, <1>3, <1>4, <1>5, <1>6, <1>7, <1>8, <1>9, <1>10
    DEF Saved!Next

-----------------------------------------------------------------------------
(* The commands of a work session.                                         *)

Early == {"mutation", "begin"}
Late == {"item", "session"}
Past == {"effect", "completed", "failed"}

OwnLocks(k) == {Effects!CommandLock(k.command), Effects!MutationLock(k.request.item),
                Effects!ItemLock(k.request.item), Effects!SessionLock}

CommandCalls ==
    [at : {"idle", "command", "answer"} \cup Early \cup Late \cup Past,
     process : Hosts \cup {"none"}, command : Commands \cup {"none"},
     request : Effects!Bodies \cup {Effects!NoRequest}, locks : SUBSET Effects!Locks]

CommandsTypeOK ==
    /\ record \in [Commands -> {"none", "pending", "completed", "failed"}]
    /\ call \in [Runners -> CommandCalls]
    /\ directory \in [Effects!Locks -> Runners \cup {"none", "stopped"}]
    /\ begun \in [Commands -> Nat]
    /\ \A k \in Runners : call[k].at # "idle" =>
          /\ call[k].command \in Commands /\ call[k].request.item \in Items
          /\ call[k].locks \subseteq OwnLocks(call[k])
          /\ call[k].at = "command" => Effects!CommandLock(call[k].command) \in call[k].locks

(* A call took the lock of its command, and would release it.              *)
Holds(k) == /\ k.at \notin {"idle", "command"}
            /\ Effects!CommandLock(k.command) \in k.locks

HolderIn(d, c) == d[Effects!CommandLock(c)]

(* Until a command is in the journal only one call holds its lock; and a   *)
(* call that may still begin the effects is the only one that does.        *)
NewHasOneHolder ==
    \A k \in Runners :
        Holds(call[k]) /\ record[call[k].command] = "none" => HolderIn(directory, call[k].command) = k

OneMayBegin ==
    \A k \in Runners : call[k].at \in Early \cup Late =>
        /\ Holds(call[k]) /\ HolderIn(directory, call[k].command) = k
        /\ \A j \in Runners \ {k} :
              call[j].command = call[k].command => ~Holds(call[j])

JournalBeforeEffects ==
    \A k \in Runners :
        /\ call[k].at \in Early \cup Late => begun[call[k].command] = 0
        /\ call[k].at \in Early => record[call[k].command] = "none"
        /\ call[k].at \in Late \cup Past => record[call[k].command] # "none"
        /\ call[k].at \in Past => Holds(call[k])

BegunIsInJournal ==
    \A c \in Commands : begun[c] > 0 => record[c] # "none"

CommandsInv ==
    /\ CommandsTypeOK /\ NewHasOneHolder /\ OneMayBegin
    /\ JournalBeforeEffects /\ BegunIsInJournal
    /\ Effects!EffectsBeginOnce

(* The locks of commands, items and the session are different ones.        *)
LEMMA LocksDiffer ==
    /\ \A c \in Commands : Effects!CommandLock(c) \in Effects!Locks
    /\ \A i \in Items : /\ Effects!MutationLock(i) \in Effects!Locks
                        /\ Effects!ItemLock(i) \in Effects!Locks
    /\ Effects!SessionLock \in Effects!Locks
    /\ \A c, d : Effects!CommandLock(c) = Effects!CommandLock(d) => c = d
    /\ \A c, i : /\ Effects!CommandLock(c) # Effects!MutationLock(i)
                 /\ Effects!CommandLock(c) # Effects!ItemLock(i)
                 /\ Effects!CommandLock(c) # Effects!SessionLock
  BY DEF Effects!CommandLock, Effects!MutationLock, Effects!ItemLock,
         Effects!SessionLock, Effects!Locks

(* No command and no call satisfies the invariant.                         *)
LEMMA CommandsInit == Effects!Init => CommandsInv
  <1> SUFFICES ASSUME Effects!Init PROVE CommandsInv
    OBVIOUS
  <1>1. Effects!NotCalled \in CommandCalls /\ Effects!NotCalled.at = "idle"
    BY DEF Effects!NotCalled, CommandCalls, Effects!None
  <1>2. CommandsTypeOK
    BY <1>1 DEF Effects!Init, CommandsTypeOK, Effects!None
  <1> QED
    BY <1>1, <1>2
    DEF Effects!Init, CommandsInv, NewHasOneHolder, OneMayBegin, Holds,
        JournalBeforeEffects, BegunIsInJournal, Effects!EffectsBeginOnce,
        Early, Late, Past

(* A step of one call that keeps the lock of its command leaves the one    *)
(* that may begin alone.                                                   *)
LEMMA OneStaysAlone ==
    ASSUME CommandsInv, NEW k \in Runners, NEW new \in CommandCalls,
           call' = [call EXCEPT ![k] = new],
           \A c \in Commands : HolderIn(directory', c) = HolderIn(directory, c),
           new.command = call[k].command, call[k].command \in Commands,
           \/ new.at = "answer" /\ (Holds(new) => HolderIn(directory, new.command) = k)
           \/ /\ call[k].at \in Early \cup Late \cup Past
              /\ new.at \in Early \cup Late \cup Past /\ Holds(new)
              /\ new.at \in Early \cup Late => call[k].at \in Early \cup Late
    PROVE  OneMayBegin'
  <1> USE DEF CommandsInv
  <1>1. /\ call'[k] = new /\ \A j \in Runners \ {k} : call'[j] = call[j]
        /\ DOMAIN call = Runners
    BY DEF CommandsTypeOK
  <1>2. call[k].at \in Early \cup Late \cup Past => Holds(call[k])
    BY DEF OneMayBegin, JournalBeforeEffects
  <1> SUFFICES ASSUME NEW j \in Runners, call'[j].at \in Early \cup Late
               PROVE  /\ Holds(call'[j]) /\ HolderIn(directory', call'[j].command) = j
                      /\ \A i \in Runners \ {j} :
                            call'[i].command = call'[j].command => ~Holds(call'[i])
    BY DEF OneMayBegin, Holds
  <1>3. CASE j = k
    <2>1. call[k].at \in Early \cup Late /\ Holds(new)
      BY <1>1, <1>3 DEF Early, Late
    <2> QED
      BY <2>1, <1>1, <1>3 DEF OneMayBegin
  <1>4. CASE j # k
    <2>1. call'[j] = call[j] /\ call[j].at \in Early \cup Late
      BY <1>1, <1>4
    <2>2. call[j].command \in Commands
      BY <2>1 DEF CommandsTypeOK, Early, Late
    <2>3. /\ Holds(call[j]) /\ HolderIn(directory, call[j].command) = j
          /\ \A i \in Runners \ {j} : call[i].command = call[j].command => ~Holds(call[i])
      BY <2>1 DEF OneMayBegin
    <2>4. new.command = call[j].command => ~Holds(new)
      BY <2>3, <1>2, <1>4
    <2> QED
      BY <1>1, <2>1, <2>2, <2>3, <2>4
  <1> QED
    BY <1>3, <1>4

(* Such a step leaves the invariant, if the journal and the effects are    *)
(* not touched.                                                            *)
LEMMA StepInside ==
    ASSUME CommandsInv, NEW k \in Runners, NEW new \in CommandCalls,
           call[k].at # "idle",
           call' = [call EXCEPT ![k] = new],
           directory' \in [Effects!Locks -> Runners \cup {"none", "stopped"}],
           \A c \in Commands : HolderIn(directory', c) = HolderIn(directory, c),
           new.command = call[k].command, new.request = call[k].request,
           new.locks \subseteq OwnLocks(call[k]),
           UNCHANGED <<record, begun>>,
           \/ new.at = "answer" /\ (Holds(new) => HolderIn(directory, new.command) = k)
           \/ /\ new.at \in Early \cup Late \cup Past /\ Holds(new)
              /\ (new.at \in Early => call[k].at \in Early)
              /\ (new.at \in Late => call[k].at \in Late)
              /\ (new.at \in Past => call[k].at \in Late \cup Past)
    PROVE  CommandsInv'
  <1> USE DEF CommandsInv
  <1>1. /\ call'[k] = new /\ \A j \in Runners \ {k} : call'[j] = call[j]
        /\ call[k].command \in Commands
    BY DEF CommandsTypeOK
  <1>2. CommandsTypeOK'
    BY <1>1 DEF CommandsTypeOK, OwnLocks, Early, Late, Past
  <1>3. Holds(new) /\ record[new.command] = "none" => HolderIn(directory, new.command) = k
    BY DEF NewHasOneHolder, OneMayBegin, JournalBeforeEffects, Early, Late, Past
  <1>4. NewHasOneHolder'
    <2> SUFFICES ASSUME NEW j \in Runners, Holds(call'[j]), record[call'[j].command] = "none"
                 PROVE  HolderIn(directory', call'[j].command) = j
      BY DEF NewHasOneHolder, Holds
    <2>1. CASE j = k
      BY <2>1, <1>1, <1>3
    <2>2. CASE j # k
      <3>1. call'[j] = call[j] /\ call[j].command \in Commands
        BY <2>2, <1>1 DEF CommandsTypeOK, Holds
      <3> QED
        BY <3>1 DEF NewHasOneHolder
    <2> QED
      BY <2>1, <2>2
  <1>5. JournalBeforeEffects'
    <2>1. ASSUME NEW j \in Runners
          PROVE  /\ call'[j].at \in Early \cup Late => begun[call'[j].command] = 0
                 /\ call'[j].at \in Early => record[call'[j].command] = "none"
                 /\ call'[j].at \in Late \cup Past => record[call'[j].command] # "none"
                 /\ call'[j].at \in Past => Holds(call'[j])
      BY <1>1 DEF JournalBeforeEffects, Early, Late, Past
    <2> QED
      BY <2>1 DEF JournalBeforeEffects, Holds
  <1>6. OneMayBegin'
    <2>1. \/ new.at = "answer" /\ (Holds(new) => HolderIn(directory, new.command) = k)
          \/ /\ call[k].at \in Early \cup Late \cup Past
             /\ new.at \in Early \cup Late \cup Past /\ Holds(new)
             /\ new.at \in Early \cup Late => call[k].at \in Early \cup Late
      BY DEF Early, Late, Past
    <2> QED
      BY <2>1, <1>1, OneStaysAlone
  <1> QED
    BY <1>2, <1>4, <1>5, <1>6 DEF BegunIsInJournal, Effects!EffectsBeginOnce

(* Calls that end, and the locks they release.                             *)
LEMMA StepsAway ==
    ASSUME CommandsInv,
           call' \in [Runners -> CommandCalls],
           \A j \in Runners : call'[j] = call[j] \/ call'[j].at = "idle",
           record' \in [Commands -> {"none", "pending", "completed", "failed"}],
           \A c \in Commands : \/ record'[c] = record[c]
                               \/ record[c] # "none" /\ record'[c] # "none",
           UNCHANGED begun,
           directory' \in [Effects!Locks -> Runners \cup {"none", "stopped"}],
           \A j \in Runners :
              /\ call'[j] = call[j] /\ Holds(call[j]) /\ HolderIn(directory, call[j].command) = j
              /\ record[call[j].command] = "none" \/ call[j].at \in Early \cup Late
              => HolderIn(directory', call[j].command) = j
    PROVE  CommandsInv'
  <1> USE DEF CommandsInv
  <1>1. CommandsTypeOK'
    <2>1. ASSUME NEW j \in Runners, call'[j].at # "idle"
          PROVE  /\ call'[j].command \in Commands /\ call'[j].request.item \in Items
                 /\ call'[j].locks \subseteq OwnLocks(call'[j])
                 /\ call'[j].at = "command" =>
                       Effects!CommandLock(call'[j].command) \in call'[j].locks
      BY <2>1 DEF CommandsTypeOK
    <2> QED
      BY <2>1 DEF CommandsTypeOK, OwnLocks
  <1>2. \A j \in Runners : call'[j].at # "idle" =>
          call'[j] = call[j] /\ call[j].command \in Commands
    BY DEF CommandsTypeOK
  <1>3. NewHasOneHolder'
    <2> SUFFICES ASSUME NEW j \in Runners, Holds(call'[j]), record'[call'[j].command] = "none"
                 PROVE  HolderIn(directory', call'[j].command) = j
      BY DEF NewHasOneHolder, Holds, HolderIn
    <2>1. call'[j] = call[j] /\ call[j].command \in Commands
      BY <1>2 DEF Holds
    <2> QED
      BY <2>1 DEF NewHasOneHolder
  <1>4. OneMayBegin'
    <2> SUFFICES ASSUME NEW j \in Runners, call'[j].at \in Early \cup Late
                 PROVE  /\ Holds(call'[j]) /\ HolderIn(directory', call'[j].command) = j
                        /\ \A i \in Runners \ {j} :
                              call'[i].command = call'[j].command => ~Holds(call'[i])
      BY DEF OneMayBegin, Holds, HolderIn
    <2>1. call'[j] = call[j] /\ call[j].command \in Commands
      BY <1>2 DEF Early, Late
    <2>2. \A i \in Runners : Holds(call'[i]) => call'[i] = call[i]
      BY <1>2 DEF Holds
    <2> QED
      BY <2>1, <2>2 DEF OneMayBegin
  <1>5. JournalBeforeEffects'
    <2>1. ASSUME NEW j \in Runners
          PROVE  /\ call'[j].at \in Early \cup Late => begun[call'[j].command] = 0
                 /\ call'[j].at \in Early => record'[call'[j].command] = "none"
                 /\ call'[j].at \in Late \cup Past => record'[call'[j].command] # "none"
                 /\ call'[j].at \in Past => Holds(call'[j])
      <3>1. CASE call'[j].at = "idle"
        BY <3>1 DEF Early, Late, Past
      <3>2. CASE call'[j].at # "idle"
        BY <3>2, <1>2 DEF JournalBeforeEffects
      <3> QED
        BY <3>1, <3>2
    <2> QED
      BY <2>1 DEF JournalBeforeEffects, Holds
  <1> QED
    BY <1>1, <1>3, <1>4, <1>5
    DEF BegunIsInJournal, Effects!EffectsBeginOnce, CommandsTypeOK

(* Taking another lock than a command's.                                   *)
LEMMA TakesAnother ==
    ASSUME CommandsTypeOK, NEW k \in Runners, NEW l \in Effects!Locks,
           \A c : Effects!CommandLock(c) # l, Effects!Acquire(k, l)
    PROVE  /\ directory' \in [Effects!Locks -> Runners \cup {"none", "stopped"}]
           /\ \A c \in Commands : HolderIn(directory', c) = HolderIn(directory, c)
  BY LocksDiffer DEF CommandsTypeOK, Effects!Acquire, HolderIn

(* Giving the locks of one call back takes no command from another call    *)
(* that needs it.                                                          *)
LEMMA AnswerTakesNothing ==
    ASSUME CommandsInv, NEW k \in Runners, call[k].at \notin {"idle", "command"},
           directory' = Effects!Released(k),
           NEW j \in Runners \ {k}, Holds(call[j]),
           HolderIn(directory, call[j].command) = j,
           record[call[j].command] = "none" \/ call[j].at \in Early \cup Late
    PROVE  HolderIn(directory', call[j].command) = j
  <1> USE DEF CommandsInv
  <1>1. call[j].command \in Commands /\ call[k].command \in Commands
    BY DEF CommandsTypeOK, Holds
  <1>2. Effects!CommandLock(call[j].command) \in call[k].locks =>
          call[j].command = call[k].command
    BY LocksDiffer DEF CommandsTypeOK, OwnLocks
  <1>3. Effects!CommandLock(call[j].command) \notin call[k].locks
    BY <1>2 DEF NewHasOneHolder, OneMayBegin, Holds
  <1> QED
    BY <1>1, <1>3, LocksDiffer DEF HolderIn, Effects!Released

(* A command gets into the journal under the lock that nobody else has.    *)
LEMMA WritePendingKeeps ==
    ASSUME CommandsInv, NEW k \in Runners, Effects!WritePending(k)
    PROVE  CommandsInv'
  <1> USE DEF CommandsInv
  <1> DEFINE c == call[k].command
             l == Effects!ItemLock(call[k].request.item)
             new == IF l \in Effects!PendingLocks(call[k].process)
                    THEN [call[k] EXCEPT !.at = "failed"]
                    ELSE [call[k] EXCEPT !.at = "item", !.locks = @ \cup {l}]
  <1>1. /\ call[k] \in CommandCalls /\ c \in Commands /\ call[k].request.item \in Items
        /\ call[k].at = "begin"
    BY DEF Effects!WritePending, CommandsTypeOK
  <1>2. call' = [call EXCEPT ![k] = new]
    BY DEF Effects!WritePending, Effects!Wait, CommandsTypeOK
  <1>3. /\ new \in CommandCalls /\ new.at \in {"failed", "item"}
        /\ new.command = c /\ new.request = call[k].request
        /\ call[k].locks \subseteq new.locks /\ new.locks \subseteq OwnLocks(call[k])
    BY <1>1, LocksDiffer DEF CommandCalls, CommandsTypeOK, OwnLocks, Late, Past
  <1> HIDE DEF new
  <1>4. /\ record' = [record EXCEPT ![c] = "pending"] /\ UNCHANGED <<directory, begun>>
        /\ record[c] = "none" /\ begun[c] = 0
    BY <1>1 DEF Effects!WritePending, JournalBeforeEffects, Early
  <1>5. /\ call'[k] = new /\ \A j \in Runners \ {k} : call'[j] = call[j]
    BY <1>2 DEF CommandsTypeOK
  <1>6. /\ Holds(call[k]) /\ HolderIn(directory, c) = k
        /\ \A j \in Runners \ {k} : call[j].command = c => ~Holds(call[j])
    BY <1>1 DEF OneMayBegin, Early
  <1>7. Holds(new)
    BY <1>3, <1>6 DEF Holds
  <1>8. CommandsTypeOK'
    <2>1. ASSUME NEW j \in Runners, call'[j].at # "idle"
          PROVE  /\ call'[j].command \in Commands /\ call'[j].request.item \in Items
                 /\ call'[j].locks \subseteq OwnLocks(call'[j])
                 /\ call'[j].at = "command" =>
                       Effects!CommandLock(call'[j].command) \in call'[j].locks
      BY <2>1, <1>1, <1>3, <1>5 DEF CommandsTypeOK, OwnLocks
    <2> QED
      BY <2>1, <1>1, <1>2, <1>3, <1>4 DEF CommandsTypeOK, OwnLocks
  <1>9. NewHasOneHolder'
    <2> SUFFICES ASSUME NEW j \in Runners, Holds(call'[j]), record'[call'[j].command] = "none"
                 PROVE  HolderIn(directory', call'[j].command) = j
      BY DEF NewHasOneHolder, Holds, HolderIn
    <2>1. j # k
      BY <1>1, <1>3, <1>4, <1>5 DEF CommandsTypeOK
    <2>2. call'[j] = call[j] /\ call[j].command \in Commands
      BY <2>1, <1>5 DEF CommandsTypeOK, Holds
    <2> QED
      BY <2>2, <1>1, <1>4 DEF NewHasOneHolder, CommandsTypeOK
  <1>10. OneMayBegin'
    <2>1. call[k].at \in Early \cup Late \cup Past /\ new.at \in Early \cup Late \cup Past
          /\ (new.at \in Early \cup Late => call[k].at \in Early \cup Late)
      BY <1>1, <1>3 DEF Early, Late, Past
    <2>2. \A d \in Commands : HolderIn(directory', d) = HolderIn(directory, d)
      BY <1>4
    <2> QED
      BY <2>1, <2>2, <1>1, <1>2, <1>3, <1>7, OneStaysAlone
  <1>11. JournalBeforeEffects'
    <2>1. ASSUME NEW j \in Runners
          PROVE  /\ call'[j].at \in Early \cup Late => begun'[call'[j].command] = 0
                 /\ call'[j].at \in Early => record'[call'[j].command] = "none"
                 /\ call'[j].at \in Late \cup Past => record'[call'[j].command] # "none"
                 /\ call'[j].at \in Past => Holds(call'[j])
      <3>1. CASE j = k
        BY <3>1, <1>1, <1>3, <1>4, <1>5, <1>7 DEF Early, Late, Past, CommandsTypeOK
      <3>2. CASE j # k
        <4>1. call'[j] = call[j]
          BY <3>2, <1>5
        <4>2. call[j].at \in Early => call[j].command # c
          BY <3>2, <1>6 DEF OneMayBegin
        <4> QED
          BY <4>1, <4>2, <1>1, <1>4 DEF JournalBeforeEffects, CommandsTypeOK
      <3> QED
        BY <3>1, <3>2
    <2> QED
      BY <2>1 DEF JournalBeforeEffects, Holds
  <1> QED
    BY <1>1, <1>4, <1>8, <1>9, <1>10, <1>11
    DEF BegunIsInJournal, Effects!EffectsBeginOnce, CommandsTypeOK

(* The effects begin under the lock that nobody else has.                  *)
LEMMA BeginKeeps ==
    ASSUME CommandsInv, NEW k \in Runners, Effects!Begin(k)
    PROVE  CommandsInv'
  <1> USE DEF CommandsInv
  <1> DEFINE c == call[k].command
             new == [call[k] EXCEPT !.at = "effect"]
  <1>1. /\ call[k] \in CommandCalls /\ c \in Commands /\ call[k].request.item \in Items
        /\ call[k].at = "session"
    BY DEF Effects!Begin, CommandsTypeOK
  <1>2. call' = [call EXCEPT ![k] = new]
    BY DEF Effects!Begin, CommandsTypeOK
  <1>3. /\ new \in CommandCalls /\ new.at = "effect"
        /\ new.command = c /\ new.request = call[k].request
        /\ new.locks = call[k].locks
    BY <1>1 DEF CommandCalls, CommandsTypeOK, Past
  <1> HIDE DEF new
  <1>4. /\ UNCHANGED record
        /\ record[c] # "none" /\ begun[c] = 0
        /\ begun' = [begun EXCEPT ![c] = 1]
    <2>1. record' = record /\ begun' = [begun EXCEPT ![c] = begun[c] + 1]
      BY DEF Effects!Begin
    <2>2. record[c] # "none" /\ begun[c] = 0
      BY <1>1 DEF JournalBeforeEffects, Late
    <2> QED
      BY <2>1, <2>2
  <1>5. /\ call'[k] = new /\ \A j \in Runners \ {k} : call'[j] = call[j]
    BY <1>2 DEF CommandsTypeOK
  <1>6. /\ Holds(call[k]) /\ HolderIn(directory, c) = k
        /\ \A j \in Runners \ {k} : call[j].command = c => ~Holds(call[j])
    BY <1>1 DEF OneMayBegin, Late
  <1>7. Holds(new)
    BY <1>3, <1>6 DEF Holds
  <1>8. /\ directory' \in [Effects!Locks -> Runners \cup {"none", "stopped"}]
        /\ \A d \in Commands : HolderIn(directory', d) = HolderIn(directory, d)
    BY LocksDiffer, TakesAnother DEF Effects!Begin
  <1>9. CommandsTypeOK'
    <2>1. ASSUME NEW j \in Runners, call'[j].at # "idle"
          PROVE  /\ call'[j].command \in Commands /\ call'[j].request.item \in Items
                 /\ call'[j].locks \subseteq OwnLocks(call'[j])
                 /\ call'[j].at = "command" =>
                       Effects!CommandLock(call'[j].command) \in call'[j].locks
      BY <2>1, <1>1, <1>3, <1>5 DEF CommandsTypeOK, OwnLocks
    <2> QED
      BY <2>1, <1>1, <1>2, <1>3, <1>4, <1>8 DEF CommandsTypeOK, OwnLocks
  <1>10. NewHasOneHolder'
    <2> SUFFICES ASSUME NEW j \in Runners, Holds(call'[j]), record'[call'[j].command] = "none"
                 PROVE  HolderIn(directory', call'[j].command) = j
      BY DEF NewHasOneHolder, Holds, HolderIn
    <2>1. j # k
      BY <1>1, <1>3, <1>4, <1>5
    <2>2. call'[j] = call[j] /\ call[j].command \in Commands
      BY <2>1, <1>5 DEF CommandsTypeOK, Holds
    <2> QED
      BY <2>2, <1>4, <1>8 DEF NewHasOneHolder
  <1>11. OneMayBegin'
    <2>1. call[k].at \in Early \cup Late \cup Past /\ new.at \in Early \cup Late \cup Past
          /\ (new.at \in Early \cup Late => call[k].at \in Early \cup Late)
      BY <1>1, <1>3 DEF Early, Late, Past
    <2> QED
      BY <2>1, <1>1, <1>2, <1>3, <1>7, <1>8, OneStaysAlone
  <1>12. JournalBeforeEffects'
    <2>1. ASSUME NEW j \in Runners
          PROVE  /\ call'[j].at \in Early \cup Late => begun'[call'[j].command] = 0
                 /\ call'[j].at \in Early => record'[call'[j].command] = "none"
                 /\ call'[j].at \in Late \cup Past => record'[call'[j].command] # "none"
                 /\ call'[j].at \in Past => Holds(call'[j])
      <3>1. CASE j = k
        BY <3>1, <1>3, <1>4, <1>5, <1>7 DEF Early, Late
      <3>2. CASE j # k
        <4>1. call'[j] = call[j]
          BY <3>2, <1>5
        <4>2. call[j].at \in Early \cup Late => call[j].command # c
          BY <3>2, <1>6 DEF OneMayBegin
        <4> QED
          BY <4>1, <4>2, <1>1, <1>4 DEF JournalBeforeEffects, CommandsTypeOK
      <3> QED
        BY <3>1, <3>2
    <2> QED
      BY <2>1 DEF JournalBeforeEffects, Holds
  <1> QED
    BY <1>1, <1>4, <1>9, <1>10, <1>11, <1>12
    DEF BegunIsInJournal, Effects!EffectsBeginOnce, CommandsTypeOK

(* A command that takes the lock of its id and is not in the journal is    *)
(* the only one that may begin.                                            *)
LEMMA ReadJournalKeeps ==
    ASSUME CommandsInv, NEW k \in Runners, Effects!ReadJournal(k)
    PROVE  CommandsInv'
  <1> USE DEF CommandsInv
  <1> DEFINE c == call[k].command
             l == Effects!MutationLock(call[k].request.item)
             waits == /\ ~Effects!InJournal(k)
                      /\ l \notin Effects!PendingLocks(call[k].process)
             new == IF waits
                    THEN [call[k] EXCEPT !.at = "mutation", !.locks = @ \cup {l}]
                    ELSE [call[k] EXCEPT !.at = "answer"]
  <1>1. /\ call[k] \in CommandCalls /\ c \in Commands /\ call[k].request.item \in Items
        /\ call[k].at = "command"
    BY DEF Effects!ReadJournal, CommandsTypeOK
  <1>2. call' = [call EXCEPT ![k] = new]
    BY DEF Effects!ReadJournal, Effects!Wait, CommandsTypeOK
  <1>3. /\ new \in CommandCalls /\ new.at \in {"answer", "mutation"}
        /\ new.command = c /\ new.request = call[k].request
        /\ call[k].locks \subseteq new.locks /\ new.locks \subseteq OwnLocks(call[k])
    BY <1>1, LocksDiffer DEF CommandCalls, CommandsTypeOK, OwnLocks, Early
  <1>4. new.at = "mutation" => record[c] = "none"
    BY <1>1 DEF Effects!InJournal, CommandsTypeOK
  <1> HIDE DEF new, waits
  <1>5. /\ call'[k] = new /\ \A j \in Runners \ {k} : call'[j] = call[j]
        /\ UNCHANGED <<record, begun>>
    BY <1>2 DEF CommandsTypeOK, Effects!ReadJournal
  <1>6. Effects!CommandLock(c) \in call[k].locks
    BY <1>1 DEF CommandsTypeOK
  <1>7. Holds(new)
    BY <1>3, <1>6 DEF Holds
  <1>8. /\ directory' \in [Effects!Locks -> Runners \cup {"none", "stopped"}]
        /\ HolderIn(directory', c) = k
        /\ \A d \in Commands \ {c} : HolderIn(directory', d) = HolderIn(directory, d)
    <2>1. Effects!CommandLock(c) \in Effects!Locks
          /\ directory' = [directory EXCEPT ![Effects!CommandLock(c)] = k]
      BY <1>1, LocksDiffer DEF Effects!ReadJournal, Effects!Acquire
    <2> QED
      BY <2>1, LocksDiffer DEF CommandsTypeOK, HolderIn
  <1>9. HolderIn(directory, c) \in Runners => call[HolderIn(directory, c)].at = "effect"
    BY RunnersAssumption
    DEF Effects!ReadJournal, Effects!Acquire, Effects!Abandoned, Effects!Overdue,
        Effects!Blocked, Effects!None, Effects!Stopped, HolderIn
  <1>10. ASSUME NEW j \in Runners \ {k}, call[j].command = c, Holds(call[j])
         PROVE  record[c] # "none" /\ call[j].at \notin Early \cup Late
    <2>1. CASE HolderIn(directory, c) = j
      <3>1. call[j].at = "effect"
        BY <2>1, <1>9
      <3> QED
        BY <3>1, <1>10 DEF JournalBeforeEffects, Early, Late, Past
    <2>2. CASE HolderIn(directory, c) # j
      BY <2>2, <1>10 DEF NewHasOneHolder, OneMayBegin
    <2> QED
      BY <2>1, <2>2
  <1>11. CommandsTypeOK'
    <2>1. ASSUME NEW j \in Runners, call'[j].at # "idle"
          PROVE  /\ call'[j].command \in Commands /\ call'[j].request.item \in Items
                 /\ call'[j].locks \subseteq OwnLocks(call'[j])
                 /\ call'[j].at = "command" =>
                       Effects!CommandLock(call'[j].command) \in call'[j].locks
      BY <2>1, <1>1, <1>3, <1>5 DEF CommandsTypeOK, OwnLocks
    <2> QED
      BY <2>1, <1>1, <1>2, <1>3, <1>5, <1>8 DEF CommandsTypeOK, OwnLocks
  <1>12. NewHasOneHolder'
    <2> SUFFICES ASSUME NEW j \in Runners, Holds(call'[j]), record'[call'[j].command] = "none"
                 PROVE  HolderIn(directory', call'[j].command) = j
      BY DEF NewHasOneHolder, Holds, HolderIn
    <2>1. CASE j = k
      BY <2>1, <1>3, <1>5, <1>8
    <2>2. CASE j # k
      <3>1. call'[j] = call[j] /\ call[j].command \in Commands
        BY <2>2, <1>5 DEF CommandsTypeOK, Holds
      <3>2. call[j].command # c
        BY <2>2, <3>1, <1>5, <1>10
      <3> QED
        BY <3>1, <3>2, <1>5, <1>8 DEF NewHasOneHolder
    <2> QED
      BY <2>1, <2>2
  <1>13. OneMayBegin'
    <2> SUFFICES ASSUME NEW j \in Runners, call'[j].at \in Early \cup Late
                 PROVE  /\ Holds(call'[j]) /\ HolderIn(directory', call'[j].command) = j
                        /\ \A i \in Runners \ {j} :
                              call'[i].command = call'[j].command => ~Holds(call'[i])
      BY DEF OneMayBegin, Holds, HolderIn
    <2>1. CASE j = k
      <3>1. record[c] = "none"
        BY <2>1, <1>3, <1>4, <1>5 DEF Early, Late
      <3> QED
        BY <3>1, <2>1, <1>3, <1>5, <1>7, <1>8, <1>10
    <2>2. CASE j # k
      <3>1. call'[j] = call[j] /\ call[j].command \in Commands
        BY <2>2, <1>5 DEF CommandsTypeOK, Early, Late
      <3>2. /\ Holds(call[j]) /\ HolderIn(directory, call[j].command) = j
            /\ \A i \in Runners \ {j} :
                  call[i].command = call[j].command => ~Holds(call[i])
        BY <3>1 DEF OneMayBegin
      <3>3. call[j].command # c
        BY <2>2, <3>1, <3>2, <1>10
      <3> QED
        BY <3>1, <3>2, <3>3, <1>3, <1>5, <1>8
    <2> QED
      BY <2>1, <2>2
  <1>14. JournalBeforeEffects'
    <2>1. ASSUME NEW j \in Runners
          PROVE  /\ call'[j].at \in Early \cup Late => begun'[call'[j].command] = 0
                 /\ call'[j].at \in Early => record'[call'[j].command] = "none"
                 /\ call'[j].at \in Late \cup Past => record'[call'[j].command] # "none"
                 /\ call'[j].at \in Past => Holds(call'[j])
      <3>1. CASE j = k
        <4>1. record[c] = "none" => begun[c] = 0
          BY <1>1 DEF BegunIsInJournal, CommandsTypeOK
        <4> QED
          BY <3>1, <4>1, <1>3, <1>4, <1>5 DEF Early, Late, Past
      <3>2. CASE j # k
        BY <3>2, <1>5 DEF JournalBeforeEffects
      <3> QED
        BY <3>1, <3>2
    <2> QED
      BY <2>1 DEF JournalBeforeEffects, Holds
  <1> QED
    BY <1>5, <1>11, <1>12, <1>13, <1>14 DEF BegunIsInJournal, Effects!EffectsBeginOnce

(* A new call holds nothing yet.                                           *)
LEMMA SendKeeps ==
    ASSUME CommandsInv, NEW k \in Runners, NEW p \in Hosts, NEW c \in Commands,
           NEW r \in Effects!Bodies, Effects!Send(k, p, c, r)
    PROVE  CommandsInv'
  <1> USE DEF CommandsInv
  <1> DEFINE new == [Effects!NotCalled EXCEPT !.at = "command", !.process = p,
                       !.command = c, !.request = r, !.locks = {Effects!CommandLock(c)}]
  <1>1. call' = [call EXCEPT ![k] = new]
    BY DEF Effects!Send
  <1>2. Effects!NotCalled \in CommandCalls
    BY DEF Effects!NotCalled, CommandCalls, Effects!None
  <1>3. /\ new \in CommandCalls /\ new.request.item \in Items
        /\ new.at = "command" /\ new.command = c
        /\ new.locks = {Effects!CommandLock(c)} /\ Effects!CommandLock(c) \in OwnLocks(new)
    <2>1. new \in CommandCalls
      <3>1. {Effects!CommandLock(c)} \in SUBSET Effects!Locks
        BY LocksDiffer
      <3>2. ASSUME NEW a \in {"command"}, NEW q \in Hosts \cup {"none"},
                   NEW d \in Commands \cup {"none"},
                   NEW b \in Effects!Bodies \cup {Effects!NoRequest},
                   NEW l \in SUBSET Effects!Locks, NEW old \in CommandCalls
            PROVE  [old EXCEPT !.at = a, !.process = q, !.command = d, !.request = b,
                               !.locks = l] \in CommandCalls
        BY DEF CommandCalls
      <3> QED
        BY <1>2, <3>1, <3>2
    <2>2. /\ new.at = "command" /\ new.command = c /\ new.request = r
          /\ new.locks = {Effects!CommandLock(c)}
      BY <1>2 DEF CommandCalls
    <2> HIDE DEF new
    <2> QED
      BY <2>1, <2>2 DEF Effects!Bodies, OwnLocks
  <1> HIDE DEF new
  <1>4. /\ call'[k] = new /\ \A j \in Runners \ {k} : call'[j] = call[j]
        /\ UNCHANGED <<record, begun, directory>>
    BY <1>1 DEF CommandsTypeOK, Effects!Send
  <1>5. CommandsTypeOK'
    <2>1. ASSUME NEW j \in Runners, call'[j].at # "idle"
          PROVE  /\ call'[j].command \in Commands /\ call'[j].request.item \in Items
                 /\ call'[j].locks \subseteq OwnLocks(call'[j])
                 /\ call'[j].at = "command" =>
                       Effects!CommandLock(call'[j].command) \in call'[j].locks
      BY <2>1, <1>3, <1>4 DEF CommandsTypeOK
    <2> QED
      BY <2>1, <1>1, <1>3, <1>4 DEF CommandsTypeOK, OwnLocks
  <1>6. \A j \in Runners : /\ Holds(call'[j]) => j # k /\ call'[j] = call[j]
                           /\ call'[j].at \in Early \cup Late \cup Past =>
                                 j # k /\ call'[j] = call[j]
    BY <1>3, <1>4 DEF Holds, Early, Late, Past
  <1>7. NewHasOneHolder'
    BY <1>4, <1>6 DEF NewHasOneHolder, Holds, HolderIn
  <1>8. OneMayBegin'
    <2> SUFFICES ASSUME NEW j \in Runners, call'[j].at \in Early \cup Late
                 PROVE  /\ Holds(call'[j]) /\ HolderIn(directory', call'[j].command) = j
                        /\ \A i \in Runners \ {j} :
                              call'[i].command = call'[j].command => ~Holds(call'[i])
      BY DEF OneMayBegin, Holds, HolderIn
    <2> QED
      BY <1>4, <1>6 DEF OneMayBegin
  <1>9. JournalBeforeEffects'
    <2>1. ASSUME NEW j \in Runners
          PROVE  /\ call'[j].at \in Early \cup Late => begun'[call'[j].command] = 0
                 /\ call'[j].at \in Early => record'[call'[j].command] = "none"
                 /\ call'[j].at \in Late \cup Past => record'[call'[j].command] # "none"
                 /\ call'[j].at \in Past => Holds(call'[j])
      BY <1>4, <1>6 DEF JournalBeforeEffects
    <2> QED
      BY <2>1 DEF JournalBeforeEffects, Holds
  <1> QED
    BY <1>4, <1>5, <1>7, <1>8, <1>9 DEF BegunIsInJournal, Effects!EffectsBeginOnce

(* Every step of the commands keeps the invariant.                         *)
LEMMA CommandsStep == CommandsInv /\ [Effects!Next]_(Effects!vars) => CommandsInv'
  <1> SUFFICES ASSUME CommandsInv, [Effects!Next]_(Effects!vars)
               PROVE  CommandsInv'
    OBVIOUS
  <1> USE DEF CommandsInv
  <1>0. ASSUME NEW k \in Runners, call[k].at # "idle"
        PROVE  /\ call[k] \in CommandCalls /\ call[k].request.item \in Items
               /\ call[k].command \in Commands
               /\ Effects!MutationLock(call[k].request.item) \in Effects!Locks
               /\ Effects!ItemLock(call[k].request.item) \in Effects!Locks
               /\ call[k].locks \subseteq OwnLocks(call[k])
               /\ call[k].at \in Early \cup Late \cup Past => Holds(call[k])
               /\ OwnLocks(call[k]) \subseteq Effects!Locks
    BY <1>0, LocksDiffer DEF CommandsTypeOK, OneMayBegin, JournalBeforeEffects, OwnLocks
  <1>1. CASE UNCHANGED Effects!vars
    BY <1>1 DEF Effects!vars, CommandsTypeOK, NewHasOneHolder, OneMayBegin, Holds, HolderIn,
                JournalBeforeEffects, BegunIsInJournal, Effects!EffectsBeginOnce, OwnLocks
  <1>2. ASSUME NEW k \in Runners, Effects!CheckRevision(k)
        PROVE  CommandsInv'
    <2> DEFINE new == IF session.open /\ session.revision = call[k].request.expected
                      THEN [call[k] EXCEPT !.at = "begin"]
                      ELSE [call[k] EXCEPT !.at = "answer"]
    <2>1. /\ call[k].at = "mutation" /\ UNCHANGED <<record, begun>>
          /\ call' = [call EXCEPT ![k] = new]
      BY <1>2 DEF Effects!CheckRevision, CommandsTypeOK
    <2>2. /\ new \in CommandCalls /\ new.at \in {"begin", "answer"}
          /\ new.command = call[k].command /\ new.request = call[k].request
          /\ new.locks = call[k].locks
      BY <2>1, <1>0 DEF CommandCalls, Early
    <2> HIDE DEF new
    <2>3. Holds(new) /\ HolderIn(directory, new.command) = k
      BY <2>1, <2>2 DEF OneMayBegin, Holds, Early
    <2>4. /\ directory' \in [Effects!Locks -> Runners \cup {"none", "stopped"}]
          /\ \A c \in Commands : HolderIn(directory', c) = HolderIn(directory, c)
      BY <1>0, <1>2, <2>1, LocksDiffer, TakesAnother DEF Effects!CheckRevision
    <2>5. \/ new.at = "answer" /\ (Holds(new) => HolderIn(directory, new.command) = k)
          \/ /\ new.at \in Early \cup Late \cup Past /\ Holds(new)
             /\ (new.at \in Early => call[k].at \in Early)
             /\ (new.at \in Late => call[k].at \in Late)
             /\ (new.at \in Past => call[k].at \in Late \cup Past)
      BY <2>1, <2>2, <2>3 DEF Early, Late, Past
    <2> QED
      BY <1>0, <2>1, <2>2, <2>4, <2>5, StepInside
  <1>3. ASSUME NEW k \in Runners, Effects!ReadSession(k)
        PROVE  CommandsInv'
    <2> DEFINE waits == session.open
                        /\ Effects!SessionLock \notin Effects!PendingLocks(call[k].process)
               new == IF waits
                      THEN [call[k] EXCEPT !.at = "session",
                                           !.locks = @ \cup {Effects!SessionLock}]
                      ELSE [call[k] EXCEPT !.at = IF session.open THEN "failed" ELSE "completed"]
    <2>1. /\ call[k].at = "item" /\ UNCHANGED <<record, begun>>
          /\ call' = [call EXCEPT ![k] = new]
      BY <1>3 DEF Effects!ReadSession, Effects!Wait, CommandsTypeOK
    <2>2. /\ new \in CommandCalls /\ new.at \in {"session", "failed", "completed"}
          /\ new.command = call[k].command /\ new.request = call[k].request
          /\ call[k].locks \subseteq new.locks /\ new.locks \subseteq OwnLocks(call[k])
      BY <2>1, <1>0, LocksDiffer DEF CommandCalls, Late, Past, OwnLocks
    <2> HIDE DEF new
    <2>3. Holds(new)
      BY <2>1, <2>2, <1>0 DEF Holds, Late
    <2>4. /\ directory' \in [Effects!Locks -> Runners \cup {"none", "stopped"}]
          /\ \A c \in Commands : HolderIn(directory', c) = HolderIn(directory, c)
      BY <1>0, <1>3, <2>1, LocksDiffer, TakesAnother DEF Effects!ReadSession
    <2>5. /\ new.at \in Early \cup Late \cup Past
          /\ (new.at \in Early => call[k].at \in Early)
          /\ (new.at \in Late => call[k].at \in Late)
          /\ (new.at \in Past => call[k].at \in Late \cup Past)
      BY <2>1, <2>2 DEF Early, Late, Past
    <2> QED
      BY <1>0, <2>1, <2>2, <2>3, <2>4, <2>5, StepInside
  <1>4. ASSUME NEW k \in Runners, Effects!Finish(k)
        PROVE  CommandsInv'
    <2>0. PICK outcome \in {"completed", "failed"} : Effects!Leave(k, outcome)
      BY <1>4 DEF Effects!Finish
    <2> DEFINE outer == {Effects!CommandLock(call[k].command),
                         Effects!MutationLock(call[k].request.item)}
               new == [call[k] EXCEPT !.at = outcome, !.locks = outer]
    <2>1. /\ call[k].at = "effect" /\ UNCHANGED <<record, begun>>
          /\ call' = [call EXCEPT ![k] = new]
      BY <1>4, <2>0 DEF Effects!Finish, Effects!Leave, CommandsTypeOK
    <2>2. /\ new \in CommandCalls /\ new.at \in {"failed", "completed"}
          /\ new.command = call[k].command /\ new.request = call[k].request
          /\ new.locks = outer /\ outer \subseteq OwnLocks(call[k])
      BY <2>1, <1>0, LocksDiffer DEF CommandCalls, Past, OwnLocks
    <2> HIDE DEF new
    <2>3. Holds(new)
      BY <2>2 DEF Holds
    <2>4. directory' = [l \in Effects!Locks |->
                          IF l \in call[k].locks \ outer THEN "none" ELSE directory[l]]
      BY <2>0 DEF Effects!Leave, Effects!None
    <2>5. \A c \in Commands : Effects!CommandLock(c) \notin call[k].locks \ outer
      BY <1>0, <2>1, LocksDiffer DEF OwnLocks
    <2>6. /\ directory' \in [Effects!Locks -> Runners \cup {"none", "stopped"}]
          /\ \A c \in Commands : HolderIn(directory', c) = HolderIn(directory, c)
      BY <2>4, <2>5, LocksDiffer DEF CommandsTypeOK, HolderIn
    <2>7. /\ new.at \in Early \cup Late \cup Past
          /\ (new.at \in Early => call[k].at \in Early)
          /\ (new.at \in Late => call[k].at \in Late)
          /\ (new.at \in Past => call[k].at \in Late \cup Past)
      BY <2>1, <2>2 DEF Early, Late, Past
    <2> QED
      BY <1>0, <2>1, <2>2, <2>3, <2>6, <2>7, StepInside
  <1>5. ASSUME NEW k \in Runners, Effects!Locked(k)
        PROVE  CommandsInv'
    <2> DEFINE mine == {l \in call[k].locks : directory[l] = k}
               new == [call[k] EXCEPT !.at = "answer", !.locks = mine]
    <2>1. /\ call[k].at \in {"command", "mutation"} /\ UNCHANGED <<record, begun, directory>>
          /\ call' = [call EXCEPT ![k] = new]
      BY <1>5 DEF Effects!Locked, CommandsTypeOK
    <2>2. /\ new \in CommandCalls /\ new.at = "answer"
          /\ new.command = call[k].command /\ new.request = call[k].request
          /\ new.locks = mine /\ mine \subseteq OwnLocks(call[k])
      BY <2>1, <1>0 DEF CommandCalls
    <2> HIDE DEF new
    <2>3. Holds(new) => HolderIn(directory, new.command) = k
      BY <2>2 DEF Holds, HolderIn
    <2> HIDE DEF mine
    <2>4. directory' \in [Effects!Locks -> Runners \cup {"none", "stopped"}]
      BY <2>1 DEF CommandsTypeOK
    <2> QED
      BY <1>0, <2>1, <2>2, <2>3, <2>4, StepInside
  <1>6. ASSUME NEW k \in Runners, Effects!LockedInEffect(k)
        PROVE  CommandsInv'
    <2> DEFINE mine == {l \in call[k].locks : directory[l] = k}
               new == [call[k] EXCEPT !.at = "failed", !.locks = mine]
    <2>1. /\ call[k].at \in {"item", "session"} /\ UNCHANGED <<record, begun, directory>>
          /\ call' = [call EXCEPT ![k] = new]
      BY <1>6 DEF Effects!LockedInEffect, CommandsTypeOK
    <2>2. /\ new \in CommandCalls /\ new.at = "failed"
          /\ new.command = call[k].command /\ new.request = call[k].request
          /\ new.locks = mine /\ mine \subseteq OwnLocks(call[k])
      BY <2>1, <1>0 DEF CommandCalls, Past
    <2> HIDE DEF new
    <2>3. Holds(call[k]) /\ HolderIn(directory, call[k].command) = k
      BY <2>1 DEF OneMayBegin, Late
    <2>4. Holds(new)
      BY <2>2, <2>3 DEF Holds, HolderIn
    <2> HIDE DEF mine
    <2>5. directory' \in [Effects!Locks -> Runners \cup {"none", "stopped"}]
      BY <2>1 DEF CommandsTypeOK
    <2>6. /\ new.at \in Early \cup Late \cup Past
          /\ (new.at \in Early => call[k].at \in Early)
          /\ (new.at \in Late => call[k].at \in Late)
          /\ (new.at \in Past => call[k].at \in Late \cup Past)
      BY <2>1, <2>2 DEF Early, Late, Past
    <2> QED
      BY <1>0, <2>1, <2>2, <2>4, <2>5, <2>6, StepInside
  <1>7. Effects!NotCalled \in CommandCalls /\ Effects!NotCalled.at = "idle"
    BY DEF Effects!NotCalled, CommandCalls, Effects!None
  <1>8. ASSUME NEW k \in Runners, call[k].at \notin {"idle", "command"}, Effects!Answer(k),
               record' \in [Commands -> {"none", "pending", "completed", "failed"}],
               \A c \in Commands : \/ record'[c] = record[c]
                                   \/ record[c] # "none" /\ record'[c] # "none",
               UNCHANGED begun
        PROVE  CommandsInv'
    <2>1. call' = [call EXCEPT ![k] = Effects!NotCalled] /\ directory' = Effects!Released(k)
      BY <1>8 DEF Effects!Answer
    <2>2. call' \in [Runners -> CommandCalls]
          /\ \A j \in Runners : call'[j] = call[j] \/ call'[j].at = "idle"
      BY <2>1, <1>7 DEF CommandsTypeOK
    <2>3. directory' \in [Effects!Locks -> Runners \cup {"none", "stopped"}]
      BY <2>1 DEF Effects!Released, CommandsTypeOK, Effects!None
    <2>4. call'[k].at = "idle"
      BY <2>1, <1>7 DEF CommandsTypeOK
    <2>5. ASSUME NEW j \in Runners, call'[j] = call[j], Holds(call[j]),
                 HolderIn(directory, call[j].command) = j,
                 record[call[j].command] = "none" \/ call[j].at \in Early \cup Late
          PROVE  HolderIn(directory', call[j].command) = j
      <3>1. j # k
        BY <2>4, <2>5 DEF Holds
      <3> QED
        BY <3>1, <2>1, <2>5, <1>8, AnswerTakesNothing
    <2> QED
      BY <1>8, <2>2, <2>3, <2>5, StepsAway
  <1>9. ASSUME NEW k \in Runners, Effects!WriteTerminal(k)
        PROVE  CommandsInv'
    <2>1. /\ call[k].at \in {"completed", "failed"} /\ Effects!Answer(k)
          /\ record' = [record EXCEPT ![call[k].command] = call[k].at] /\ UNCHANGED begun
      BY <1>9 DEF Effects!WriteTerminal
    <2>2. record[call[k].command] # "none"
      BY <2>1 DEF JournalBeforeEffects, Past
    <2>3. /\ record' \in [Commands -> {"none", "pending", "completed", "failed"}]
          /\ \A c \in Commands : \/ record'[c] = record[c]
                                 \/ record[c] # "none" /\ record'[c] # "none"
      BY <2>1, <2>2 DEF CommandsTypeOK
    <2> QED
      BY <1>8, <2>1, <2>3
  <1>10. ASSUME NEW k \in Runners, Effects!Refuse(k)
         PROVE  CommandsInv'
    BY <1>8, <1>10 DEF Effects!Refuse, CommandsTypeOK
  <1>11. ASSUME NEW p \in Hosts, Effects!Crash(p)
         PROVE  CommandsInv'
    <2>1. /\ call' = [k \in Runners |-> IF call[k].process = p THEN Effects!NotCalled
                                        ELSE call[k]]
          /\ directory' = [l \in Effects!Locks |->
                IF directory[l] \in {k \in Runners : call[k].process = p} THEN "stopped"
                ELSE directory[l]]
          /\ UNCHANGED <<record, begun>>
      BY <1>11 DEF Effects!Crash, Effects!Stopped
    <2>2. call' \in [Runners -> CommandCalls]
          /\ \A j \in Runners : call'[j] = call[j] \/ call'[j].at = "idle"
      BY <2>1, <1>7 DEF CommandsTypeOK
    <2>3. directory' \in [Effects!Locks -> Runners \cup {"none", "stopped"}]
      BY <2>1 DEF CommandsTypeOK
    <2>4. ASSUME NEW j \in Runners, call'[j] = call[j], Holds(call[j]),
                 HolderIn(directory, call[j].command) = j
          PROVE  HolderIn(directory', call[j].command) = j
      <3>1. call[j].process # p /\ call[j].command \in Commands
        BY <2>1, <2>4, <1>7 DEF Holds, CommandsTypeOK
      <3> QED
        BY <3>1, <2>1, <2>4, LocksDiffer DEF HolderIn
    <2> QED
      BY <2>1, <2>2, <2>3, <2>4, StepsAway DEF CommandsTypeOK
  <1> QED
    BY <1>1, <1>2, <1>3, <1>4, <1>5, <1>6, <1>9, <1>10, <1>11,
       SendKeeps, ReadJournalKeeps, WritePendingKeeps, BeginKeeps
    DEF Effects!Next

-----------------------------------------------------------------------------
(* The cleanup of a work session.                                          *)

Shas == SUBSET (Commits \cup {Base})
Outcomes == {"retained", "eligible", "blocked", "removed"}

CleanupTypeOK ==
    /\ git \in [worktree : BOOLEAN, local : Shas, remote : Shas, merged : Shas]
    /\ dirty \in BOOLEAN /\ made \in SUBSET Commits /\ foreign \in SUBSET Cleanup!Resources
    /\ manifest \in [state : {"none", "not-required", "blocked", "ready", "running", "complete"},
                     owned : SUBSET Cleanup!Resources, outcome : [Cleanup!Resources -> Outcomes]]
    /\ kept \in {"none", "this", "earlier"}
    /\ session \in {"active", "none"}

(* What the session owns, or is about to own or to delete, was not there   *)
(* before it.                                                              *)
OwnedIsNotForeign ==
    /\ foreign \cap manifest.owned = {}
    /\ process.at = "own" =>
          process.resource \in SUBSET Cleanup!Resources /\ foreign \cap process.resource = {}
    /\ process.at \in {"delete", "record"} => process.resource \notin foreign

Done == /\ manifest.state = "complete"
        /\ \A r \in manifest.owned : manifest.outcome[r] = "removed"

(* What each step of a close left behind before it.                        *)
StepsInOrder ==
    /\ kept = "this" => Done
    /\ process.at \in {"start", "retire", "delete", "record"} =>
          \A r \in manifest.owned : manifest.outcome[r] \in {"eligible", "removed"}
    /\ process.at \in {"keep", "receipt", "index", "remove"} => Done
    /\ process.at \in {"receipt", "index", "remove"} => kept = "this"
    /\ process.at \in {"confirm", "index", "remove"} => receipt
    /\ process.at = "remove" => indexed
    /\ process.at # "idle" => session = "active"

CleanupInv ==
    /\ CleanupTypeOK /\ OwnedIsNotForeign /\ StepsInOrder
    /\ Cleanup!CleanupKeepsOthersWork /\ Cleanup!SessionLeavesItsReceipt

(* A session that did nothing satisfies the invariant.                     *)
LEMMA CleanupInit == Cleanup!Init => CleanupInv
  <1> SUFFICES ASSUME Cleanup!Init PROVE CleanupInv
    OBVIOUS
  <1>1. Cleanup!NoManifest.owned = {} /\ Cleanup!NoManifest.state = "none"
        /\ Cleanup!NoManifest.outcome \in [Cleanup!Resources -> Outcomes]
        /\ Cleanup!Idle.at = "idle"
    BY DEF Cleanup!NoManifest, Cleanup!Idle, Cleanup!None, Outcomes
  <1>2. CleanupTypeOK
    BY DEF Cleanup!Init, CleanupTypeOK, Cleanup!NoManifest, Cleanup!None, Outcomes, Shas
  <1>3. Cleanup!CleanupKeepsOthersWork
    BY DEF Cleanup!Init, Cleanup!CleanupKeepsOthersWork
  <1> QED
    BY <1>1, <1>2, <1>3
    DEF Cleanup!Init, CleanupInv, OwnedIsNotForeign, StepsInOrder, Done, Cleanup!None,
        Cleanup!SessionLeavesItsReceipt

(* What developers do is kept by a cleanup that does not move.             *)
LEMMA WorldKeeps == CleanupInv /\ Cleanup!World => CleanupInv'
  <1> SUFFICES ASSUME CleanupInv, Cleanup!World PROVE CleanupInv'
    OBVIOUS
  <1> USE DEF CleanupInv
  <1> DEFINE Goes == /\ git' \in [worktree : BOOLEAN, local : Shas, remote : Shas, merged : Shas]
                     /\ dirty' \in BOOLEAN /\ made' \in SUBSET Commits
                     /\ git'.worktree = git.worktree
                     /\ git.local # {} => git'.local # {}
                     /\ git.remote # {} => git'.remote # {}
                     /\ \A c \in made' \ git'.merged : c \in git'.local \cup git'.remote
                     /\ dirty' => git'.worktree
  <1>1. /\ git \in [worktree : BOOLEAN, local : Shas, remote : Shas, merged : Shas]
        /\ dirty \in BOOLEAN /\ made \in SUBSET Commits
        /\ \A c \in made \ git.merged : c \in git.local \cup git.remote
        /\ dirty => git.worktree
    BY DEF CleanupTypeOK, Cleanup!CleanupKeepsOthersWork
  <1>2. UNCHANGED <<foreign, manifest, kept, receipt, indexed, session, process>>
    BY DEF Cleanup!World, Cleanup!Edit, Cleanup!Commit, Cleanup!Push, Cleanup!PushElsewhere,
           Cleanup!MergePullRequest, Cleanup!FinalizePacket, Cleanup!CloseArtElsewhere,
           Cleanup!files
  <1>3. Goes
    <2>1. CASE Cleanup!Edit
      BY <2>1, <1>1 DEF Cleanup!Edit
    <2>2. CASE Cleanup!Commit
      <3>1. PICK c \in Commits \ made : /\ made' = made \cup {c}
                                        /\ git' = [git EXCEPT !.local = git.local \cup {c}]
        BY <2>2 DEF Cleanup!Commit
      <3>2. git.worktree /\ dirty' = FALSE
        BY <2>2 DEF Cleanup!Commit
      <3>3. git.local \cup {c} \in Shas
        BY <1>1 DEF Shas
      <3> QED
        BY <3>1, <3>2, <3>3, <1>1
    <2>3. CASE Cleanup!Push
      <3>1. /\ git.remote \subseteq git.local /\ git.local # {}
            /\ git' = [git EXCEPT !.remote = git.local] /\ UNCHANGED <<dirty, made>>
        BY <2>3 DEF Cleanup!Push
      <3> QED
        BY <3>1, <1>1
    <2>4. CASE Cleanup!PushElsewhere
      <3>1. PICK c \in Commits \ made : /\ made' = made \cup {c}
                                        /\ git' = [git EXCEPT !.remote = git.remote \cup {c}]
        BY <2>4 DEF Cleanup!PushElsewhere
      <3>2. dirty' = dirty
        BY <2>4 DEF Cleanup!PushElsewhere
      <3>3. git.remote \cup {c} \in Shas
        BY <1>1 DEF Shas
      <3> QED
        BY <3>1, <3>2, <3>3, <1>1
    <2>5. CASE Cleanup!MergePullRequest
      <3>1. /\ git' = [git EXCEPT !.merged = git.remote] /\ UNCHANGED <<dirty, made>>
            /\ git.merged = {}
        BY <2>5 DEF Cleanup!MergePullRequest
      <3> QED
        BY <3>1, <1>1
    <2>6. CASE Cleanup!FinalizePacket \/ Cleanup!CloseArtElsewhere
      BY <2>6, <1>1 DEF Cleanup!FinalizePacket, Cleanup!CloseArtElsewhere
    <2> QED
      BY <2>1, <2>2, <2>3, <2>4, <2>5, <2>6 DEF Cleanup!World
  <1>4. Cleanup!CleanupKeepsOthersWork'
    <2>1. ASSUME NEW r \in foreign PROVE Cleanup!There(r)'
      BY <1>2, <1>3 DEF Cleanup!CleanupKeepsOthersWork, Cleanup!There, CleanupTypeOK,
                        Cleanup!Resources
    <2> QED
      BY <2>1, <1>2, <1>3 DEF Cleanup!CleanupKeepsOthersWork
  <1>5. CleanupTypeOK'
    BY <1>2, <1>3 DEF CleanupTypeOK
  <1> QED
    BY <1>2, <1>4, <1>5 DEF OwnedIsNotForeign, StepsInOrder, Done,
                            Cleanup!SessionLeavesItsReceipt

(* A step that touches no resource keeps others' work.                     *)
LEMMA WorldStays ==
    ASSUME CleanupInv, UNCHANGED <<git, dirty, foreign, made>>
    PROVE  Cleanup!CleanupKeepsOthersWork'
  BY DEF CleanupInv, Cleanup!CleanupKeepsOthersWork, Cleanup!There

(* The worktree is created when nobody had it, and its branch when there   *)
(* was none on either side.                                                *)
LEMMA EnsureWorktreeKeeps == CleanupInv /\ Cleanup!EnsureWorktree => CleanupInv'
  <1> SUFFICES ASSUME CleanupInv, Cleanup!EnsureWorktree PROVE CleanupInv'
    OBVIOUS
  <1> USE DEF CleanupInv
  <1>1. /\ UNCHANGED <<dirty, foreign, made, manifest, kept, receipt, indexed, session>>
        /\ session = "active" /\ process'.at = "own"
    BY DEF Cleanup!EnsureWorktree, Cleanup!files
  <1>2. StepsInOrder' /\ Cleanup!SessionLeavesItsReceipt'
    BY <1>1 DEF StepsInOrder, Done, Cleanup!SessionLeavesItsReceipt, Cleanup!None
  <1>3. CASE git.worktree
    <2>1. UNCHANGED git /\ process'.resource = {}
      BY <1>3 DEF Cleanup!EnsureWorktree
    <2> QED
      BY <1>1, <1>2, <2>1, WorldStays DEF CleanupTypeOK, OwnedIsNotForeign
  <1>4. CASE ~git.worktree
    <2> DEFINE grown == IF git.local = {} THEN {Base} ELSE git.local
               news == {"worktree"} \cup (IF git.local = {} THEN {"local", "remote"} ELSE {})
    <2>1. /\ git' = [git EXCEPT !.worktree = TRUE, !.local = grown]
          /\ process'.resource = news
          /\ ~(git.local = {} /\ git.remote # {})
      BY <1>4 DEF Cleanup!EnsureWorktree
    <2>2. grown \in Shas /\ grown # {} /\ git.local \subseteq grown
      BY DEF Shas, CleanupTypeOK
    <2> HIDE DEF grown
    <2>3. /\ git' \in [worktree : BOOLEAN, local : Shas, remote : Shas, merged : Shas]
          /\ git'.worktree /\ git'.local = grown /\ git'.remote = git.remote
          /\ git'.merged = git.merged
      BY <2>1, <2>2 DEF CleanupTypeOK
    <2>4. CleanupTypeOK'
      BY <1>1, <2>3 DEF CleanupTypeOK
    <2>5. \A r \in foreign : Cleanup!There(r)
      BY DEF Cleanup!CleanupKeepsOthersWork
    <2>6. ASSUME NEW r \in foreign PROVE Cleanup!There(r)'
      BY <2>2, <2>3, <2>5 DEF Cleanup!There, CleanupTypeOK, Cleanup!Resources
    <2>7. Cleanup!CleanupKeepsOthersWork'
      BY <1>1, <2>2, <2>3, <2>6 DEF Cleanup!CleanupKeepsOthersWork
    <2>8. foreign \cap news = {}
      BY <1>4, <2>1, <2>5 DEF Cleanup!There, CleanupTypeOK, Cleanup!Resources
    <2>9. OwnedIsNotForeign'
      BY <1>1, <2>1, <2>8 DEF OwnedIsNotForeign, Cleanup!Resources
    <2> QED
      BY <1>2, <2>4, <2>7, <2>9
  <1> QED
    BY <1>3, <1>4

(* What is planned for a resource is an outcome, and only what the session *)
(* owns is eligible.                                                       *)
LEMMA PlannedIs ==
    ASSUME NEW r \in Cleanup!Resources
    PROVE  /\ Cleanup!Planned(r) \in Outcomes
           /\ r \notin manifest.owned <=> Cleanup!Planned(r) = "retained"
  BY DEF Cleanup!Planned, Outcomes

(* A manifest of a new generation is not the retained one.                 *)
LEMMA ManifestIsNew ==
    ASSUME CleanupInv, NEW m, Cleanup!WriteManifest(m)
    PROVE  manifest' = m /\ kept' \in {"none", "this", "earlier"} /\ kept' # "this"
  BY DEF Cleanup!WriteManifest, CleanupInv, CleanupTypeOK

(* What is recorded of one resource.                                       *)
LEMMA RecordKeeps ==
    ASSUME CleanupInv, NEW r \in Cleanup!Resources, NEW o \in {"removed", "blocked"},
           Cleanup!Record(r, o),
           process.at \in {"retire", "delete", "record"},
           Cleanup!CleanupKeepsOthersWork',
           git' \in [worktree : BOOLEAN, local : Shas, remote : Shas, merged : Shas],
           UNCHANGED <<dirty, foreign, made, receipt, indexed, session>>,
           \/ o = "removed" /\ process'.at = "retire"
           \/ o = "blocked" /\ process'.at = "idle"
    PROVE  CleanupInv'
  <1> USE DEF CleanupInv
  <1> DEFINE state == IF o = "blocked" THEN "blocked" ELSE manifest.state
             new == [manifest EXCEPT !.outcome[r] = o, !.state = state]
  <1>1. manifest' = new /\ kept' \in {"none", "earlier"}
    BY ManifestIsNew DEF Cleanup!Record, CleanupTypeOK
  <1>2. /\ new \in [state : {"none", "not-required", "blocked", "ready", "running", "complete"},
                    owned : SUBSET Cleanup!Resources, outcome : [Cleanup!Resources -> Outcomes]]
        /\ new.owned = manifest.owned
        /\ new.outcome = [manifest.outcome EXCEPT ![r] = o]
    BY DEF CleanupTypeOK, Outcomes
  <1> HIDE DEF new
  <1>3. CleanupTypeOK'
    BY <1>1, <1>2 DEF CleanupTypeOK
  <1>4. OwnedIsNotForeign'
    BY <1>1, <1>2 DEF OwnedIsNotForeign
  <1>5. StepsInOrder'
    BY <1>1, <1>2 DEF StepsInOrder, CleanupTypeOK
  <1>6. Cleanup!SessionLeavesItsReceipt'
    BY DEF StepsInOrder, Cleanup!SessionLeavesItsReceipt, Cleanup!None
  <1> QED
    BY <1>3, <1>4, <1>5, <1>6

(* The worktree, or a branch at the merged head, is removed: what is not   *)
(* merged stays on the other branch.                                       *)
LEMMA DeletedKeeps ==
    ASSUME CleanupInv, NEW r \in Cleanup!Resources, r \notin foreign, Cleanup!Deleted(r),
           git' = [git EXCEPT ![r] = IF r = "worktree" THEN FALSE ELSE {}],
           UNCHANGED <<dirty, foreign, made>>
    PROVE  /\ git' \in [worktree : BOOLEAN, local : Shas, remote : Shas, merged : Shas]
           /\ Cleanup!CleanupKeepsOthersWork'
  <1> USE DEF CleanupInv
  <1>1. CASE r = "worktree"
    <2>1. git' = [git EXCEPT !.worktree = FALSE] /\ ~dirty
      BY <1>1 DEF Cleanup!Deleted
    <2>2. git' \in [worktree : BOOLEAN, local : Shas, remote : Shas, merged : Shas]
          /\ git'.local = git.local /\ git'.remote = git.remote /\ git'.merged = git.merged
      BY <2>1 DEF CleanupTypeOK
    <2>3. ASSUME NEW s \in foreign PROVE Cleanup!There(s)'
      BY <1>1, <2>2 DEF Cleanup!CleanupKeepsOthersWork, Cleanup!There, CleanupTypeOK,
                        Cleanup!Resources
    <2> QED
      BY <2>1, <2>2, <2>3 DEF Cleanup!CleanupKeepsOthersWork
  <1>2. CASE r = "local"
    <2>1. git' = [git EXCEPT !.local = {}] /\ git.local = git.merged
      BY <1>2 DEF Cleanup!Deleted, Cleanup!ExpectedHead
    <2>2. /\ git' \in [worktree : BOOLEAN, local : Shas, remote : Shas, merged : Shas]
          /\ git'.worktree = git.worktree /\ git'.remote = git.remote
          /\ git'.merged = git.merged
      BY <2>1 DEF CleanupTypeOK, Shas
    <2>3. ASSUME NEW s \in foreign PROVE Cleanup!There(s)'
      BY <1>2, <2>2 DEF Cleanup!CleanupKeepsOthersWork, Cleanup!There, CleanupTypeOK,
                        Cleanup!Resources
    <2> QED
      BY <2>1, <2>2, <2>3 DEF Cleanup!CleanupKeepsOthersWork
  <1>3. CASE r = "remote"
    <2>1. git' = [git EXCEPT !.remote = {}] /\ git.remote = git.merged
      BY <1>3 DEF Cleanup!Deleted, Cleanup!ExpectedHead
    <2>2. /\ git' \in [worktree : BOOLEAN, local : Shas, remote : Shas, merged : Shas]
          /\ git'.worktree = git.worktree /\ git'.local = git.local
          /\ git'.merged = git.merged
      BY <2>1 DEF CleanupTypeOK, Shas
    <2>3. ASSUME NEW s \in foreign PROVE Cleanup!There(s)'
      BY <1>3, <2>2 DEF Cleanup!CleanupKeepsOthersWork, Cleanup!There, CleanupTypeOK,
                        Cleanup!Resources
    <2> QED
      BY <2>1, <2>2, <2>3 DEF Cleanup!CleanupKeepsOthersWork
  <1> QED
    BY <1>1, <1>2, <1>3 DEF Cleanup!Resources

(* Every step of developers and of a close keeps the invariant.            *)
LEMMA CleanupStep == CleanupInv /\ [Cleanup!Next]_(Cleanup!vars) => CleanupInv'
  <1> SUFFICES ASSUME CleanupInv, [Cleanup!Next]_(Cleanup!vars)
               PROVE  CleanupInv'
    OBVIOUS
  <1> USE DEF CleanupInv
  <1> USE DEF Cleanup!At, Cleanup!To, Cleanup!world, Cleanup!files
  <1>1. CASE UNCHANGED Cleanup!vars
    BY <1>1, WorldStays DEF Cleanup!vars, CleanupTypeOK, OwnedIsNotForeign, StepsInOrder, Done,
                            Cleanup!SessionLeavesItsReceipt
  <1>2. CASE Cleanup!RecordOwnership
    <2> DEFINE new == [Cleanup!NoManifest EXCEPT !.state = "not-required",
                                                 !.owned = process.resource]
    <2>1. /\ manifest' = new /\ kept' \in {"none", "earlier"}
          /\ UNCHANGED <<git, dirty, foreign, made, receipt, indexed, session>>
          /\ process.at = "own" /\ process'.at = "idle"
      BY <1>2, ManifestIsNew DEF Cleanup!RecordOwnership, CleanupTypeOK
    <2>2. process.resource \in SUBSET Cleanup!Resources /\ foreign \cap process.resource = {}
      BY <2>1 DEF OwnedIsNotForeign
    <2>3. /\ new \in [state : {"none", "not-required", "blocked", "ready", "running", "complete"},
                      owned : SUBSET Cleanup!Resources,
                      outcome : [Cleanup!Resources -> Outcomes]]
          /\ new.owned = process.resource
      BY <2>2 DEF Cleanup!NoManifest, Cleanup!None, Outcomes
    <2> HIDE DEF new
    <2>4. CleanupTypeOK' /\ OwnedIsNotForeign'
      BY <2>1, <2>2, <2>3 DEF CleanupTypeOK, OwnedIsNotForeign
    <2>5. StepsInOrder' /\ Cleanup!SessionLeavesItsReceipt'
      BY <2>1 DEF StepsInOrder, Cleanup!SessionLeavesItsReceipt, Cleanup!None
    <2> QED
      BY <2>1, <2>4, <2>5, WorldStays
  <1>3. CASE Cleanup!Close
    <2>1. /\ UNCHANGED <<git, dirty, foreign, made, manifest, kept, receipt, indexed, session>>
          /\ session = "active"
          /\ process'.at = "prepare" \/ (receipt /\ process'.at = "confirm")
      BY <1>3 DEF Cleanup!Close
    <2> QED
      BY <2>1, WorldStays DEF CleanupTypeOK, OwnedIsNotForeign, StepsInOrder, Done,
                              Cleanup!SessionLeavesItsReceipt, Cleanup!None
  <1>4. CASE Cleanup!Prepare
    <2> DEFINE outcome == [r \in Cleanup!Resources |-> Cleanup!Planned(r)]
               blocked == \E r \in Cleanup!Resources : outcome[r] = "blocked"
               new == [manifest EXCEPT !.outcome = outcome,
                          !.state = IF blocked THEN "blocked" ELSE "ready"]
    <2>1. outcome \in [Cleanup!Resources -> Outcomes]
      BY PlannedIs
    <2>2. \A r \in manifest.owned : outcome[r] \in Outcomes \ {"retained"}
      BY PlannedIs DEF CleanupTypeOK
    <2> HIDE DEF outcome
    <2>3. /\ manifest' = new /\ kept' \in {"none", "earlier"}
          /\ UNCHANGED <<git, dirty, foreign, made, receipt, indexed, session>>
          /\ process.at = "prepare" /\ process'.at = IF blocked THEN "idle" ELSE "start"
      BY <1>4, ManifestIsNew DEF Cleanup!Prepare, CleanupTypeOK, outcome
    <2>4. /\ new \in [state : {"none", "not-required", "blocked", "ready", "running", "complete"},
                      owned : SUBSET Cleanup!Resources,
                      outcome : [Cleanup!Resources -> Outcomes]]
          /\ new.owned = manifest.owned /\ new.outcome = outcome
      BY <2>1 DEF CleanupTypeOK
    <2> HIDE DEF new
    <2>5. CleanupTypeOK' /\ OwnedIsNotForeign'
      BY <2>3, <2>4 DEF CleanupTypeOK, OwnedIsNotForeign
    <2>6. StepsInOrder'
      BY <2>2, <2>3, <2>4 DEF StepsInOrder, CleanupTypeOK, Outcomes
    <2>7. Cleanup!SessionLeavesItsReceipt'
      BY <2>3 DEF StepsInOrder, Cleanup!SessionLeavesItsReceipt, Cleanup!None
    <2> QED
      BY <2>3, <2>5, <2>6, <2>7, WorldStays
  <1>5. ASSUME NEW state \in {"running", "complete"},
               Cleanup!WriteManifest([manifest EXCEPT !.state = state]),
               UNCHANGED <<git, dirty, foreign, made, receipt, indexed, session>>,
               process.at # "idle",
               \/ process'.at = "idle"
               \/ process'.at = "retire" /\ process.at = "start"
               \/ /\ process'.at = "keep" /\ state = "complete"
                  /\ \A r \in manifest.owned : manifest.outcome[r] = "removed"
        PROVE  CleanupInv'
    <2> DEFINE new == [manifest EXCEPT !.state = state]
    <2>1. manifest' = new /\ kept' \in {"none", "earlier"}
      BY <1>5, ManifestIsNew DEF CleanupTypeOK
    <2>2. /\ new \in [state : {"none", "not-required", "blocked", "ready", "running", "complete"},
                      owned : SUBSET Cleanup!Resources,
                      outcome : [Cleanup!Resources -> Outcomes]]
          /\ new.owned = manifest.owned /\ new.outcome = manifest.outcome
          /\ new.state = state
      BY DEF CleanupTypeOK
    <2> HIDE DEF new
    <2>3. CleanupTypeOK' /\ OwnedIsNotForeign'
      BY <1>5, <2>1, <2>2 DEF CleanupTypeOK, OwnedIsNotForeign
    <2>4. StepsInOrder'
      BY <1>5, <2>1, <2>2 DEF StepsInOrder, Done
    <2>5. Cleanup!SessionLeavesItsReceipt'
      BY <1>5 DEF StepsInOrder, Cleanup!SessionLeavesItsReceipt, Cleanup!None
    <2> QED
      BY <1>5, <2>3, <2>4, <2>5, WorldStays
  <1>6. CASE Cleanup!Start
    BY <1>5, <1>6 DEF Cleanup!Start
  <1>7. CASE Cleanup!Complete
    <2>1. \A r \in manifest.owned : manifest.outcome[r] = "removed"
      BY <1>7 DEF Cleanup!Complete, StepsInOrder, CleanupTypeOK
    <2> QED
      BY <1>5, <1>7, <2>1 DEF Cleanup!Complete
  <1>8. ASSUME NEW step \in {"keep", "receipt", "index", "remove"}, Cleanup!Failed(step)
        PROVE  CleanupInv'
    BY <1>5, <1>8 DEF Cleanup!Failed
  <1>9. ASSUME NEW r \in Cleanup!Resources, Cleanup!Inspect(r)
        PROVE  CleanupInv'
    <2>1. /\ process.at = "retire" /\ manifest.outcome[r] = "eligible"
          /\ UNCHANGED <<git, dirty, foreign, made>>
      BY <1>9 DEF Cleanup!Inspect, Cleanup!NextEligible
    <2>2. Cleanup!CleanupKeepsOthersWork'
      BY <2>1, WorldStays
    <2>3. git' \in [worktree : BOOLEAN, local : Shas, remote : Shas, merged : Shas]
      BY <2>1 DEF CleanupTypeOK
    <2>4. CASE Cleanup!Planned(r) = "eligible"
      <3>1. /\ process'.at = "delete" /\ process'.resource = r
            /\ UNCHANGED <<manifest, kept, receipt, indexed, session>>
        BY <1>9, <2>4 DEF Cleanup!Inspect
      <3>2. r \notin foreign
        BY <2>4, PlannedIs DEF OwnedIsNotForeign
      <3> QED
        BY <2>1, <2>2, <2>3, <3>1, <3>2
        DEF CleanupTypeOK, OwnedIsNotForeign, StepsInOrder, Done,
            Cleanup!SessionLeavesItsReceipt
    <2>5. CASE Cleanup!Planned(r) # "eligible"
      <3>1. PICK o \in {"removed", "blocked"} :
               /\ Cleanup!Record(r, o)
               /\ UNCHANGED <<receipt, indexed, session>>
               /\ \/ o = "removed" /\ process'.at = "retire"
                  \/ o = "blocked" /\ process'.at = "idle"
        BY <1>9, <2>1, <2>5 DEF Cleanup!Inspect
      <3> QED
        BY <2>1, <2>2, <2>3, <3>1, RecordKeeps
    <2> QED
      BY <2>4, <2>5
  <1>10. ASSUME NEW r \in Cleanup!Resources, Cleanup!Delete(r)
         PROVE  CleanupInv'
    <2>1. /\ process.at = "delete" /\ process.resource = r /\ r \notin foreign
          /\ UNCHANGED <<dirty, foreign, made, receipt, indexed, session>>
      BY <1>10 DEF Cleanup!Delete, OwnedIsNotForeign
    <2>2. CASE Cleanup!Deleted(r)
      <3>1. git' = [git EXCEPT ![r] = IF r = "worktree" THEN FALSE ELSE {}]
        BY <1>10, <2>2 DEF Cleanup!Delete
      <3>2. /\ git' \in [worktree : BOOLEAN, local : Shas, remote : Shas, merged : Shas]
            /\ Cleanup!CleanupKeepsOthersWork'
        BY <2>1, <2>2, <3>1, DeletedKeeps
      <3>3. /\ process'.at = "record" /\ process'.resource = r
            /\ UNCHANGED <<manifest, kept>>
        BY <1>10, <2>2 DEF Cleanup!Delete
      <3> QED
        BY <2>1, <3>2, <3>3 DEF CleanupTypeOK, OwnedIsNotForeign, StepsInOrder, Done,
                                Cleanup!SessionLeavesItsReceipt
    <2>3. CASE ~Cleanup!Deleted(r)
      <3>0. Cleanup!Record(r, "blocked") /\ Cleanup!To("idle") /\ git' = git
        <4> HIDE DEF Cleanup!To
        <4> QED
          BY <1>10, <2>3 DEF Cleanup!Delete
      <3>1. Cleanup!Record(r, "blocked") /\ process'.at = "idle" /\ UNCHANGED git
        BY <3>0
      <3>2. git' \in [worktree : BOOLEAN, local : Shas, remote : Shas, merged : Shas]
        BY <3>1 DEF CleanupTypeOK
      <3>3. Cleanup!CleanupKeepsOthersWork'
        BY <2>1, <3>1, WorldStays
      <3> QED
        BY <2>1, <3>1, <3>2, <3>3, RecordKeeps
    <2> QED
      BY <2>2, <2>3
  <1>11. ASSUME NEW r \in Cleanup!Resources, Cleanup!Removed(r)
         PROVE  CleanupInv'
    <2>1. /\ process.at = "record" /\ Cleanup!Record(r, "removed") /\ process'.at = "retire"
          /\ UNCHANGED <<git, dirty, foreign, made, receipt, indexed, session>>
      BY <1>11 DEF Cleanup!Removed
    <2>2. git' \in [worktree : BOOLEAN, local : Shas, remote : Shas, merged : Shas]
      BY <2>1 DEF CleanupTypeOK
    <2> QED
      BY <2>1, <2>2, WorldStays, RecordKeeps
  <1>12. ASSUME UNCHANGED <<git, dirty, foreign, made, manifest>>,
                kept' \in {kept, "this"}, receipt => receipt', indexed => indexed',
                session' \in {"active", "none"},
                process'.at \in {"idle", "receipt", "index", "remove"}, process.at # "idle",
                kept' = "this" => Done,
                process'.at # "idle" => session' = "active" /\ Done /\ kept' = "this",
                process'.at \in {"index", "remove"} => receipt',
                process'.at = "remove" => indexed',
                session' = "none" => receipt' /\ indexed' /\ kept' = "this" /\ Done
         PROVE  CleanupInv'
    BY <1>12, WorldStays DEF CleanupTypeOK, OwnedIsNotForeign, StepsInOrder, Done,
                             Cleanup!SessionLeavesItsReceipt, Cleanup!None
  <1>13. CASE Cleanup!KeepManifest
    BY <1>12, <1>13 DEF Cleanup!KeepManifest, StepsInOrder, CleanupTypeOK
  <1>14. CASE Cleanup!KeepReceipt
    BY <1>12, <1>14 DEF Cleanup!KeepReceipt, StepsInOrder, CleanupTypeOK
  <1>15. CASE Cleanup!Confirm
    BY <1>12, <1>15 DEF Cleanup!Confirm, StepsInOrder, CleanupTypeOK
  <1>16. CASE Cleanup!KeepIndex
    BY <1>12, <1>16 DEF Cleanup!KeepIndex, StepsInOrder, CleanupTypeOK
  <1>17. CASE Cleanup!RemoveSession
    BY <1>12, <1>17 DEF Cleanup!RemoveSession, StepsInOrder, CleanupTypeOK, Cleanup!None
  <1>18. CASE Cleanup!Conflict
    BY <1>8, <1>18 DEF Cleanup!Conflict
  <1>19. CASE Cleanup!WriteFails
    BY <1>8, <1>19 DEF Cleanup!WriteFails
  <1>20. CASE Cleanup!Crash
    BY <1>20, WorldStays DEF Cleanup!Crash, CleanupTypeOK, OwnedIsNotForeign, StepsInOrder,
                             Done, Cleanup!SessionLeavesItsReceipt
  <1> QED
    BY <1>1, <1>2, <1>3, <1>4, <1>6, <1>7, <1>9, <1>10, <1>11, <1>13, <1>14, <1>15, <1>16,
       <1>17, <1>18, <1>19, <1>20, WorldKeeps, EnsureWorktreeKeeps
    DEF Cleanup!Next, Cleanup!Step

-----------------------------------------------------------------------------
(* The landing of one unit of work.                                        *)

FileNames == {"architecture", "start", "evidence", "packet", "receipt"}
ArchitectureFields == {"state", "version", "scope"}
StartFields == {"state", "architecture", "scope", "stamp"}
PacketFields ==
    {"status", "architecture", "head", "tests", "operating", "exception", "stamp"}

AreFiles(f) ==
    /\ DOMAIN f = FileNames
    /\ DOMAIN f.architecture = ArchitectureFields /\ DOMAIN f.start = StartFields
    /\ DOMAIN f.packet = PacketFields

(* What the service makes of a candidate.                                  *)
Settled(type, from) ==
    CASE type = "architecture" -> [from EXCEPT !.state = "durable"]
      [] type = "start" -> [from EXCEPT !.state = "ready"]
      [] OTHER ->
            [from EXCEPT !.status = IF from.status = "finalization" THEN "finalized"
                                    ELSE "merge-ready",
                         !.stamp = IF from.status = "finalization" THEN record.receipt.stamp
                                   ELSE from.stamp]

FieldsOf(type) ==
    CASE type = "architecture" -> ArchitectureFields
      [] type = "start" -> StartFields
      [] OTHER -> PacketFields

IsArtifact(a) ==
    /\ a.type \in {"architecture", "start", "packet"}
    /\ DOMAIN a.from = FieldsOf(a.type) /\ a.made = Settled(a.type, a.from)
    /\ a.type = "packet" /\ a.from.status = "finalization" => record.receipt # Landing!NoReceipt

ArtifactsAreSettled == \A a \in journal : IsArtifact(a)

Acting == {"act", "run", "register", "confirm", "write"}

ActHolds ==
    /\ process.act = "issue" =>
          record.receipt = Landing!NoReceipt /\ process.files.packet.status = "finalization"
    /\ process.act = "mark" => process.files.packet.status # "finalization"
    /\ process.act = "finalize" =>
          record.receipt # Landing!NoReceipt /\ process.files.packet.status = "finalization"

ProcessHolds ==
    /\ DOMAIN process = {"at", "files", "head", "act", "out"}
    /\ AreFiles(process.files) /\ AreFiles(process.out)
    /\ process.at \in {"look"} \cup Acting => process.files.receipt = record.receipt
    /\ process.at \in Acting => ActHolds
    /\ process.at = "run" => process.act \in {"project", "acquire"}
    /\ process.at \in {"register", "confirm"} => process.act \in Landing!Durable
    /\ process.at = "register" => IsArtifact(Landing!Made)
    /\ process.at = "write" /\ process.act = "issue" =>
          process.out.receipt # Landing!NoReceipt

LandingInv == AreFiles(record) /\ ProcessHolds /\ ArtifactsAreSettled

(* What the controller derives of the packet and its receipt.              *)
LEMMA Derived ==
    ASSUME NEW f
    PROVE  /\ Landing!Derive(f) = "issue" => f.review = "finalization" /\ f.receipt = "missing"
           /\ Landing!Derive(f) = "mark" => f.review \notin {"finalized", "invalid", "finalization"}
           /\ Landing!Derive(f) = "finalize" => f.review = "finalization" /\ f.receipt # "missing"
  BY DEF Landing!Derive, Landing!PreMerge, Landing!BeforeMerge

(* ... as they are in the files.                                           *)
LEMMA DerivedOf ==
    ASSUME NEW f, AreFiles(f)
    PROVE  /\ Landing!Derive(Landing!Facts(f)) = "issue" =>
                 f.packet.status = "finalization" /\ f.receipt = Landing!NoReceipt
           /\ Landing!Derive(Landing!Facts(f)) = "mark" => f.packet.status # "finalization"
           /\ Landing!Derive(Landing!Facts(f)) = "finalize" =>
                 f.packet.status = "finalization" /\ f.receipt # Landing!NoReceipt
  <1> DEFINE facts == Landing!Facts(f)
  <1>1. facts.review = Landing!ReviewPacketState(f)
    BY DEF Landing!Facts
  <1>2. f.receipt # Landing!NoReceipt => facts.receipt # "missing"
    BY DEF Landing!Facts
  <1>4. f.receipt = Landing!NoReceipt /\ f.packet.status = "finalization" =>
           facts.receipt = "missing"
    <2> SUFFICES ASSUME f.receipt = Landing!NoReceipt, f.packet.status = "finalization"
                 PROVE  facts.receipt = "missing"
      OBVIOUS
    <2>1. Landing!ReadinessSubject(f.packet).status = "finalization"
      BY DEF Landing!ReadinessSubject, AreFiles, PacketFields
    <2>2. f.receipt.subject # Landing!ReadinessSubject(f.packet)
      BY <2>1 DEF Landing!NoReceipt, Landing!NoPacket
    <2> QED
      BY <2>2 DEF Landing!Facts
  <1> HIDE DEF facts
  <1>3. /\ Landing!ReviewPacketState(f) = "finalization" => f.packet.status = "finalization"
        /\ f.packet.status = "finalization" =>
              Landing!ReviewPacketState(f) \in {"finalized", "invalid", "finalization"}
    BY DEF Landing!ReviewPacketState
  <1> QED
    BY <1>1, <1>2, <1>3, <1>4, Derived DEF facts

(* There are no files at first ...                                         *)
LEMMA NoFilesAre == AreFiles(Landing!NoFiles)
  BY DEF AreFiles, Landing!NoFiles, Landing!NoArchitecture, Landing!NoStart, Landing!NoPacket,
         FileNames, ArchitectureFields, StartFields, PacketFields

(* ... and no artifacts.                                                   *)
LEMMA LandingInit == Landing!Init => LandingInv
  <1> SUFFICES ASSUME Landing!Init PROVE LandingInv
    OBVIOUS
  <1>1. record = Landing!NoFiles /\ journal = {} /\ process = Landing!Idle
    BY DEF Landing!Init
  <1>2. /\ DOMAIN Landing!Idle = {"at", "files", "head", "act", "out"} /\ Landing!Idle.at = "idle"
        /\ Landing!Idle.files = Landing!NoFiles /\ Landing!Idle.out = Landing!NoFiles
    BY DEF Landing!Idle
  <1> QED
    BY <1>1, <1>2, NoFilesAre DEF LandingInv, ProcessHolds, ArtifactsAreSettled, Acting

(* A candidate determines what is made of it.                              *)
LEMMA OneArtifact == LandingInv => Landing!OneArtifactPerCandidate
  <1> SUFFICES ASSUME LandingInv, NEW a \in journal, NEW b \in journal, a.from = b.from
               PROVE  a.made = b.made
    BY DEF Landing!OneArtifactPerCandidate
  <1>1. IsArtifact(a) /\ IsArtifact(b)
    BY DEF LandingInv, ArtifactsAreSettled
  <1>2. a.type = b.type
    BY <1>1 DEF IsArtifact, FieldsOf, ArchitectureFields, StartFields, PacketFields
  <1> QED
    BY <1>1, <1>2 DEF IsArtifact

(* What was settled stays so, when the receipt does.                       *)
LEMMA SettledStays ==
    ASSUME LandingInv, record'.receipt = record.receipt
    PROVE  \A a : IsArtifact(a) => IsArtifact(a)'
  BY DEF IsArtifact, Settled, Landing!NoReceipt, Landing!NoPacket, Landing!NoResult, FieldsOf,
         ArchitectureFields, StartFields, PacketFields

(* A step of the controller that only it sees.                             *)
LEMMA ControllerMoves ==
    ASSUME LandingInv, UNCHANGED <<record, journal>>, ProcessHolds'
    PROVE  LandingInv'
  BY SettledStays DEF LandingInv, ArtifactsAreSettled, AreFiles, FileNames, ArchitectureFields,
                      StartFields, PacketFields

(* The controller is idle, or works on the items.                          *)
LEMMA IdleHolds ==
    ASSUME NEW state, state \in {"idle", "complete", "parent", "close"},
           DOMAIN process' = {"at", "files", "head", "act", "out"}, process'.at = state,
           AreFiles(process'.files), AreFiles(process'.out)
    PROVE  ProcessHolds'
  BY DEF ProcessHolds, Acting, AreFiles, FileNames, ArchitectureFields, StartFields, PacketFields

(* A step that fails, and a stop, leave it idle.                           *)
LEMMA FailsKeeps ==
    ASSUME LandingInv, UNCHANGED <<record, journal>>, process' = Landing!Idle
    PROVE  LandingInv'
  <1>1. /\ DOMAIN Landing!Idle = {"at", "files", "head", "act", "out"} /\ Landing!Idle.at = "idle"
        /\ Landing!Idle.files = Landing!NoFiles /\ Landing!Idle.out = Landing!NoFiles
    BY DEF Landing!Idle
  <1>2. ProcessHolds'
    BY <1>1, NoFilesAre, IdleHolds
  <1> QED
    BY <1>2, ControllerMoves

(* The process is unchanged, and so are its files.                         *)
LEMMA OthersKeep ==
    ASSUME LandingInv, UNCHANGED <<process, journal>>, AreFiles(record'),
           record'.receipt = record.receipt
    PROVE  LandingInv'
  <1>1. \A a : IsArtifact(a) => IsArtifact(a)'
    BY SettledStays
  <1>2. Landing!Made' = Landing!Made
    BY DEF Landing!Made, Landing!Files
  <1>3. ProcessHolds'
    BY <1>1, <1>2
    DEF LandingInv, ProcessHolds, ActHolds, AreFiles, FileNames, ArchitectureFields, StartFields,
        PacketFields, Acting, Landing!Durable, Landing!NoReceipt, Landing!NoPacket,
        Landing!NoResult
  <1>4. ArtifactsAreSettled'
    BY <1>1 DEF LandingInv, ArtifactsAreSettled
  <1> QED
    BY <1>3, <1>4 DEF LandingInv, AreFiles, FileNames, ArchitectureFields, StartFields, PacketFields

(* What is in the controller's state.                                      *)
Shape == {"at", "files", "head", "act", "out"}

(* A local candidate is made, evidence is acquired, or readiness issued.   *)
LEMMA LocalKeeps ==
    ASSUME LandingInv, UNCHANGED <<record, journal>>, process.at \in {"act", "run"},
           process' # Landing!Idle => /\ DOMAIN process' = Shape /\ process'.at \in {"run", "write"}
                                      /\ process'.act = process.act /\ process'.files = process.files
                                      /\ AreFiles(process'.out)
                                      /\ process'.at = "run" =>
                                            process.act \in {"project", "acquire"}
                                      /\ process.act = "issue" =>
                                            process'.out.receipt # Landing!NoReceipt
    PROVE  LandingInv'
  <1>1. CASE process' = Landing!Idle
    BY <1>1, FailsKeeps
  <1>2. CASE process' # Landing!Idle
    <2>1. ProcessHolds'
      BY <1>2
      DEF LandingInv, ProcessHolds, ActHolds, Acting, AreFiles, Shape, FileNames,
          ArchitectureFields, StartFields, PacketFields, Landing!NoReceipt, Landing!NoPacket,
          Landing!NoResult
    <2> QED
      BY <2>1, ControllerMoves
  <1> QED
    BY <1>1, <1>2

(* What it looks at is the receipt that there is, and what it derives.     *)
LEMMA ReadLooks ==
    ASSUME LandingInv, Landing!Read \/ Landing!Look
    PROVE  LandingInv'
  <1>1. UNCHANGED <<record, journal>>
    BY DEF Landing!Read, Landing!Look
  <1>2. CASE Landing!Read
    <2>1. process' = [at |-> "look", files |-> record, head |-> 0, act |-> "none", out |-> record]
      BY <1>2 DEF Landing!Read, Landing!Idle
    <2>2. ProcessHolds'
      BY <1>1, <2>1 DEF LandingInv, ProcessHolds, Acting, AreFiles, FileNames,
         ArchitectureFields, StartFields, PacketFields
    <2> QED
      BY <1>1, <2>2, ControllerMoves
  <1>3. CASE Landing!Look /\ process' # Landing!Idle
    <2> DEFINE next == Landing!Derive(Landing!Facts(process.files))
    <2>1. /\ process.at = "look" /\ DOMAIN process = Shape
          /\ AreFiles(process.files) /\ AreFiles(process.out)
          /\ process.files.receipt = record.receipt
      BY <1>3 DEF Landing!Look, LandingInv, ProcessHolds, Shape
    <2>2. /\ DOMAIN process' = Shape /\ process'.at = "act" /\ process'.act = next
          /\ process'.files = process.files /\ process'.out = process.out
      BY <1>3, <2>1 DEF Landing!Look, Shape
    <2> HIDE DEF next
    <2>3. /\ next = "issue" => process.files.packet.status = "finalization"
                               /\ process.files.receipt = Landing!NoReceipt
          /\ next = "mark" => process.files.packet.status # "finalization"
          /\ next = "finalize" => process.files.packet.status = "finalization"
                                  /\ process.files.receipt # Landing!NoReceipt
      BY <2>1, DerivedOf DEF next
    <2>4. ActHolds'
      BY <1>1, <2>1, <2>2, <2>3 DEF ActHolds, Landing!NoReceipt, Landing!NoPacket, Landing!NoResult
    <2>5. ProcessHolds'
      BY <1>1, <2>1, <2>2, <2>4 DEF ProcessHolds, Acting, AreFiles, Shape, FileNames,
         ArchitectureFields, StartFields, PacketFields
    <2> QED
      BY <1>1, <2>5, ControllerMoves
  <1>4. CASE process' = Landing!Idle
    BY <1>1, <1>4, FailsKeeps
  <1> QED
    BY <1>2, <1>3, <1>4

(* The candidates are drafted ...                                          *)
LEMMA CandidatesKeep ==
    ASSUME LandingInv, Landing!DraftStart \/ Landing!DraftPacket \/ Landing!DraftFinalization
    PROVE  LandingInv'
  <1>1. /\ UNCHANGED <<record, journal>> /\ process.at = "act" /\ DOMAIN process = Shape
        /\ process.act \in {"draft start", "draft packet", "draft finalization"}
        /\ AreFiles(process.files) /\ AreFiles(process.out)
    BY DEF Landing!DraftStart, Landing!DraftPacket, Landing!DraftFinalization, LandingInv,
           ProcessHolds, Shape
  <1>2. CASE Landing!DraftStart
    <2> DEFINE start == [state |-> "draft", architecture |-> current, scope |-> Landing!Scope,
                         stamp |-> crashes]
    <2>1. process' = Landing!Idle
          \/ process' = [process EXCEPT !.at = "write",
                                        !.out = [process.out EXCEPT !.start = start]]
      BY <1>1, <1>2 DEF Landing!DraftStart, Landing!Fails
    <2>2. DOMAIN start = StartFields
      BY DEF StartFields
    <2> HIDE DEF start
    <2>3. AreFiles([process.out EXCEPT !.start = start])
      BY <1>1, <2>2 DEF AreFiles, FileNames
    <2> QED
      BY <1>1, <2>1, <2>3, LocalKeeps DEF Shape
  <1>3. CASE Landing!DraftPacket \/ Landing!DraftFinalization
    <2>1. process' = Landing!Idle
          \/ \E sheet : /\ DOMAIN sheet = PacketFields
                         /\ process' = [process EXCEPT !.at = "write",
                                          !.out = [process.out EXCEPT !.packet = sheet]]
      <3>1. CASE Landing!DraftPacket
        <4> DEFINE sheet == [status |-> "draft", architecture |-> Landing!Files.start.architecture,
                               head |-> process.head, tests |-> Landing!Files.evidence.tests,
                               operating |-> Landing!Files.evidence.operating,
                               exception |-> Landing!Files.evidence.exception, stamp |-> crashes]
        <4>1. DOMAIN sheet = PacketFields
          BY DEF PacketFields
        <4>2. process' = Landing!Idle \/ process' = [process EXCEPT !.at = "write",
                                                  !.out = [process.out EXCEPT !.packet = sheet]]
          BY <3>1 DEF Landing!DraftPacket, Landing!Fails
        <4> HIDE DEF sheet
        <4> QED
          BY <4>1, <4>2
      <3>2. CASE Landing!DraftFinalization
        <4> DEFINE sheet == [process.files.packet EXCEPT
                   !.status = "finalization", !.tests = process.files.evidence.tests,
                   !.operating = process.files.evidence.operating,
                   !.exception = process.files.evidence.exception]
        <4>1. DOMAIN sheet = PacketFields
          BY <1>1 DEF AreFiles
        <4>2. process' = Landing!Idle \/ process' = [process EXCEPT !.at = "write",
                                                  !.out = [process.out EXCEPT !.packet = sheet]]
          BY <3>2 DEF Landing!DraftFinalization, Landing!Fails, Landing!Files
        <4> HIDE DEF sheet
        <4> QED
          BY <4>1, <4>2
      <3> QED
        BY <1>3, <3>1, <3>2
    <2>2. CASE process' = Landing!Idle
      BY <1>1, <2>2, FailsKeeps
    <2>3. ASSUME NEW sheet, DOMAIN sheet = PacketFields,
                 process' = [process EXCEPT !.at = "write",
                                            !.out = [process.out EXCEPT !.packet = sheet]]
          PROVE  LandingInv'
      <3>1. AreFiles([process.out EXCEPT !.packet = sheet])
        BY <1>1, <2>3 DEF AreFiles, FileNames
      <3> QED
        BY <1>1, <2>3, <3>1, LocalKeeps DEF Shape
    <2> QED
      BY <2>1, <2>2, <2>3
  <1> QED
    BY <1>2, <1>3

(* ... and what they rest on.                                              *)
LEMMA EvidenceKeeps ==
    ASSUME LandingInv, NEW result, Landing!Acquire \/ Landing!RunEnds(result)
    PROVE  LandingInv'
  <1>1. /\ UNCHANGED <<record, journal>> /\ process.at \in {"act", "run"} /\ DOMAIN process = Shape
        /\ AreFiles(process.files) /\ AreFiles(process.out)
    BY DEF Landing!Acquire, Landing!RunEnds, LandingInv, ProcessHolds, Shape
  <1>2. CASE Landing!Acquire
    BY <1>1, <1>2, LocalKeeps DEF Landing!Acquire, Shape
  <1>3. CASE Landing!RunEnds(result)
    <2>1. process' = Landing!Idle
          \/ \E e : process' = [process EXCEPT !.at = "write",
                                   !.out = [process.out EXCEPT !.evidence = e]]
      BY <1>3 DEF Landing!RunEnds
    <2>2. process.act # "issue"
      BY <1>3 DEF Landing!RunEnds, LandingInv, ProcessHolds
    <2>3. CASE process' = Landing!Idle
      BY <1>1, <2>3, FailsKeeps
    <2>4. ASSUME NEW e, process' = [process EXCEPT !.at = "write",
                                       !.out = [process.out EXCEPT !.evidence = e]]
          PROVE  LandingInv'
      <3>1. AreFiles([process.out EXCEPT !.evidence = e])
        BY <1>1 DEF AreFiles, FileNames
      <3> QED
        BY <1>1, <2>2, <2>4, <3>1, LocalKeeps DEF Shape
    <2> QED
      BY <2>1, <2>3, <2>4
  <1> QED
    BY <1>2, <1>3

(* A candidate is admitted with what the service settles in it.            *)
LEMMA AdmitKeeps ==
    ASSUME LandingInv, Landing!Admit
    PROVE  LandingInv'
  <1>1. /\ UNCHANGED <<record, journal>> /\ process.at = "act" /\ DOMAIN process = Shape
        /\ process.act \in Landing!Durable
        /\ AreFiles(process.files) /\ AreFiles(process.out)
        /\ process.files.receipt = record.receipt /\ ActHolds
    BY DEF Landing!Admit, LandingInv, ProcessHolds, Shape, Acting
  <1>2. CASE process' = Landing!Idle
    BY <1>1, <1>2, FailsKeeps
  <1>3. ASSUME NEW name \in {"architecture", "start", "packet"}, NEW result,
               result = Settled(name, process.files[name]), DOMAIN result = FieldsOf(name),
               name = (CASE process.act = "persist" -> "architecture"
                         [] process.act = "evaluate" -> "start"
                         [] OTHER -> "packet"),
               process' = [process EXCEPT !.at = "register",
                                          !.out = [process.out EXCEPT ![name] = result]]
        PROVE  LandingInv'
    <2> DEFINE out == [process.out EXCEPT ![name] = result]
    <2>1. AreFiles(out) /\ out[name] = result
      BY <1>1, <1>3 DEF AreFiles, FileNames, FieldsOf
    <2>2. process' = [process EXCEPT !.at = "register", !.out = out]
      BY <1>3
    <2> HIDE DEF out
    <2>3. /\ DOMAIN process' = Shape /\ process'.at = "register" /\ process'.act = process.act
          /\ process'.files = process.files /\ process'.out = out
      BY <1>1, <2>2 DEF Shape
    <2>4. Landing!Made' = [type |-> name, from |-> process.files[name], made |-> result]
      BY <1>1, <1>3, <2>1, <2>3 DEF Landing!Made, Landing!Files
    <2>5. name = "packet" /\ process.files.packet.status = "finalization" =>
             record.receipt # Landing!NoReceipt
      BY <1>1, <1>3 DEF ActHolds, Landing!Durable
    <2>6. IsArtifact([type |-> name, from |-> process.files[name], made |-> result])
      BY <1>1, <1>3, <2>5 DEF IsArtifact, FieldsOf, AreFiles
    <2>7. (IsArtifact(Landing!Made))'
      BY <1>1, <2>4, <2>6, SettledStays
    <2>8. ProcessHolds'
      BY <1>1, <2>1, <2>3, <2>7
      DEF ProcessHolds, ActHolds, Acting, Shape, AreFiles, FileNames, ArchitectureFields,
          StartFields, PacketFields, Landing!Durable, Landing!NoReceipt, Landing!NoPacket,
          Landing!NoResult
    <2> QED
      BY <1>1, <2>8, ControllerMoves
  <1>4. ASSUME process' # Landing!Idle
        PROVE  LandingInv'
    <2>1. process' = [process EXCEPT !.at = "register",
                          !.out = CASE Landing!Candidate.type = "architecture" ->
                                          [@ EXCEPT !.architecture = Landing!Candidate.made]
                                    [] Landing!Candidate.type = "start" ->
                                          [@ EXCEPT !.start = Landing!Candidate.made]
                                    [] OTHER -> [@ EXCEPT !.packet = Landing!Candidate.made]]
      BY <1>4 DEF Landing!Admit
    <2>2. CASE process.act = "persist"
      <3> DEFINE result == [Landing!Files.architecture EXCEPT !.state = "durable"]
      <3>1. Landing!Candidate.type = "architecture" /\ Landing!Candidate.made = result
        BY <2>2 DEF Landing!Candidate
      <3>2. result = Settled("architecture", process.files["architecture"])
        BY DEF Settled, Landing!Files
      <3>3. DOMAIN result = FieldsOf("architecture")
        BY <1>1 DEF AreFiles, FieldsOf, Landing!Files
      <3>4. process' = [process EXCEPT !.at = "register",
                                       !.out = [process.out EXCEPT !["architecture"] = result]]
        BY <2>1, <3>1
      <3> HIDE DEF result
      <3> QED
        BY <1>3, <2>2, <3>2, <3>3, <3>4
    <2>3. CASE process.act = "evaluate"
      <3> DEFINE result == [Landing!Files.start EXCEPT !.state = "ready"]
      <3>1. Landing!Candidate.type = "start" /\ Landing!Candidate.made = result
        BY <2>3 DEF Landing!Candidate
      <3>2. result = Settled("start", process.files["start"])
        BY DEF Settled, Landing!Files
      <3>3. DOMAIN result = FieldsOf("start")
        BY <1>1 DEF AreFiles, FieldsOf, Landing!Files
      <3>4. process' = [process EXCEPT !.at = "register",
                                       !.out = [process.out EXCEPT !["start"] = result]]
        BY <2>1, <3>1
      <3> HIDE DEF result
      <3> QED
        BY <1>3, <2>3, <3>2, <3>3, <3>4
    <2>4. CASE process.act \in {"mark", "finalize"}
      <3> DEFINE result == Landing!Candidate.made
      <3>1. Landing!Candidate.type = "packet"
        BY <2>4 DEF Landing!Candidate
      <3>2. result = Settled("packet", process.files["packet"])
        <4>1. CASE process.act = "mark"
          BY <1>1, <4>1
          DEF Landing!Candidate, Settled, Landing!Files, Landing!MergeReadyTime, ActHolds
        <4>2. CASE process.act = "finalize"
          BY <1>1, <4>2
          DEF Landing!Candidate, Settled, Landing!Files, Landing!FinalizedTime, ActHolds
        <4> QED
          BY <2>4, <4>1, <4>2
      <3>3. DOMAIN result = FieldsOf("packet")
        BY <1>1, <3>2 DEF AreFiles, FieldsOf, Settled
      <3>4. process' = [process EXCEPT !.at = "register",
                                       !.out = [process.out EXCEPT !["packet"] = result]]
        BY <2>1, <3>1
      <3> HIDE DEF result
      <3> QED
        BY <1>3, <2>4, <3>2, <3>3, <3>4
    <2> QED
      BY <1>1, <2>2, <2>3, <2>4 DEF Landing!Durable
  <1> QED
    BY <1>2, <1>4

(* It is registered, and confirmed.                                        *)
LEMMA RegisterKeeps ==
    ASSUME LandingInv, Landing!Register \/ Landing!Confirm
    PROVE  LandingInv'
  <1>1. /\ record' = record /\ process.at \in {"register", "confirm"} /\ DOMAIN process = Shape
        /\ process.act \in Landing!Durable
    BY DEF Landing!Register, Landing!Confirm, LandingInv, ProcessHolds, Shape
  <1>2. \A a : IsArtifact(a) => IsArtifact(a)'
    BY <1>1, SettledStays
  <1>3. CASE process' = Landing!Idle /\ UNCHANGED journal
    BY <1>1, <1>3, FailsKeeps
  <1>4. CASE \E place \in {"confirm", "write"} : process' = [process EXCEPT !.at = place]
    <2>1. /\ DOMAIN process' = Shape /\ process'.at \in {"confirm", "write"}
          /\ process'.act = process.act
          /\ process'.files = process.files /\ process'.out = process.out
      BY <1>1, <1>4 DEF Shape
    <2>2. ProcessHolds'
      BY <1>1, <2>1
      DEF LandingInv, ProcessHolds, ActHolds, Acting, Shape, AreFiles, FileNames,
          ArchitectureFields, StartFields, PacketFields, Landing!Durable, Landing!NoReceipt,
          Landing!NoPacket, Landing!NoResult
    <2>3. \A a \in journal' : IsArtifact(a)
      BY DEF Landing!Register, Landing!Confirm, LandingInv, ProcessHolds, ArtifactsAreSettled
    <2>4. ArtifactsAreSettled'
      BY <1>2, <2>3 DEF ArtifactsAreSettled
    <2> QED
      BY <1>1, <2>2, <2>4 DEF LandingInv, AreFiles, FileNames, ArchitectureFields, StartFields,
                              PacketFields
  <1> QED
    BY <1>3, <1>4 DEF Landing!Register, Landing!Confirm, Landing!Fails

(* Readiness is issued for a candidate.                                    *)
LEMMA IssueKeeps ==
    ASSUME LandingInv, Landing!Issue
    PROVE  LandingInv'
  <1> DEFINE proof ==
               [subject |-> Landing!ReadinessSubject(Landing!Files.packet), stamp |-> crashes]
  <1>1. /\ UNCHANGED <<record, journal>> /\ process.at = "act" /\ process.act = "issue"
        /\ DOMAIN process = Shape /\ AreFiles(process.files) /\ AreFiles(process.out)
        /\ process.files.packet.status = "finalization"
    BY DEF Landing!Issue, LandingInv, ProcessHolds, Shape, Acting, ActHolds
  <1>2. proof # Landing!NoReceipt
    <2>1. Landing!ReadinessSubject(Landing!Files.packet).status = "finalization"
      BY <1>1 DEF Landing!ReadinessSubject, AreFiles, PacketFields, Landing!Files
    <2> QED
      BY <2>1 DEF Landing!NoReceipt, Landing!NoPacket
  <1>3. process' = Landing!Idle
        \/ process' = [process EXCEPT !.at = "write",
                                      !.out = [process.out EXCEPT !.receipt = proof]]
    BY DEF Landing!Issue
  <1> HIDE DEF proof
  <1>4. AreFiles([process.out EXCEPT !.receipt = proof])
        /\ [process.out EXCEPT !.receipt = proof].receipt = proof
    BY <1>1 DEF AreFiles, FileNames
  <1> QED
    BY <1>1, <1>2, <1>3, <1>4, LocalKeeps DEF Shape

(* The file of the action is written; a receipt is written once.           *)
LEMMA WriteKeeps ==
    ASSUME LandingInv, Landing!Write
    PROVE  LandingInv'
  <1>1. /\ process.at = "write" /\ process' = Landing!Idle /\ journal' = journal
        /\ AreFiles(record) /\ AreFiles(process.out)
    BY DEF Landing!Write, LandingInv, ProcessHolds
  <1>2. /\ DOMAIN Landing!Idle = {"at", "files", "head", "act", "out"} /\ Landing!Idle.at = "idle"
        /\ Landing!Idle.files = Landing!NoFiles /\ Landing!Idle.out = Landing!NoFiles
    BY DEF Landing!Idle
  <1>3. ProcessHolds'
    BY <1>1, <1>2, NoFilesAre, IdleHolds
  <1>4. CASE process.act = "issue"
    <2>1. record.receipt = Landing!NoReceipt
      BY <1>1, <1>4 DEF LandingInv, ProcessHolds, ActHolds, Acting
    <2>2. AreFiles(record')
      BY <1>1, <1>4 DEF Landing!Write, AreFiles, FileNames
    <2>3. ArtifactsAreSettled'
      <3> SUFFICES ASSUME NEW a \in journal
                   PROVE  IsArtifact(a)'
        BY <1>1 DEF ArtifactsAreSettled
      <3>1. IsArtifact(a) /\ (a.type = "packet" => a.from.status # "finalization")
        BY <2>1 DEF LandingInv, ArtifactsAreSettled, IsArtifact
      <3> QED
        BY <3>1 DEF IsArtifact, Settled, FieldsOf, ArchitectureFields, StartFields, PacketFields
    <2> QED
      BY <1>3, <2>2, <2>3 DEF LandingInv, AreFiles, FileNames, ArchitectureFields, StartFields,
                              PacketFields
  <1>5. CASE process.act # "issue"
    <2>1. AreFiles(record') /\ record'.receipt = record.receipt
      <3>1. \E name \in {"architecture", "start", "evidence", "packet"} :
               record' = [record EXCEPT ![name] = process.out[name]]
        BY <1>5 DEF Landing!Write
      <3> QED
        BY <1>1, <3>1 DEF AreFiles, FileNames
    <2>2. ArtifactsAreSettled'
      BY <1>1, <2>1, SettledStays DEF LandingInv, ArtifactsAreSettled
    <2> QED
      BY <1>3, <2>1, <2>2 DEF LandingInv, AreFiles, FileNames, ArchitectureFields, StartFields,
                              PacketFields
  <1> QED
    BY <1>4, <1>5

(* The items are completed and closed, ...                                 *)
LEMMA CloseoutKeeps ==
    ASSUME LandingInv,
           \/ Landing!Closeout \/ Landing!Complete
           \/ Landing!RereadParent \/ Landing!CloseStaleOpen
    PROVE  LandingInv'
  <1>1. /\ UNCHANGED <<record, journal>> /\ process.at \in {"idle", "complete", "parent", "close"}
        /\ DOMAIN process = Shape /\ AreFiles(process.files) /\ AreFiles(process.out)
    BY DEF Landing!Closeout, Landing!Complete, Landing!RereadParent, Landing!CloseStaleOpen,
           LandingInv, ProcessHolds, Shape
  <1>2. /\ DOMAIN Landing!Idle = Shape /\ Landing!Idle.files = Landing!NoFiles
        /\ Landing!Idle.out = Landing!NoFiles
    BY DEF Landing!Idle, Shape
  <1>3. CASE process' \in {Landing!Idle, process}
    <2>1. CASE process' = Landing!Idle
      BY <1>1, <2>1, FailsKeeps
    <2>2. CASE process' = process
      BY <1>1, <2>2, OthersKeep DEF LandingInv
    <2> QED
      BY <1>3, <2>1, <2>2
  <1>4. CASE \E place \in {"parent", "close"} : process' = [process EXCEPT !.at = place]
    <2>1. /\ DOMAIN process' = Shape /\ process'.at \in {"parent", "close"}
          /\ process'.files = process.files /\ process'.out = process.out
      BY <1>1, <1>4 DEF Shape
    <2>2. AreFiles(process'.files) /\ AreFiles(process'.out)
      BY <1>1, <2>1
    <2> QED
      BY <1>1, <2>1, <2>2, IdleHolds, ControllerMoves DEF Shape
  <1>5. CASE Landing!Closeout
    <2>1. \E act : process' = [at |-> "complete", files |-> Landing!NoFiles, head |-> 0, act |-> act,
                               out |-> Landing!NoFiles]
      BY <1>5 DEF Landing!Closeout, Landing!Idle
    <2>2. /\ DOMAIN process' = Shape /\ process'.at = "complete"
          /\ AreFiles(process'.files) /\ AreFiles(process'.out)
      BY <2>1, NoFilesAre DEF Shape
    <2> QED
      BY <1>1, <2>2, IdleHolds, ControllerMoves DEF Shape
  <1> QED
    BY <1>3, <1>4, <1>5
    DEF Landing!Complete, Landing!RereadParent, Landing!CloseStaleOpen, Landing!Fails

(* ... and others work on the source, the evidence and the scope.          *)
LEMMA OthersWork ==
    ASSUME LandingInv,
           \/ Landing!BindFinalized \/ Landing!Commit \/ Landing!Push
           \/ Landing!OpenPullRequest \/ Landing!Merge
           \/ Landing!HandlePullRequest \/ Landing!EditEvidence
           \/ Landing!ApproveException \/ Landing!ChangeScope
           \/ Landing!AuthorArchitecture
    PROVE  LandingInv'
  <1>1. /\ UNCHANGED <<process, journal>>
        /\ \/ UNCHANGED record
           \/ \E e : record' = [record EXCEPT !.evidence = e]
           \/ record' = [record EXCEPT !.architecture = Landing!Local(Landing!NextVersion)]
    BY DEF Landing!BindFinalized, Landing!Commit, Landing!Push, Landing!OpenPullRequest,
           Landing!Merge, Landing!SourceStep, Landing!HandlePullRequest, Landing!EditEvidence,
           Landing!ApproveException, Landing!ChangeScope, Landing!AuthorArchitecture
  <1>2. AreFiles(record') /\ record'.receipt = record.receipt
    <2>1. DOMAIN Landing!Local(Landing!NextVersion) = ArchitectureFields
      BY DEF Landing!Local, ArchitectureFields
    <2>2. AreFiles(record)
      BY DEF LandingInv
    <2>3. CASE UNCHANGED record
      BY <2>2, <2>3
    <2>4. CASE \E e : record' = [record EXCEPT !.evidence = e]
      BY <2>2, <2>4 DEF AreFiles, FileNames
    <2>5. CASE record' = [record EXCEPT !.architecture = Landing!Local(Landing!NextVersion)]
      BY <2>1, <2>2, <2>5 DEF AreFiles, FileNames
    <2> QED
      BY <1>1, <2>3, <2>4, <2>5
  <1> QED
    BY <1>1, <1>2, OthersKeep

(* Another session makes an architecture durable.                          *)
LEMMA OthersArchitectureKeeps ==
    ASSUME LandingInv, Landing!OthersArchitecture
    PROVE  LandingInv'
  <1> DEFINE from == Landing!Local(Landing!NextVersion)
             a == [type |-> "architecture", from |-> from,
                   made |-> [from EXCEPT !.state = "durable"]]
  <1>1. UNCHANGED <<record, process>> /\ journal' = journal \cup {a}
    BY DEF Landing!OthersArchitecture
  <1>2. DOMAIN from = ArchitectureFields
    BY DEF Landing!Local, ArchitectureFields
  <1> HIDE DEF from
  <1>3. IsArtifact(a)
    BY <1>2 DEF IsArtifact, Settled, FieldsOf
  <1> HIDE DEF a
  <1>4. \A b : IsArtifact(b) => IsArtifact(b)'
    BY <1>1, SettledStays
  <1>5. ArtifactsAreSettled'
    BY <1>1, <1>3, <1>4 DEF LandingInv, ArtifactsAreSettled
  <1>6. Landing!Made' = Landing!Made
    BY <1>1 DEF Landing!Made, Landing!Files
  <1>7. ProcessHolds' /\ AreFiles(record')
    BY <1>1, <1>4, <1>6
    DEF LandingInv, ProcessHolds, ActHolds, AreFiles, FileNames, ArchitectureFields, StartFields,
        PacketFields, Acting, Landing!Durable, Landing!NoReceipt, Landing!NoPacket,
        Landing!NoResult
  <1> QED
    BY <1>5, <1>7 DEF LandingInv, AreFiles, FileNames, ArchitectureFields, StartFields, PacketFields

(* Every step of a landing keeps it.                                       *)
LEMMA LandingStep == LandingInv /\ [Landing!Next]_(Landing!vars) => LandingInv'
  <1> SUFFICES ASSUME LandingInv, [Landing!Next]_(Landing!vars)
               PROVE  LandingInv'
    OBVIOUS
  <1>1. CASE Landing!Controller
    <2>1. Landing!Acquire => Landing!Acquire \/ Landing!RunEnds("pass")
      OBVIOUS
    <2> QED
      BY <1>1, <2>1, ReadLooks, CandidatesKeep, EvidenceKeeps, AdmitKeeps, RegisterKeeps,
         IssueKeeps, WriteKeeps, CloseoutKeeps, OthersWork DEF Landing!Controller
  <1>2. CASE Landing!Stop
    BY <1>2, FailsKeeps DEF Landing!Stop
  <1>3. CASE UNCHANGED Landing!vars
    BY <1>3, OthersKeep DEF Landing!vars, LandingInv
  <1> QED
    BY <1>1, <1>2, <1>3, OthersWork, OthersArchitectureKeeps DEF Landing!Next

-----------------------------------------------------------------------------
(* The board of a Delivery.                                                *)

ItemFields == {"status", "held", "evidence", "whole", "pi", "bucket", "phase", "lock"}
BoardNames == {"item", "links", "next", "begun", "set", "unset", "kept"}
CallNames ==
    {"op", "on", "at", "saw", "got", "page", "root", "links", "change", "told", "truth",
     "disturbed"}
Relation == [id : Nat, from : Board!Ids, to : Board!Ids]

BoardShape ==
    /\ DOMAIN record = BoardNames
    /\ DOMAIN record.item = Board!Ids /\ \A i \in Board!Ids : DOMAIN record.item[i] = ItemFields
    /\ DOMAIN record.kept = Board!Ids
    /\ record.links \subseteq Relation /\ record.next \in Nat

(* What is told apart here of a call.                                      *)
CallShape(my) ==
    /\ DOMAIN my = CallNames
    /\ DOMAIN my.saw = ItemFields /\ my.on \in Board!Ids \cup {0}
    /\ my.op \in {"closing", "done", "retired"} => my.on = Board!Epic
    /\ my.op \in {"update", "complete"} => my.on \in {Board!Feature, Board!Story}
    /\ my.at \in {"read", "pages", "decide", "patch", "replay"} => my.on \in Board!Ids
    /\ my.at \in {"relations", "create", "delete"} => my.op \in {"set", "unset"}

Placed == {"update", "complete", "closing", "done", "retired"}

SendsInPlace(my) ==
    my.at \in {"patch", "replay"} /\ my.op \in Placed =>
        Board!IsInPlace(my.on, Board!Over(my.change, my.saw))

(* Who deletes leaves one that is older.                                   *)
LeavesOne(my) ==
    /\ my.op = "unset" => record.unset
    /\ my.at = "delete" /\ ~record.unset =>
          /\ Board!Matching # {}
          /\ \A l \in my.links : l \in Relation /\ \E m \in Board!Matching : m.id < l.id

BoardInv ==
    /\ BoardShape /\ DOMAIN call = Runners
    /\ \A c \in Runners : CallShape(call[c]) /\ SendsInPlace(call[c]) /\ LeavesOne(call[c])
    /\ Board!RoadmapFollows /\ Board!DependencyStays

(* A call that does nothing ...                                            *)
LEMMA IdleShape ==
    /\ CallShape(Board!Idle) /\ Board!Idle.op = "none" /\ Board!Idle.at = "idle"
  <1>1. DOMAIN Board!Idle.saw = ItemFields
    BY DEF Board!Idle, Board!Item, ItemFields
  <1>2. /\ DOMAIN Board!Idle = CallNames /\ Board!Idle.op = "none"
        /\ Board!Idle.at = "idle" /\ Board!Idle.on = 0
    BY DEF Board!Idle, CallNames
  <1> HIDE DEF Board!Idle
  <1> QED
    BY <1>1, <1>2 DEF CallShape

(* ... or has ended.                                                       *)
LEMMA AnswerShape ==
    ASSUME NEW c, NEW place \in {"answered", "refused"}, NEW told, NEW truth
    PROVE  /\ CallShape(Board!Answer(c, place, told, truth))
           /\ Board!Answer(c, place, told, truth).op = "none"
           /\ Board!Answer(c, place, told, truth).at = place
  <1> DEFINE a == Board!Answer(c, place, told, truth)
  <1>1. /\ DOMAIN a = CallNames /\ a.saw = Board!Idle.saw /\ a.on = Board!Idle.on
        /\ a.op = Board!Idle.op
        /\ a.at = place
    BY IdleShape DEF Board!Answer, CallShape, CallNames
  <1> HIDE DEF a
  <1>2. CallShape(a) /\ a.op = "none"
    BY <1>1, IdleShape DEF CallShape
  <1> QED
    BY <1>1, <1>2 DEF a

(* A board begins with its dependencies, or none.                          *)
LEMMA BoardInit == Board!Init => BoardInv
  <1> SUFFICES ASSUME Board!Init PROVE BoardInv
    OBVIOUS
  <1>1. PICK status \in {"ready", "done"},
             links \in {{}, {Board!Follows(1, Board!Upstream, Board!Story),
                            Board!Follows(2, Board!Upstream, Board!Story)},
                        {Board!Follows(1, Board!Outside, Board!Feature)}} :
          record = [item |-> [i \in Board!Ids |->
                                [Board!Item(IF i \in {Board!Feature, Board!Story} THEN status ELSE "ready")
                                   EXCEPT !.phase = IF i = Board!Epic THEN "Executing" ELSE @]],
                    links |-> links, next |-> 3, begun |-> 0,
                    set |-> links # {}, unset |-> FALSE, kept |-> [i \in Board!Ids |-> FALSE]]
    BY DEF Board!Init
  <1>2. links \subseteq Relation /\ \A l \in links : l.to \in {Board!Story, Board!Feature}
    BY DEF Board!Follows, Relation, Board!Ids, Board!Epic, Board!Feature, Board!Story,
           Board!Upstream, Board!Outside
  <1>3. /\ DOMAIN record = BoardNames /\ DOMAIN record.item = Board!Ids
        /\ DOMAIN record.kept = Board!Ids /\ record.links = links /\ record.next = 3
        /\ record.set = (links # {}) /\ \A i \in Board!Ids : ~record.kept[i]
    BY <1>1 DEF BoardNames
  <1>4. \A i \in Board!Ids : DOMAIN record.item[i] = ItemFields
    BY <1>1 DEF Board!Item, ItemFields
  <1>5. BoardShape
    BY <1>2, <1>3, <1>4 DEF BoardShape
  <1>6. DOMAIN call = Runners /\ \A c \in Runners : call[c] = Board!Idle
    BY DEF Board!Init
  <1>7. \A c \in Runners : CallShape(call[c]) /\ SendsInPlace(call[c]) /\ LeavesOne(call[c])
    BY <1>6, IdleShape DEF SendsInPlace, LeavesOne
  <1> QED
    BY <1>2, <1>3, <1>5, <1>6, <1>7 DEF BoardInv, Board!RoadmapFollows, Board!DependencyStays

(* What is sent, and what is not because it is so.                         *)
LEMMA SentOver ==
    ASSUME NEW saw, NEW change
    PROVE  Board!Over(Board!Sent(saw, change), saw) = Board!Over(change, saw)
  BY DEF Board!Over, Board!Sent

(* An update, or a completion, takes its bucket with it.                   *)
LEMMA BucketGoes ==
    ASSUME NEW i, NEW saw, NEW change, DOMAIN saw = ItemFields, i # Board!Epic,
           "bucket" \notin DOMAIN change, NEW op \in {"update", "complete"}
    PROVE  Board!IsInPlace(i, Board!Over(Board!WithBucket(op, saw, change), saw))
  <1> DEFINE after == Board!Over(change, saw)
             bucket == Board!BucketFor(after.status, after.pi)
             sent == Board!Over(Board!WithBucket(op, saw, change), saw)
  <1>1. CASE bucket # saw.bucket
    <2>1. Board!WithBucket(op, saw, change)
             = [f \in DOMAIN change \cup {"bucket"} |-> IF f = "bucket" THEN bucket ELSE change[f]]
      BY <1>1 DEF Board!WithBucket
    <2> HIDE DEF bucket
    <2>2. sent.bucket = bucket /\ sent.status = after.status /\ sent.pi = after.pi
      BY <2>1 DEF Board!Over, ItemFields
    <2> QED
      BY <2>2 DEF Board!IsInPlace, bucket
  <1>2. CASE bucket = saw.bucket
    <2>1. Board!WithBucket(op, saw, change) = change
      BY <1>2 DEF Board!WithBucket
    <2>2. after.bucket = saw.bucket
      BY DEF Board!Over, ItemFields
    <2> QED
      BY <1>2, <2>1, <2>2 DEF Board!IsInPlace
  <1> QED
    BY <1>1, <1>2

(* A call goes on, and the board stays.                                    *)
LEMMA CallGoes ==
    ASSUME BoardInv, NEW c \in Runners, NEW mine, Board!Goes(c, mine),
           CallShape(mine), SendsInPlace(mine), LeavesOne(mine)
    PROVE  BoardInv'
  <1>1. record' = record /\ call' = [call EXCEPT ![c] = mine]
    BY DEF Board!Goes
  <1>2. DOMAIN call' = Runners /\ \A d \in Runners : call'[d] = IF d = c THEN mine ELSE call[d]
    BY <1>1 DEF BoardInv
  <1>3. Board!Matching' = Board!Matching
    BY <1>1 DEF Board!Matching
  <1>4. \A d \in Runners : CallShape(call'[d]) /\ SendsInPlace(call'[d])
    BY <1>2 DEF BoardInv
  <1>5. \A d \in Runners : (LeavesOne(call[d]))'
    BY <1>1, <1>2, <1>3 DEF BoardInv, LeavesOne
  <1>6. BoardShape' /\ Board!RoadmapFollows' /\ Board!DependencyStays'
    BY <1>1
    DEF BoardInv, BoardShape, BoardNames, Board!RoadmapFollows, Board!DependencyStays, Board!Ids,
        ItemFields, Relation
  <1>7. \A d \in Runners : (CallShape(call[d]) /\ SendsInPlace(call[d]))'
    BY <1>4 DEF CallShape, SendsInPlace, CallNames, ItemFields, Placed
  <1> QED
    BY <1>2, <1>5, <1>6, <1>7 DEF BoardInv

(* ... as it does when it refuses or answers.                              *)
LEMMA CallAnswers ==
    ASSUME BoardInv, NEW c \in Runners, NEW place \in {"answered", "refused"}, NEW told, NEW truth,
           Board!Goes(c, Board!Answer(c, place, told, truth))
    PROVE  BoardInv'
  <1> DEFINE mine == Board!Answer(c, place, told, truth)
  <1>1. CallShape(mine) /\ mine.op = "none" /\ mine.at = place
    BY AnswerShape
  <1> HIDE DEF mine
  <1>2. SendsInPlace(mine) /\ LeavesOne(mine)
    BY <1>1 DEF SendsInPlace, LeavesOne
  <1> QED
    BY <1>1, <1>2, CallGoes DEF mine

(* What is being read.                                                     *)
LEMMA ReadsKeep ==
    ASSUME BoardInv, NEW c \in Runners,
           \/ Board!ReadTarget(c) \/ Board!ReadRoot(c) \/ Board!ReadPage(c)
           \/ Board!ReadRelations(c) \/ Board!ReadRelated(c)
    PROVE  BoardInv'
  <1>1. CallShape(call[c]) /\ LeavesOne(call[c]) /\ BoardShape
    BY DEF BoardInv
  <1>2. PICK mine : Board!Goes(c, mine) /\ DOMAIN mine = CallNames /\ mine.op = call[c].op
                    /\ mine.on = call[c].on /\ DOMAIN mine.saw = ItemFields
                    /\ mine.at \in {"pages", "decide", "related"}
                    /\ (mine.on \in Board!Ids \/ mine.at = "related")
    <2>1. CASE Board!ReadTarget(c)
      <3> DEFINE place == IF call[c].op \in {"closing", "done", "retired", "complete"}
                             \/ (call[c].op = "update" /\ call[c].on = Board!Feature)
                          THEN "pages" ELSE "decide"
                 mine == [call[c] EXCEPT !.saw = record.item[call[c].on], !.root = TRUE, !.at = place]
      <3>1. Board!Goes(c, mine) /\ call[c].on \in Board!Ids
        BY <1>1, <2>1 DEF Board!ReadTarget, CallShape
      <3>2. DOMAIN record.item[call[c].on] = ItemFields
        BY <1>1, <3>1 DEF BoardShape
      <3>3. place \in {"pages", "decide"}
        OBVIOUS
      <3> HIDE DEF place
      <3>4. /\ DOMAIN mine = CallNames /\ mine.op = call[c].op /\ mine.on = call[c].on
            /\ DOMAIN mine.saw = ItemFields /\ mine.at = place
        BY <1>1, <3>2 DEF CallShape, CallNames
      <3> HIDE DEF mine
      <3> QED
        BY <3>1, <3>3, <3>4
    <2>2. CASE Board!ReadRoot(c)
      <3> DEFINE mine == [call[c] EXCEPT !.root = TRUE]
      <3>1. Board!Goes(c, mine) /\ call[c].at = "pages"
        BY <2>2 DEF Board!ReadRoot
      <3>2. /\ DOMAIN mine = CallNames /\ mine.op = call[c].op /\ mine.on = call[c].on
            /\ DOMAIN mine.saw = ItemFields /\ mine.at = call[c].at
        BY <1>1 DEF CallShape, CallNames
      <3> HIDE DEF mine
      <3> QED
        BY <1>1, <3>1, <3>2 DEF CallShape
    <2>3. CASE Board!ReadPage(c)
      <3> DEFINE got == [i \in DOMAIN call[c].got \cup Board!OnPage(Board!Listed(call[c].op), call[c].page) |->
                           IF i \in Board!OnPage(Board!Listed(call[c].op), call[c].page)
                           THEN record.item[i] ELSE call[c].got[i]]
                 mine == [call[c] EXCEPT !.got = got, !.page = call[c].page + 1]
      <3>1. Board!Goes(c, mine) /\ call[c].at = "pages"
        BY <2>3 DEF Board!ReadPage
      <3> HIDE DEF got
      <3>2. /\ DOMAIN mine = CallNames /\ mine.op = call[c].op /\ mine.on = call[c].on
            /\ DOMAIN mine.saw = ItemFields /\ mine.at = call[c].at
        BY <1>1 DEF CallShape, CallNames
      <3> HIDE DEF mine
      <3> QED
        BY <1>1, <3>1, <3>2 DEF CallShape
    <2>4. CASE Board!ReadRelations(c)
      <3> DEFINE place == IF call[c].op = "review" THEN "related" ELSE "decide"
                 links == Board!Relations(IF call[c].op = "review" THEN Board!Scope ELSE Board!Project)
                 mine == [call[c] EXCEPT !.links = links, !.at = place]
      <3>1. Board!Goes(c, mine) /\ call[c].at = "pages"
        BY <2>4 DEF Board!ReadRelations, Board!PagesAreRead
      <3>2. place \in {"related", "decide"}
        OBVIOUS
      <3> HIDE DEF place, links
      <3>3. /\ DOMAIN mine = CallNames /\ mine.op = call[c].op /\ mine.on = call[c].on
            /\ DOMAIN mine.saw = ItemFields /\ mine.at = place
        BY <1>1 DEF CallShape, CallNames
      <3> HIDE DEF mine
      <3> QED
        BY <1>1, <3>1, <3>2, <3>3 DEF CallShape
    <2>5. CASE Board!ReadRelated(c)
      <3>1. PICK i \in Board!Unread(c) :
               /\ call[c].at = "related"
               /\ Board!Goes(c, [call[c] EXCEPT !.got = [j \in DOMAIN @ \cup {i} |->
                                              IF j = i THEN record.item[i] ELSE @[j]]])
        BY <2>5 DEF Board!ReadRelated
      <3> DEFINE got == [j \in DOMAIN call[c].got \cup {i} |->
                            IF j = i THEN record.item[i] ELSE call[c].got[j]]
                 mine == [call[c] EXCEPT !.got = got]
      <3>2. Board!Goes(c, mine)
        BY <3>1
      <3> HIDE DEF got
      <3>3. /\ DOMAIN mine = CallNames /\ mine.op = call[c].op /\ mine.on = call[c].on
            /\ DOMAIN mine.saw = ItemFields /\ mine.at = call[c].at
        BY <1>1 DEF CallShape, CallNames
      <3> HIDE DEF mine
      <3> QED
        BY <3>1, <3>2, <3>3
    <2> QED
      BY <2>1, <2>2, <2>3, <2>4, <2>5
  <1>3. CallShape(mine) /\ SendsInPlace(mine) /\ LeavesOne(mine)
    BY <1>1, <1>2 DEF CallShape, SendsInPlace, LeavesOne
  <1> QED
    BY <1>2, <1>3, CallGoes

(* An operation begins, and a review tells.                                *)
LEMMA BoardBegins ==
    ASSUME BoardInv, NEW c \in Runners, Board!Begin(c)
    PROVE  BoardInv'
  <1>00. PICK op \in Board!Ops : \E i \in Board!Targets(op) :
           /\ record' = [record EXCEPT !.begun = @ + 1, !.unset = @ \/ op = "unset"]
           /\ call' = [call EXCEPT ![c] =
                      [Board!Idle EXCEPT !.op = op, !.on = i,
                                         !.at = IF op = "review" THEN "pages"
                                                ELSE IF op \in {"set", "unset"} THEN "relations"
                                                ELSE "read"]]
    BY DEF Board!Begin
  <1>1. PICK i \in Board!Targets(op) :
           /\ record' = [record EXCEPT !.begun = @ + 1, !.unset = @ \/ op = "unset"]
           /\ call' = [call EXCEPT ![c] =
                      [Board!Idle EXCEPT !.op = op, !.on = i,
                                         !.at = IF op = "review" THEN "pages"
                                                ELSE IF op \in {"set", "unset"} THEN "relations"
                                                ELSE "read"]]
    BY <1>00
  <1>0. i \in Board!Ids
    BY DEF Board!Targets, Board!Ids, Board!Epic, Board!Feature, Board!Story, Board!Outside
  <1> DEFINE place == IF op = "review" THEN "pages"
                      ELSE IF op \in {"set", "unset"} THEN "relations" ELSE "read"
             mine == [Board!Idle EXCEPT !.op = op, !.on = i, !.at = place]
  <1>2. /\ BoardShape /\ DOMAIN call = Runners
        /\ \A d \in Runners : CallShape(call[d]) /\ SendsInPlace(call[d]) /\ LeavesOne(call[d])
    BY DEF BoardInv
  <1>3. /\ DOMAIN mine = CallNames /\ mine.op = op /\ mine.on = i /\ mine.at = place
        /\ DOMAIN mine.saw = ItemFields
    BY IdleShape DEF CallShape, CallNames
  <1>4. /\ place \in {"pages", "relations", "read"} /\ (place = "relations" => op \in {"set", "unset"})
        /\ op \in {"closing", "done", "retired"} => i = Board!Epic
        /\ op \in {"update", "complete"} => i \in {Board!Feature, Board!Story}
    BY <1>1 DEF Board!Targets
  <1>5. DOMAIN call' = Runners /\ \A d \in Runners : call'[d] = IF d = c THEN mine ELSE call[d]
    BY <1>1, <1>2
  <1> HIDE DEF place, mine
  <1>6. CallShape(mine) /\ SendsInPlace(mine)
    BY <1>0, <1>3, <1>4 DEF CallShape, SendsInPlace
  <1>7. /\ DOMAIN record' = BoardNames /\ record'.item = record.item
        /\ record'.links = record.links /\ record'.next = record.next
        /\ record'.kept = record.kept /\ record'.set = record.set
        /\ record'.unset = (record.unset \/ op = "unset")
    BY <1>1, <1>2 DEF BoardShape, BoardNames
  <1>8. BoardShape' /\ Board!RoadmapFollows' /\ Board!DependencyStays'
    BY <1>7
    DEF BoardInv, BoardShape, BoardNames, Board!RoadmapFollows, Board!DependencyStays, Board!Ids,
        ItemFields, Relation
  <1>9. Board!Matching' = Board!Matching
    BY <1>7 DEF Board!Matching
  <1>10. \A d \in Runners : (LeavesOne(call[d]))'
    BY <1>2, <1>3, <1>4, <1>5, <1>7, <1>9 DEF LeavesOne
  <1>11. \A d \in Runners : (CallShape(call[d]) /\ SendsInPlace(call[d]))'
    BY <1>2, <1>5, <1>6 DEF CallShape, SendsInPlace, CallNames, ItemFields, Placed
  <1> QED
    BY <1>5, <1>8, <1>10, <1>11 DEF BoardInv

(* A PATCH that was refused is sent again.                                 *)
LEMMA ConflictKeeps ==
    ASSUME BoardInv, NEW c \in Runners, Board!Conflict(c)
    PROVE  BoardInv'
  <1> DEFINE mine == [call[c] EXCEPT !.at = "replay"]
  <1>1. /\ CallShape(call[c]) /\ SendsInPlace(call[c]) /\ LeavesOne(call[c])
        /\ Board!Goes(c, mine) /\ call[c].at = "patch"
    BY DEF BoardInv, Board!Conflict
  <1>2. /\ DOMAIN mine = CallNames /\ mine.op = call[c].op /\ mine.on = call[c].on
        /\ mine.saw = call[c].saw /\ mine.change = call[c].change /\ mine.at = "replay"
    BY <1>1 DEF CallShape, CallNames
  <1> HIDE DEF mine
  <1>3. CallShape(mine) /\ SendsInPlace(mine) /\ LeavesOne(mine)
    BY <1>1, <1>2 DEF CallShape, SendsInPlace, LeavesOne
  <1> QED
    BY <1>1, <1>3, CallGoes

(* What is sent puts the item, or the initiative, in its place.            *)
LEMMA SendsKeeps ==
    ASSUME BoardInv, NEW c \in Runners, NEW wish, NEW mine, Board!Goes(c, mine),
           DOMAIN mine = CallNames,
           call[c].at \in {"decide", "pages"}, mine.at \in {"patch", "replay"},
           mine.op = call[c].op, mine.on = call[c].on, mine.saw = call[c].saw,
           mine.change = Board!Sent(call[c].saw, wish),
           call[c].op \in Placed => Board!IsInPlace(call[c].on, Board!Over(wish, call[c].saw))
    PROVE  BoardInv'
  <1>1. CallShape(call[c]) /\ LeavesOne(call[c])
    BY DEF BoardInv
  <1>2. SendsInPlace(mine)
    BY SentOver DEF SendsInPlace
  <1>3. CallShape(mine) /\ LeavesOne(mine)
    BY <1>1 DEF CallShape, LeavesOne
  <1> QED
    BY <1>2, <1>3, CallGoes

(* What is decided, of the initiative or of an item.                       *)
LEMMA DecideKeeps ==
    ASSUME BoardInv, NEW c \in Runners, Board!DecideChange(c) \/ Board!DecideItem(c)
    PROVE  BoardInv'
  <1>1. CallShape(call[c])
    BY DEF BoardInv
  <1>2. CASE Board!DecideChange(c)
    <2>1. PICK change \in Board!Goals(call[c].op) :
            LET my == call[c]
                allowed == /\ Board!ReadyTo(my.op, my.got, my.links)
                           /\ my.op = "done" => Board!Over(change, my.saw).phase = "Closing"
                           /\ my.op = "closing" => my.saw.status # "retired" IN
            /\ my.op \in {"closing", "done", "retired"} /\ my.at = "decide"
            /\ Board!Goes(c, IF ~allowed THEN Board!Refused(c)
                             ELSE IF Board!Sent(my.saw, change) = Board!Nothing
                             THEN Board!Answer(c, "answered", FALSE, FALSE)
                             ELSE [my EXCEPT !.change = Board!Sent(my.saw, change),
                                             !.got = Board!Nothing,
                                             !.links = {}, !.page = 0, !.at = "patch"])
      BY <1>2 DEF Board!DecideChange
    <2>2. \/ \E place \in {"answered", "refused"} :
                Board!Goes(c, Board!Answer(c, place, FALSE, FALSE))
          \/ /\ call[c].op = "done" => Board!Over(change, call[c].saw).phase = "Closing"
             /\ call[c].op = "closing" => call[c].saw.status # "retired"
             /\ Board!Goes(c, [call[c] EXCEPT !.change = Board!Sent(call[c].saw, change),
                                              !.got = Board!Nothing,
                                              !.links = {}, !.page = 0, !.at = "patch"])
      BY <2>1 DEF Board!Refused
    <2>3. CASE \E place \in {"answered", "refused"} :
                  Board!Goes(c, Board!Answer(c, place, FALSE, FALSE))
      BY <2>3, CallAnswers
    <2>4. CASE /\ call[c].op = "done" => Board!Over(change, call[c].saw).phase = "Closing"
               /\ call[c].op = "closing" => call[c].saw.status # "retired"
               /\ Board!Goes(c, [call[c] EXCEPT !.change = Board!Sent(call[c].saw, change),
                                                !.got = Board!Nothing,
                                                !.links = {}, !.page = 0, !.at = "patch"])
      <3>1. /\ call[c].on = Board!Epic /\ DOMAIN call[c].saw = ItemFields
            /\ call[c].op \in {"closing", "done", "retired"} /\ call[c].at = "decide"
        BY <1>1, <2>1 DEF CallShape
      <3>2. Board!IsInPlace(Board!Epic, Board!Over(change, call[c].saw))
        <4>1. CASE call[c].op = "closing"
          BY <2>1, <2>4, <3>1, <4>1 DEF Board!Goals, Board!IsInPlace, Board!Over, ItemFields
        <4>2. CASE call[c].op = "done"
          BY <2>1, <2>4, <3>1, <4>2 DEF Board!Goals, Board!IsInPlace, Board!Over, ItemFields
        <4>3. CASE call[c].op = "retired"
          BY <2>1, <3>1, <4>3 DEF Board!Goals, Board!IsInPlace, Board!Over, ItemFields
        <4> QED
          BY <3>1, <4>1, <4>2, <4>3
      <3> DEFINE mine == [call[c] EXCEPT !.change = Board!Sent(call[c].saw, change),
                                         !.got = Board!Nothing,
                                         !.links = {}, !.page = 0, !.at = "patch"]
      <3>3. Board!Goes(c, mine)
        BY <2>4
      <3>4. /\ DOMAIN mine = CallNames /\ mine.op = call[c].op /\ mine.on = call[c].on
            /\ mine.saw = call[c].saw /\ mine.change = Board!Sent(call[c].saw, change)
            /\ mine.at = "patch"
        BY <1>1 DEF CallShape, CallNames
      <3> HIDE DEF mine
      <3> QED
        BY <3>1, <3>2, <3>3, <3>4, SendsKeeps
    <2> QED
      BY <2>2, <2>3, <2>4
  <1>3. CASE Board!DecideItem(c)
    <2> DEFINE sent(change) == Board!WithBucket(call[c].op, call[c].saw, change)
    <2>1. PICK change \in Board!Changes(call[c].op, call[c].on, call[c].saw) :
            LET my == call[c] IN
            /\ my.op \notin {"closing", "done", "retired"}
            /\ my.at = "decide" \/ (my.op \in {"complete", "update"} /\ Board!PagesAreRead(c))
            /\ Board!Goes(c, IF Board!Sent(my.saw, sent(change)) = Board!Nothing
                             THEN Board!Answer(c, "answered", FALSE, FALSE)
                             ELSE [my EXCEPT !.change = Board!Sent(my.saw, sent(change)),
                                             !.got = Board!Nothing,
                                             !.page = 0,
                                             !.at = IF my.op = "complete" THEN "replay" ELSE "patch"])
      BY <1>3 DEF Board!DecideItem
    <2>2. call[c].at \in {"decide", "pages"}
      BY <2>1 DEF Board!PagesAreRead
    <2>3. CASE Board!Goes(c, Board!Answer(c, "answered", FALSE, FALSE))
      BY <2>3, CallAnswers
    <2>4. CASE ~Board!Goes(c, Board!Answer(c, "answered", FALSE, FALSE))
      <3> DEFINE place == IF call[c].op = "complete" THEN "replay" ELSE "patch"
      <3> DEFINE mine == [call[c] EXCEPT !.change = Board!Sent(call[c].saw, sent(change)),
                                         !.got = Board!Nothing, !.page = 0, !.at = place]
      <3>1. Board!Goes(c, mine)
        BY <2>1, <2>4
      <3>3. call[c].op \in Placed =>
               Board!IsInPlace(call[c].on, Board!Over(sent(change), call[c].saw))
        <4> SUFFICES ASSUME call[c].op \in {"update", "complete"}
                     PROVE  Board!IsInPlace(call[c].on, Board!Over(sent(change), call[c].saw))
          BY <2>1 DEF Placed
        <4>1. "bucket" \notin DOMAIN change
          BY <2>1 DEF Board!Changes, Board!Updates, Board!Completes
        <4>2. call[c].on # Board!Epic /\ DOMAIN call[c].saw = ItemFields
          BY <1>1 DEF CallShape, Board!Epic, Board!Feature, Board!Story
        <4> QED
          BY <4>1, <4>2, BucketGoes
      <3>4. place \in {"patch", "replay"}
        OBVIOUS
      <3> HIDE DEF place, sent
      <3>5. /\ DOMAIN mine = CallNames /\ mine.op = call[c].op /\ mine.on = call[c].on
            /\ mine.saw = call[c].saw /\ mine.change = Board!Sent(call[c].saw, sent(change))
            /\ mine.at = place
        BY <1>1 DEF CallShape, CallNames
      <3> HIDE DEF mine
      <3> QED
        BY <2>2, <3>1, <3>3, <3>4, <3>5, SendsKeeps
    <2> QED
      BY <2>3, <2>4
  <1> QED
    BY <1>2, <1>3

-----------------------------------------------------------------------------
(* The others see that the board changes; what they do stays.              *)
LEMMA OthersStay ==
    ASSUME BoardInv, NEW c \in Runners, NEW new, NEW mine, Board!Writes(c, new, mine)
    PROVE  /\ record' = new /\ DOMAIN call' = Runners /\ call'[c] = mine
           /\ \A d \in Runners \ {c} :
                 /\ DOMAIN call'[d] = CallNames
                 /\ \A f \in CallNames \ {"disturbed"} : call'[d][f] = call[d][f]
  <1>1. \A d \in Runners : DOMAIN call[d] = CallNames
    BY DEF BoardInv, CallShape
  <1> QED
    BY <1>1 DEF Board!Writes

(* What stays with it.                                                     *)
LEMMA ShapeStays ==
    ASSUME NEW my, NEW now, CallShape(my), SendsInPlace(my), DOMAIN now = CallNames,
           \A f \in CallNames \ {"disturbed"} : now[f] = my[f]
    PROVE  CallShape(now) /\ SendsInPlace(now)
  <1>1. /\ now.op = my.op /\ now.on = my.on /\ now.at = my.at /\ now.saw = my.saw
        /\ now.change = my.change
    BY DEF CallNames
  <1> QED
    BY <1>1 DEF CallShape, SendsInPlace

(* An item is patched, and the relations stay.                             *)
LEMMA PatchKeeps ==
    ASSUME BoardInv, NEW c \in Runners, Board!Patch(c)
    PROVE  BoardInv'
  <1> DEFINE my == call[c]
             i == my.on
             now == record.item[i]
             item == [Board!Over(my.change, now) EXCEPT !.lock = Board!Over(my.change, now).lock + 1]
             keeps == my.op \in Placed /\ now = my.saw
             new == [record EXCEPT !.item = [record.item EXCEPT ![i] = item],
                                   !.kept = [record.kept EXCEPT ![i] = keeps]]
  <1>1. /\ BoardShape /\ CallShape(my) /\ SendsInPlace(my) /\ my.at \in {"patch", "replay"}
        /\ i \in Board!Ids
    BY DEF BoardInv, Board!Patch, CallShape
  <1>2. \E told, truth : Board!Writes(c, new, Board!Answer(c, "answered", told, truth))
    BY DEF Board!Patch, Placed
  <1>3. PICK told, truth : Board!Writes(c, new, Board!Answer(c, "answered", told, truth))
    BY <1>2
  <1> DEFINE mine == Board!Answer(c, "answered", told, truth)
  <1>4. CallShape(mine) /\ mine.op = "none" /\ mine.at = "answered"
    BY AnswerShape
  <1> HIDE DEF mine
  <1>5. DOMAIN item = ItemFields
    BY <1>1 DEF BoardShape, Board!Over
  <1>6. keeps => Board!IsInPlace(i, item)
    <2> SUFFICES ASSUME keeps PROVE Board!IsInPlace(i, item)
      OBVIOUS
    <2>1. /\ Board!IsInPlace(i, Board!Over(my.change, now))
          /\ DOMAIN Board!Over(my.change, now) = ItemFields
      BY <1>1 DEF SendsInPlace, BoardShape, Board!Over
    <2>2. /\ item.status = Board!Over(my.change, now).status
          /\ item.phase = Board!Over(my.change, now).phase
          /\ item.pi = Board!Over(my.change, now).pi
          /\ item.bucket = Board!Over(my.change, now).bucket
      BY <2>1 DEF ItemFields
    <2> HIDE DEF item
    <2> QED
      BY <2>1, <2>2 DEF Board!IsInPlace
  <1> HIDE DEF item, keeps
  <1>7. /\ DOMAIN new = BoardNames /\ new.links = record.links /\ new.next = record.next
        /\ new.set = record.set /\ new.unset = record.unset
        /\ DOMAIN new.item = Board!Ids /\ DOMAIN new.kept = Board!Ids
        /\ \A j \in Board!Ids : new.item[j] = IF j = i THEN item ELSE record.item[j]
        /\ \A j \in Board!Ids : new.kept[j] = IF j = i THEN keeps ELSE record.kept[j]
    BY <1>1 DEF BoardShape, BoardNames
  <1>8. /\ record' = new /\ DOMAIN call' = Runners /\ call'[c] = mine
        /\ \A d \in Runners \ {c} :
                 /\ DOMAIN call'[d] = CallNames
                 /\ \A f \in CallNames \ {"disturbed"} : call'[d][f] = call[d][f]
    BY <1>3, OthersStay DEF mine
  <1> HIDE DEF new, my
  <1>9. BoardShape'
    BY <1>1, <1>5, <1>7, <1>8 DEF BoardShape, BoardNames, Board!Ids, ItemFields, Relation
  <1>10. Board!RoadmapFollows' /\ Board!DependencyStays'
    BY <1>6, <1>7, <1>8 DEF BoardInv, Board!RoadmapFollows, Board!DependencyStays, Board!Ids
  <1>11. Board!Matching' = Board!Matching
    BY <1>7, <1>8 DEF Board!Matching
  <1>12. ASSUME NEW d \in Runners
         PROVE  (CallShape(call[d]) /\ SendsInPlace(call[d]) /\ LeavesOne(call[d]))'
    <2>1. CASE d = c
      BY <1>4, <1>8, <2>1 DEF CallShape, SendsInPlace, LeavesOne
    <2>2. CASE d # c
      <3>1. CallShape(call[d]) /\ SendsInPlace(call[d]) /\ LeavesOne(call[d])
        BY DEF BoardInv
      <3>2. CallShape(call'[d]) /\ SendsInPlace(call'[d])
        BY <1>8, <2>2, <3>1, ShapeStays
      <3>3. /\ call'[d].op = call[d].op /\ call'[d].at = call[d].at
            /\ call'[d].links = call[d].links
        BY <1>8, <2>2 DEF CallNames
      <3>4. (LeavesOne(call[d]))'
        BY <1>7, <1>8, <1>11, <3>1, <3>3 DEF LeavesOne
      <3> QED
        BY <3>2, <3>4 DEF CallShape, SendsInPlace
    <2> QED
      BY <2>1, <2>2
  <1> QED
    BY <1>8, <1>9, <1>10, <1>12 DEF BoardInv

-----------------------------------------------------------------------------
(* A review tells, and a call fails.                                       *)
LEMMA AnswersKeep ==
    ASSUME BoardInv, NEW c \in Runners, Board!Tell(c) \/ Board!Fails(c)
    PROVE  BoardInv'
  <1>1. \E place \in {"answered", "refused"} : \E told, truth :
           Board!Goes(c, Board!Answer(c, place, told, truth))
    BY DEF Board!Tell, Board!Fails, Board!Refused
  <1> QED
    BY <1>1, CallAnswers

(* The relations that are there are listed: all but the oldest go.         *)
LEMMA ListKeeps ==
    ASSUME BoardInv, NEW c \in Runners, Board!ListRelations(c)
    PROVE  BoardInv'
  <1> DEFINE place == IF call[c].op = "set" /\ Board!Matching = {} THEN "create" ELSE "delete"
             links == Board!Surplus(call[c].op, Board!Matching)
             mine == [call[c] EXCEPT !.links = links, !.at = place]
  <1>1. /\ CallShape(call[c]) /\ LeavesOne(call[c]) /\ BoardShape
        /\ call[c].at = "relations" /\ Board!Goes(c, mine)
    BY DEF BoardInv, Board!ListRelations
  <1>2. place = "delete" /\ ~record.unset =>
              /\ Board!Matching # {}
              /\ \A l \in links : l \in Relation /\ \E m \in Board!Matching : m.id < l.id
    <2> SUFFICES ASSUME place = "delete", ~record.unset
                 PROVE  /\ Board!Matching # {}
                        /\ \A l \in links : l \in Relation /\ \E m \in Board!Matching : m.id < l.id
      OBVIOUS
    <2>1. call[c].op = "set"
      BY <1>1 DEF CallShape, LeavesOne
    <2>2. Board!Matching # {}
      BY <2>1
    <2>3. Board!Matching \subseteq Relation
      BY <1>1 DEF Board!Matching, BoardShape
    <2>4. \A l \in links : l \in Board!Matching /\ \E m \in Board!Matching : ~(l.id <= m.id)
      BY <2>1 DEF Board!Surplus, Board!Oldest
    <2>5. \A l, m \in Relation : ~(l.id <= m.id) => m.id < l.id
      BY DEF Relation
    <2> QED
      BY <2>2, <2>3, <2>4, <2>5
  <1>3. place \in {"create", "delete"}
    OBVIOUS
  <1> HIDE DEF place, links
  <1>4. /\ DOMAIN mine = CallNames /\ mine.op = call[c].op /\ mine.on = call[c].on
        /\ mine.saw = call[c].saw /\ mine.at = place /\ mine.links = links
    BY <1>1 DEF CallShape, CallNames
  <1> HIDE DEF mine
  <1>5. CallShape(mine) /\ SendsInPlace(mine)
    BY <1>1, <1>3, <1>4 DEF CallShape, SendsInPlace
  <1>6. LeavesOne(mine)
    BY <1>1, <1>2, <1>4 DEF LeavesOne
  <1> QED
    BY <1>1, <1>5, <1>6, CallGoes

(* The items stay, the relations and what is said of them change.          *)
LEMMA RelationsKeep ==
    ASSUME BoardInv, NEW c \in Runners, NEW new, NEW mine, Board!Writes(c, new, mine),
           DOMAIN new = BoardNames, new.item = record.item, new.kept = record.kept,
           new.links \subseteq Relation, new.next \in Nat,
           CallShape(mine), SendsInPlace(mine), (LeavesOne(call[c]))', Board!DependencyStays',
           record.unset => new.unset,
           ASSUME NEW d \in Runners \ {c}, call[d].at = "delete", ~new.unset
           PROVE  /\ Board!Matching' # {}
                  /\ \A l \in call[d].links : l \in Relation /\ \E m \in Board!Matching' : m.id < l.id
    PROVE  BoardInv'
  <1>1. /\ record' = new /\ DOMAIN call' = Runners /\ call'[c] = mine
        /\ \A d \in Runners \ {c} :
                 /\ DOMAIN call'[d] = CallNames
                 /\ \A f \in CallNames \ {"disturbed"} : call'[d][f] = call[d][f]
    BY OthersStay
  <1>2. BoardShape /\ Board!RoadmapFollows
    BY DEF BoardInv
  <1>3. BoardShape'
    BY <1>1, <1>2 DEF BoardShape, BoardNames, Board!Ids, ItemFields, Relation
  <1>4. Board!RoadmapFollows'
    BY <1>1, <1>2 DEF Board!RoadmapFollows, Board!Ids
  <1>5. ASSUME NEW d \in Runners
        PROVE  (CallShape(call[d]) /\ SendsInPlace(call[d]) /\ LeavesOne(call[d]))'
    <2>1. CASE d = c
      BY <1>1, <2>1 DEF CallShape, SendsInPlace, CallNames, ItemFields, Placed
    <2>2. CASE d # c
      <3>1. CallShape(call[d]) /\ SendsInPlace(call[d]) /\ LeavesOne(call[d])
        BY DEF BoardInv
      <3>2. CallShape(call'[d]) /\ SendsInPlace(call'[d])
        BY <1>1, <2>2, <3>1, ShapeStays
      <3>3. /\ call'[d].op = call[d].op /\ call'[d].at = call[d].at
            /\ call'[d].links = call[d].links
        BY <1>1, <2>2 DEF CallNames
      <3>4. call'[d].op = "unset" => record'.unset
        BY <1>1, <3>1, <3>3 DEF LeavesOne
      <3>5. ASSUME call'[d].at = "delete", ~record'.unset
            PROVE  /\ Board!Matching' # {}
                   /\ \A l \in call'[d].links : l \in Relation /\ \E m \in Board!Matching' : m.id < l.id
        BY <1>1, <2>2, <3>3, <3>5
      <3>6. (LeavesOne(call[d]))'
        BY <3>4, <3>5 DEF LeavesOne, Relation
      <3> QED
        BY <3>2, <3>6 DEF CallShape, SendsInPlace
    <2> QED
      BY <2>1, <2>2
  <1> QED
    BY <1>1, <1>3, <1>4, <1>5 DEF BoardInv

(* A relation is created.                                                  *)
LEMMA CreateKeeps ==
    ASSUME BoardInv, NEW c \in Runners, Board!Create(c)
    PROVE  BoardInv'
  <1> DEFINE link == Board!Follows(record.next, Board!Upstream, Board!Story)
             links == record.links \cup {link}
             new == [record EXCEPT !.links = links, !.next = record.next + 1, !.set = TRUE]
             mine == Board!Answer(c, "answered", FALSE, FALSE)
  <1>1. /\ BoardShape /\ Board!Writes(c, new, mine)
    BY DEF BoardInv, Board!Create
  <1>2. link \in Relation /\ link.to = Board!Story
    BY <1>1
    DEF BoardShape, Board!Follows, Relation, Board!Ids, Board!Epic, Board!Upstream, Board!Story,
        Board!Outside
  <1>3. links \subseteq Relation /\ record.next + 1 \in Nat
    BY <1>1, <1>2 DEF BoardShape
  <1>4. \E l \in links : l.to \in {Board!Story, Board!Feature}
    BY <1>2
  <1>5. record.links \subseteq links
    OBVIOUS
  <1> HIDE DEF links
  <1>6. /\ DOMAIN new = BoardNames /\ new.item = record.item /\ new.kept = record.kept
        /\ new.links = links /\ new.next = record.next + 1 /\ new.unset = record.unset
    BY <1>1 DEF BoardShape, BoardNames
  <1>7. CallShape(mine) /\ mine.op = "none" /\ mine.at = "answered"
    BY AnswerShape
  <1>8. record' = new /\ call'[c] = mine
    BY <1>1, OthersStay
  <1> HIDE DEF new, mine
  <1>9. SendsInPlace(mine) /\ (LeavesOne(call[c]))'
    BY <1>7, <1>8 DEF SendsInPlace, LeavesOne
  <1>10. Board!DependencyStays'
    BY <1>4, <1>6, <1>8 DEF Board!DependencyStays
  <1>11. Board!Matching \subseteq Board!Matching'
    BY <1>5, <1>6, <1>8 DEF Board!Matching
  <1>12. ASSUME NEW d \in Runners \ {c}, call[d].at = "delete", ~new.unset
         PROVE  /\ Board!Matching' # {}
                /\ \A l \in call[d].links : l \in Relation /\ \E m \in Board!Matching' : m.id < l.id
    BY <1>6, <1>11, <1>12 DEF BoardInv, LeavesOne
  <1> QED
    BY <1>1, <1>3, <1>6, <1>7, <1>9, <1>10, <1>12, RelationsKeep

(* A relation is deleted: the one that is older stays.                     *)
LEMMA DeleteKeeps ==
    ASSUME BoardInv, NEW c \in Runners, Board!Delete(c)
    PROVE  BoardInv'
  <1>1. PICK l \in call[c].links :
           /\ call[c].at = "delete"
           /\ IF l \in record.links
              THEN Board!Writes(c, [record EXCEPT !.links = @ \ {l}],
                                [call[c] EXCEPT !.links = @ \ {l}])
              ELSE Board!Goes(c, Board!Refused(c))
    BY DEF Board!Delete
  <1>2. CASE Board!Goes(c, Board!Refused(c))
    BY <1>2, CallAnswers DEF Board!Refused
  <1>3. CASE ~Board!Goes(c, Board!Refused(c))
    <2> DEFINE links == record.links \ {l}
               new == [record EXCEPT !.links = links]
               left == call[c].links \ {l}
               mine == [call[c] EXCEPT !.links = left]
    <2>1. Board!Writes(c, new, mine)
      BY <1>1, <1>3
    <2>2. BoardShape /\ CallShape(call[c]) /\ LeavesOne(call[c]) /\ Board!DependencyStays
      BY DEF BoardInv
    <2>3. /\ links \subseteq Relation
          /\ \A m \in record.links : m # l => m \in links
      BY <2>2 DEF BoardShape
    <2>4. left \subseteq call[c].links
      OBVIOUS
    <2> HIDE DEF links, left
    <2>5. /\ DOMAIN new = BoardNames /\ new.item = record.item /\ new.kept = record.kept
          /\ new.links = links /\ new.next = record.next /\ new.unset = record.unset
          /\ new.set = record.set
      BY <2>2 DEF BoardShape, BoardNames
    <2>6. /\ DOMAIN mine = CallNames /\ mine.op = call[c].op /\ mine.on = call[c].on
          /\ mine.saw = call[c].saw /\ mine.at = "delete" /\ mine.links = left
      BY <1>1, <2>2 DEF CallShape, CallNames
    <2>7. record' = new /\ call'[c] = mine
      BY <2>1, OthersStay
    <2> HIDE DEF new, mine
    <2>8. CallShape(mine) /\ SendsInPlace(mine)
      BY <1>1, <2>2, <2>6 DEF CallShape, SendsInPlace
    <2>9. ASSUME ~record.unset
          PROVE  \E m \in Board!Matching' :
                    m.id < l.id /\ l \in Relation /\ m \in Relation
      <3>1. PICK m \in Board!Matching : m.id < l.id /\ l \in Relation
        BY <1>1, <2>2, <2>9 DEF LeavesOne
      <3>2. m \in Relation /\ m \in record.links
        BY <2>2 DEF Board!Matching, BoardShape
      <3>3. m # l
        BY <3>1, <3>2 DEF Relation
      <3>4. m \in Board!Matching'
        BY <2>3, <2>5, <2>7, <3>2, <3>3 DEF Board!Matching
      <3> QED
        BY <3>1, <3>2, <3>4
    <2>10. ASSUME NEW d \in Runners, call[d].at = "delete", ~record.unset
           PROVE  /\ Board!Matching' # {}
                  /\ \A k \in call[d].links : k \in Relation /\ \E m \in Board!Matching' : m.id < k.id
      <3>1. PICK m0 \in Board!Matching' : m0.id < l.id /\ l \in Relation /\ m0 \in Relation
        BY <2>9, <2>10
      <3>2. ASSUME NEW k \in call[d].links
            PROVE  k \in Relation /\ \E m \in Board!Matching' : m.id < k.id
        <4>1. k \in Relation /\ \E m \in Board!Matching : m.id < k.id
          BY <2>10 DEF BoardInv, LeavesOne
        <4>2. PICK m \in Board!Matching : m.id < k.id
          BY <4>1
        <4>3. CASE m = l
          <5>1. m0.id < k.id
            BY <3>1, <4>1, <4>2, <4>3 DEF Relation
          <5> QED
            BY <3>1, <4>1, <5>1
        <4>4. CASE m # l
          <5>1. m \in Board!Matching'
            BY <2>3, <2>5, <2>7, <4>4 DEF Board!Matching
          <5> QED
            BY <4>1, <4>2, <5>1
        <4> QED
          BY <4>3, <4>4
      <3> QED
        BY <3>1, <3>2
    <2>11. Board!DependencyStays'
      <3> SUFFICES ASSUME record'.set, ~record'.unset
                   PROVE  \E k \in record'.links : k.to \in {Board!Story, Board!Feature}
        BY DEF Board!DependencyStays
      <3>1. PICK m \in Board!Matching' : m.id < l.id
        BY <2>5, <2>7, <2>9
      <3> QED
        BY <3>1 DEF Board!Matching
    <2>12. (LeavesOne(call[c]))'
      BY <1>1, <2>2, <2>4, <2>5, <2>6, <2>7, <2>10 DEF LeavesOne
    <2>13. ASSUME NEW d \in Runners \ {c}, call[d].at = "delete", ~new.unset
           PROVE  /\ Board!Matching' # {}
                  /\ \A k \in call[d].links : k \in Relation /\ \E m \in Board!Matching' : m.id < k.id
      BY <2>5, <2>10, <2>13
    <2>14. new.links \subseteq Relation /\ new.next \in Nat
      BY <2>2, <2>3, <2>5 DEF BoardShape
    <2> QED
      BY <2>1, <2>5, <2>8, <2>11, <2>12, <2>13, <2>14, RelationsKeep
  <1> QED
    BY <1>2, <1>3

(* Nothing is left to delete, and a relation is there.                     *)
LEMMA SettledKeeps ==
    ASSUME BoardInv, NEW c \in Runners, Board!Settled(c)
    PROVE  BoardInv'
  <1> DEFINE set == record.set \/ call[c].op = "set"
             new == [record EXCEPT !.set = set]
             mine == Board!Answer(c, "answered", FALSE, FALSE)
  <1>1. /\ BoardShape /\ DOMAIN call = Runners /\ Board!DependencyStays /\ Board!RoadmapFollows
        /\ \A d \in Runners : CallShape(call[d]) /\ SendsInPlace(call[d]) /\ LeavesOne(call[d])
        /\ call[c].at = "delete" /\ record' = new /\ call' = [call EXCEPT ![c] = mine]
    BY DEF BoardInv, Board!Settled
  <1> HIDE DEF set
  <1>2. /\ DOMAIN new = BoardNames /\ new.item = record.item /\ new.kept = record.kept
        /\ new.links = record.links /\ new.next = record.next /\ new.unset = record.unset
    BY <1>1 DEF BoardShape, BoardNames
  <1>3. CallShape(mine) /\ mine.op = "none" /\ mine.at = "answered"
    BY AnswerShape
  <1>4. DOMAIN call' = Runners /\ \A d \in Runners : call'[d] = IF d = c THEN mine ELSE call[d]
    BY <1>1
  <1> HIDE DEF new, mine
  <1>5. Board!Matching' = Board!Matching
    BY <1>1, <1>2 DEF Board!Matching
  <1>6. \A d \in Runners : (LeavesOne(call[d]))'
    BY <1>1, <1>2, <1>3, <1>4, <1>5 DEF LeavesOne
  <1>7. SendsInPlace(mine)
    BY <1>3 DEF SendsInPlace
  <1>8. \A d \in Runners : (CallShape(call[d]) /\ SendsInPlace(call[d]))'
    BY <1>1, <1>3, <1>4, <1>7 DEF CallShape, SendsInPlace, CallNames, ItemFields, Placed
  <1>9. BoardShape' /\ Board!RoadmapFollows'
    BY <1>1, <1>2 DEF BoardShape, BoardNames, Board!RoadmapFollows, Board!Ids, ItemFields, Relation
  <1>10. Board!DependencyStays'
    <2> SUFFICES ASSUME ~record.unset
                 PROVE  \E l \in record.links : l.to \in {Board!Story, Board!Feature}
      BY <1>1, <1>2 DEF Board!DependencyStays
    <2>1. Board!Matching # {}
      BY <1>1 DEF LeavesOne
    <2> QED
      BY <2>1 DEF Board!Matching
  <1> QED
    BY <1>4, <1>6, <1>8, <1>9, <1>10 DEF BoardInv

(* Others do what the initiative depends on.                               *)
LEMMA ProceedsKeeps ==
    ASSUME BoardInv, Board!Proceeds
    PROVE  BoardInv'
  <1>1. PICK i \in {Board!Upstream, Board!Outside} :
           record' = [record EXCEPT !.item[i] = Board!Item("done")] /\ call' = call
    BY DEF Board!Proceeds
  <1>2. /\ BoardShape /\ DOMAIN call = Runners /\ Board!DependencyStays /\ Board!RoadmapFollows
        /\ \A d \in Runners : CallShape(call[d]) /\ SendsInPlace(call[d]) /\ LeavesOne(call[d])
    BY DEF BoardInv
  <1>3. i \in Board!Ids /\ i # Board!Epic
    BY DEF Board!Ids, Board!Epic, Board!Upstream, Board!Outside
  <1> DEFINE item == Board!Item("done")
  <1>4. DOMAIN item = ItemFields /\ Board!IsInPlace(i, item)
    BY <1>3 DEF Board!Item, ItemFields, Board!IsInPlace, Board!BucketFor
  <1> HIDE DEF item
  <1>5. /\ DOMAIN record' = BoardNames /\ DOMAIN record'.item = Board!Ids
        /\ record'.links = record.links /\ record'.next = record.next
        /\ record'.kept = record.kept /\ record'.set = record.set
        /\ record'.unset = record.unset
        /\ \A j \in Board!Ids : record'.item[j] = IF j = i THEN item ELSE record.item[j]
    BY <1>1, <1>2, <1>3 DEF BoardShape, BoardNames, item
  <1>6. BoardShape' /\ Board!RoadmapFollows' /\ Board!DependencyStays'
    BY <1>2, <1>4, <1>5
    DEF BoardShape, BoardNames, Board!RoadmapFollows, Board!DependencyStays, Board!Ids,
        ItemFields, Relation
  <1>7. Board!Matching' = Board!Matching
    BY <1>5 DEF Board!Matching
  <1>8. \A d \in Runners : (CallShape(call[d]) /\ SendsInPlace(call[d]) /\ LeavesOne(call[d]))'
    BY <1>1, <1>2, <1>5, <1>7 DEF CallShape, SendsInPlace, LeavesOne, CallNames, ItemFields, Placed
  <1> QED
    BY <1>1, <1>2, <1>6, <1>8 DEF BoardInv

(* Every step keeps the invariant, and with it what it says.               *)
LEMMA BoardStep ==
    ASSUME BoardInv, [Board!Next]_(Board!boardVars)
    PROVE  BoardInv'
  <1>1. CASE UNCHANGED Board!boardVars
    <2>1. record' = record /\ call' = call
      BY <1>1 DEF Board!boardVars
    <2>2. Board!Matching' = Board!Matching
      BY <2>1 DEF Board!Matching
    <2>3. \A d \in Runners : (CallShape(call[d]) /\ SendsInPlace(call[d]) /\ LeavesOne(call[d]))'
      BY <2>1, <2>2 DEF BoardInv, CallShape, SendsInPlace, LeavesOne, CallNames, ItemFields, Placed
    <2>4. BoardShape' /\ Board!RoadmapFollows' /\ Board!DependencyStays'
      BY <2>1
      DEF BoardInv, BoardShape, BoardNames, Board!RoadmapFollows, Board!DependencyStays,
          Board!Ids, ItemFields, Relation
    <2> QED
      BY <2>1, <2>3, <2>4 DEF BoardInv
  <1>2. CASE Board!Proceeds
    BY <1>2, ProceedsKeeps
  <1>3. ASSUME NEW c \in Runners,
               \/ Board!Begin(c) \/ Board!ReadTarget(c) \/ Board!ReadRoot(c) \/ Board!ReadPage(c)
               \/ Board!ReadRelations(c) \/ Board!ReadRelated(c) \/ Board!Tell(c)
               \/ Board!DecideChange(c) \/ Board!DecideItem(c) \/ Board!Patch(c) \/ Board!Conflict(c)
               \/ Board!Fails(c) \/ Board!ListRelations(c)
               \/ Board!Create(c) \/ Board!Delete(c) \/ Board!Settled(c)
        PROVE  BoardInv'
    BY <1>3, BoardBegins, ReadsKeep, AnswersKeep, DecideKeeps, PatchKeeps, ConflictKeeps,
       ListKeeps, CreateKeeps, DeleteKeeps, SettledKeeps
  <1> QED
    BY <1>1, <1>2, <1>3 DEF Board!Next

-----------------------------------------------------------------------------
(* The specification of the run: a behaviour is about one component, whose *)
(* invariant holds in it.                                                  *)

SessionsInv ==
    /\ kind = "journal" => JournalInv
    /\ kind = "saved work" => SavedInv
    /\ kind = "commands" => CommandsInv
    /\ kind = "cleanup" => CleanupInv
    /\ kind = "landing" => LandingInv
    /\ kind = "drafts" => Drafts!SourceInv
    /\ kind = "controls" => Controls!SourceInv
    /\ kind = "board" => BoardInv

(* An initial state is one of its component.                               *)
LEMMA SessionsInit == MCInit => SessionsInv
  <1> SUFFICES ASSUME MCInit PROVE SessionsInv
    OBVIOUS
  <1>1. /\ kind = "drafts" => Drafts!SourceInv
        /\ kind = "controls" => Controls!SourceInv
    BY SourceAssumption, Drafts!SourceInit, Controls!SourceInit DEF MCInit
  <1>2. /\ kind = "journal" => JournalInv
        /\ kind = "saved work" => SavedInv
        /\ kind = "commands" => CommandsInv
    BY JournalInit, SavedInit, CommandsInit DEF MCInit
  <1>3. /\ kind = "cleanup" => CleanupInv
        /\ kind = "landing" => LandingInv
        /\ kind = "board" => BoardInv
    BY CleanupInit, LandingInit, BoardInit DEF MCInit
  <1> QED
    BY <1>1, <1>2, <1>3 DEF SessionsInv

(* A step is one of its component, and leaves what the behaviour is about. *)
LEMMA StepOfOne ==
    ASSUME [MCNext]_allVars
    PROVE  /\ UNCHANGED kind
           /\ kind = "journal" => [Journal!Next]_(Journal!vars)
           /\ kind = "saved work" => [Saved!Next]_(Saved!vars)
           /\ kind = "commands" => [Effects!Next]_(Effects!vars)
           /\ kind = "cleanup" => [Cleanup!Next]_(Cleanup!vars)
           /\ kind = "landing" => [Landing!Next]_(Landing!vars)
           /\ kind = "drafts" => [Drafts!Next]_(Drafts!vars)
           /\ kind = "controls" => [Controls!Next]_(Controls!vars)
           /\ kind = "board" => [Board!Next]_(Board!boardVars)
  <1>1. CASE UNCHANGED allVars
    BY <1>1 DEF allVars, Journal!vars, Saved!vars, Effects!vars, Cleanup!vars, Landing!vars,
                Drafts!vars, Controls!vars, Board!boardVars
  <1>2. CASE MCNext
    BY <1>2 DEF MCNext
  <1> QED
    BY <1>1, <1>2

(* Every step of the run keeps the invariants.                             *)
LEMMA SessionsStep == SessionsInv /\ [MCNext]_allVars => SessionsInv'
  <1> SUFFICES ASSUME SessionsInv, [MCNext]_allVars PROVE SessionsInv'
    OBVIOUS
  <1>1. ASSUME kind = "drafts" PROVE Drafts!SourceInv'
    <2>1. Drafts!SourceInv /\ [Drafts!Next]_(Drafts!vars)
      BY <1>1, StepOfOne DEF SessionsInv
    <2> QED
      BY <2>1, SourceAssumption, Drafts!SourceStep, Drafts!SourceStutters
  <1>2. ASSUME kind = "controls" PROVE Controls!SourceInv'
    <2>1. Controls!SourceInv /\ [Controls!Next]_(Controls!vars)
      BY <1>2, StepOfOne DEF SessionsInv
    <2> QED
      BY <2>1, SourceAssumption, Controls!SourceStep, Controls!SourceStutters
  <1>3. /\ kind = "journal" => JournalInv'
        /\ kind = "saved work" => SavedInv'
        /\ kind = "commands" => CommandsInv'
        /\ kind = "cleanup" => CleanupInv'
    BY StepOfOne, JournalStep, SavedStep, CommandsStep, CleanupStep DEF SessionsInv
  <1>4. kind = "landing" => LandingInv'
    BY StepOfOne, LandingStep DEF SessionsInv
  <1>5. kind = "board" => BoardInv'
    BY StepOfOne, BoardStep DEF SessionsInv
  <1>6. kind' = kind
    BY StepOfOne
  <1> QED
    BY <1>1, <1>2, <1>3, <1>4, <1>5, <1>6 DEF SessionsInv

(* The invariant of every component holds in the run's specification.      *)
THEOREM InvariantsHold == MCSpec => []SessionsInv
  BY SessionsInit, SessionsStep, PTL DEF MCSpec

(* An acknowledged event of the journal of transitions is never lost       *)
(* (file-transition-store's mutate, unless a transaction overran its       *)
(* lock), for any number of writers, stops and retries.                    *)
THEOREM EventsSurvive == MCSpec => []AcknowledgedEventsSurvive
  <1>1. SessionsInv => AcknowledgedEventsSurvive
    BY DEF SessionsInv, JournalInv, AcknowledgedEventsSurvive
  <1> QED
    BY <1>1, InvariantsHold, PTL

(* The store of saved work always has the revision before the current one  *)
(* and every original it indexed, whichever step of a save stopped.        *)
THEOREM SavedWorkIsRecoverable == MCSpec => []RecoveryIsComplete
  <1>1. SessionsInv => RecoveryIsComplete
    BY DEF SessionsInv, SavedInv, RecoveryIsComplete
  <1> QED
    BY <1>1, InvariantsHold, PTL

(* A close removes no resource that was there before the session, and no   *)
(* last copy of a commit that was not merged, whatever developers do       *)
(* meanwhile and wherever the close stops.                                 *)
THEOREM OthersWorkIsKept == MCSpec => []CleanupKeepsOthersWork
  <1>1. SessionsInv => CleanupKeepsOthersWork
    BY DEF SessionsInv, CleanupInv, CleanupKeepsOthersWork
  <1> QED
    BY <1>1, InvariantsHold, PTL

(* A session that is gone left its receipt, the index to it and the        *)
(* manifest that the receipt is of.                                        *)
THEOREM ReceiptIsLeft == MCSpec => []SessionLeavesItsReceipt
  <1>1. SessionsInv => SessionLeavesItsReceipt
    BY DEF SessionsInv, CleanupInv, SessionLeavesItsReceipt
  <1> QED
    BY <1>1, InvariantsHold, PTL

(* The effects of a session command begin at most once, for any number of  *)
(* commands, items and processes, over every stop and every lock taken     *)
(* from an owner that is blocked in a child process.                       *)
THEOREM CommandsBeginOnce == Effects!Spec => []Effects!EffectsBeginOnce
  <1>1. CommandsInv => Effects!EffectsBeginOnce
    BY DEF CommandsInv
  <1> QED
    BY <1>1, CommandsInit, CommandsStep, PTL DEF Effects!Spec

(* An acknowledged save is the only one of its revision and is replaced    *)
(* only by a tab that had read it.                                         *)
THEOREM SavesSurvive == Saved!Spec => []Saved!AcknowledgedSavesSurvive
  <1>1. SavedInv => Saved!AcknowledgedSavesSurvive
    BY DEF SavedInv
  <1> QED
    BY <1>1, SavedInit, SavedStep, PTL DEF Saved!Spec

(* An acknowledged save is replaced only by who had read it, a draft of    *)
(* source only by an operator who had read it; a dependency that was set   *)
(* stays until it is cleared, and an item that was changed as it had been  *)
(* read is in its place on the roadmap: in every state of the run.         *)
THEOREM WhatWasSavedStays == MCSpec => []AcknowledgedSavesSurvive
  <1>1. SessionsInv => AcknowledgedSavesSurvive
    <2> SUFFICES ASSUME SessionsInv PROVE AcknowledgedSavesSurvive
      OBVIOUS
    <2>1. kind = "saved work" => Saved!AcknowledgedSavesSurvive
      BY DEF SessionsInv, SavedInv
    <2>2. kind = "drafts" => Drafts!SavesReplaceWhatWasRead
      BY DEF SessionsInv, Drafts!SourceInv
    <2>3. kind = "board" => Board!DependencyStays /\ Board!RoadmapFollows
      BY DEF SessionsInv, BoardInv
    <2> QED
      BY <2>1, <2>2, <2>3 DEF AcknowledgedSavesSurvive
  <1> QED
    BY <1>1, InvariantsHold, PTL

(* What has effects outside begins once: the commands of a session, over   *)
(* stops and locks that are taken; the artifact of a landing's candidate,  *)
(* however often it is sent; and the commit of a draft that was accepted.  *)
THEOREM NothingBeginsTwice == MCSpec => []EffectsBeginOnce
  <1>1. SessionsInv => EffectsBeginOnce
    <2> SUFFICES ASSUME SessionsInv PROVE EffectsBeginOnce
      OBVIOUS
    <2>1. kind = "commands" => Effects!EffectsBeginOnce
      BY DEF SessionsInv, CommandsInv
    <2>2. kind = "landing" => Landing!OneArtifactPerCandidate
      BY OneArtifact DEF SessionsInv
    <2>3. kind = "drafts" => Drafts!CommitsWereAccepted
      BY SourceAssumption, Drafts!OnlyAccepted DEF SessionsInv
    <2>4. kind = "controls" => Controls!CommitsWereAccepted
      BY SourceAssumption, Controls!OnlyAccepted DEF SessionsInv
    <2> QED
      BY <2>1, <2>2, <2>3, <2>4 DEF EffectsBeginOnce
  <1> QED
    BY <1>1, InvariantsHold, PTL
=============================================================================

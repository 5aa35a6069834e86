----------------------- MODULE PackageCommandsProofs -----------------------
(***************************************************************************)
(* Proofs about PackageCommands, for any number of calls and commands.     *)
(*                                                                         *)
(* While no two acceptances of a command overlap, all its acceptances are  *)
(* of one call, and the call that goes on to the owner is the one that     *)
(* wrote it: AskedByOne.  While fewer than three calls have come, of calls *)
(* that would wait for each other only one works, and before it writes a   *)
(* comment there is none of that kind: WorkAlone, Uncommented.  What a     *)
(* result says is known when the call comes to write it: TrueSoFar.        *)
(***************************************************************************)
EXTENDS PackageCommands, TLAPS

Statuses == {"none", "accepted", "rejected", "routed", "applied", "partial_failure"}

Events == [m : Commands, payload : Payloads, type : {"accepted", "result"},
           status : Statuses, by : Calls]

CallFields == {"at", "m", "payload", "gate", "before", "status", "catalog", "on"}

(* Where a call has accepted and not asked, and where it has no result.    *)
AfterAcceptance == {"recheck", "catalog", "mutate", "readback", "dispatch"}

BeforeResult == AfterAcceptance \cup {"before", "accept", "accepted", "linked", "record"}

Places == BeforeResult \cup Ended \cup {"idle", "wait", "look", "result", "attest"}

CallOK(my, op) ==
    /\ DOMAIN my = CallFields /\ my.at \in Places /\ my.status \in Statuses
    /\ my.at \notin Ended \cup {"idle"} => my.m \in Commands /\ my.payload \in Payloads
    /\ my.at \in {"accepted", "result"} => op = "design"
    /\ my.at \in {"catalog", "mutate", "readback", "linked"} => op = "link"

TypeOK ==
    /\ DOMAIN record = {"op", "identity"}
    /\ activity \in Seq(Events)
    /\ DOMAIN call = Calls /\ \A c \in Calls : CallOK(call[c], Op)
    /\ commits \in [Commands -> Nat]
    /\ faults \in [count : Nat, overlapped : BOOLEAN, late : BOOLEAN,
                   done : SUBSET Commands, catalogued : SUBSET Commands]

Accepted(m, events) == {e \in Of(m, events) : e.type = "accepted"}

AskedByOne ==
    /\ \A m \in Commands :
          /\ commits[m] <= 1
          /\ commits[m] = 1 => Accepted(m, activity) # {}
          /\ \A d, e \in Accepted(m, activity) : d.by = e.by
    /\ \A c \in Calls :
          call[c].at \in AfterAcceptance =>
              commits[call[c].m] = 0 /\ \E e \in Accepted(call[c].m, activity) : e.by = c

Working(my) == my.at \notin Ended \cup {"idle", "wait"}

Together(my, yours, op) == op = "close" \/ my.m = yours.m

WorkAlone ==
    /\ \A c, d \in Calls :
          Working(call[c]) /\ Working(call[d]) /\ Together(call[c], call[d], Op) => c = d
    /\ \A c \in Calls :
          Working(call[c]) => c \in held \/ \E d \in Calls : call[d].at \in Ended
    /\ \A c \in Calls :
          call[c].at = "wait" =>
              /\ call[c].on \in Calls
              /\ \/ call[call[c].on].at \in Ended
                 \/ /\ Working(call[call[c].on])
                    /\ Together(call[c], call[call[c].on], Op)

Uncommented ==
    /\ ~faults.overlapped /\ ~faults.late
    /\ \A c \in Calls :
          /\ call[c].at \in {"before", "accept"} => Of(call[c].m, activity) = {}
          /\ call[c].at \in BeforeResult => Results(call[c].m, activity) = {}

HeldWork == \A c \in held : c \in Calls /\ Working(call[c])

DoneAs(m, status) ==
    /\ status = "applied" => m \in faults.done
    /\ status = "partial_failure" =>
          m \in IF Op = "link" THEN faults.catalogued ELSE faults.done

TrueSoFar ==
    /\ \A e \in Members(activity) : DoneAs(e.m, e.status)
    /\ \A c \in Calls :
          /\ call[c].at = "record" => DoneAs(call[c].m, call[c].status)
          /\ call[c].at = "linked" => call[c].m \in faults.done
          /\ Op = "link" /\ call[c].at \in {"readback", "dispatch", "linked"} =>
                call[c].m \in faults.catalogued
    /\ \A m \in receipts :
          \E e \in Members(activity) : e.m = m /\ e.status = "applied"

PackageInv ==
    /\ TypeOK /\ HeldWork /\ TrueSoFar
    /\ Op # "design" /\ ~faults.overlapped => AskedByOne
    /\ Serialized /\ OnlyTwoCame => WorkAlone /\ Uncommented

(* A step of a call that works: it works on for its command, or ends.      *)
WorkStep(c) ==
    /\ Working(call[c]) /\ record'.op = record.op /\ DOMAIN record' = DOMAIN record
    /\ DOMAIN call' = Calls /\ \A e \in Calls \ {c} : call'[e] = call[e]
    /\ CallOK(call'[c], record.op)
    /\ \/ Working(call'[c]) /\ call'[c].m = call[c].m /\ held' = held
       \/ call'[c].at \in Ended /\ held' = held \ {c}

(* It is such a step when the call is replaced by one that works on, ...   *)
LEMMA WorksOn ==
    ASSUME TypeOK, NEW c \in Calls, NEW my, call' = [call EXCEPT ![c] = my],
           Working(call[c]), Working(my), CallOK(my, record.op), my.m = call[c].m,
           UNCHANGED held, record'.op = record.op, DOMAIN record' = DOMAIN record
    PROVE  WorkStep(c) /\ call'[c] = my
  BY DEF TypeOK, WorkStep

(* ... when its place is, ...                                              *)
LEMMA GoesOn ==
    ASSUME TypeOK, NEW c \in Calls, NEW at \in Places, Goes(c, at),
           Working(call[c]), at \notin Ended \cup {"idle", "wait"},
           at \in {"accepted", "result"} => Op = "design",
           at \in {"catalog", "mutate", "readback", "linked"} => Op = "link",
           record'.op = record.op, DOMAIN record' = DOMAIN record
    PROVE  WorkStep(c) /\ call'[c].at = at /\ call'[c].status = call[c].status
  <1> DEFINE my == [call[c] EXCEPT !.at = at]
  <1>1. CallOK(call[c], Op) /\ DOMAIN call = Calls
    BY DEF TypeOK
  <1>2. /\ DOMAIN my = CallFields /\ my.at = at /\ my.m = call[c].m
        /\ my.payload = call[c].payload /\ my.status = call[c].status
    BY <1>1 DEF CallOK, CallFields
  <1>3. call' = [call EXCEPT ![c] = my] /\ UNCHANGED held
    BY <1>1 DEF Goes
  <1> HIDE DEF my
  <1>4. CallOK(my, record.op) /\ Working(my)
    BY <1>1, <1>2 DEF CallOK, Working, Op
  <1> QED
    BY <1>2, <1>3, <1>4, WorksOn

(* ... when it has the status of its result, ...                           *)
LEMMA FinishesWork ==
    ASSUME TypeOK, NEW c \in Calls, NEW status \in Statuses, Finishes(c, status),
           Working(call[c]), record'.op = record.op, DOMAIN record' = DOMAIN record
    PROVE  WorkStep(c) /\ call'[c].at = "record" /\ call'[c].status = status
  <1> DEFINE my == [call[c] EXCEPT !.at = "record", !.status = status]
  <1>1. CallOK(call[c], Op) /\ DOMAIN call = Calls
    BY DEF TypeOK
  <1>2. /\ DOMAIN my = CallFields /\ my.at = "record" /\ my.m = call[c].m
        /\ my.payload = call[c].payload /\ my.status = status
    BY <1>1 DEF CallOK, CallFields
  <1>3. call' = [call EXCEPT ![c] = my] /\ UNCHANGED held
    BY <1>1 DEF Finishes
  <1> HIDE DEF my
  <1>4. CallOK(my, record.op) /\ Working(my)
    BY <1>1, <1>2 DEF CallOK, Working, Op, Places, Ended, BeforeResult
  <1> QED
    BY <1>2, <1>3, <1>4, WorksOn

(* ... and when it ends.                                                   *)
LEMMA EndsWork ==
    ASSUME TypeOK, NEW c \in Calls, NEW at \in Ended, Ends(c, at),
           Working(call[c]), record'.op = record.op, DOMAIN record' = DOMAIN record
    PROVE  WorkStep(c) /\ call'[c].at = at
  <1>1. DOMAIN call = Calls
    BY DEF TypeOK
  <1>2. call'[c] = [Idle EXCEPT !.at = at] /\ held' = held \ {c}
    BY <1>1 DEF Ends
  <1>3. DOMAIN call' = Calls /\ \A e \in Calls \ {c} : call'[e] = call[e]
    BY <1>1 DEF Ends
  <1>4. CallOK(call'[c], record.op) /\ call'[c].at = at
    BY <1>2 DEF CallOK, CallFields, Idle, Places, Ended, Statuses
  <1> QED
    BY <1>2, <1>3, <1>4 DEF WorkStep

(* Such a step leaves the number of calls, and one call of two at work.    *)
LEMMA OthersWait ==
    ASSUME TypeOK, HeldWork, NEW c \in Calls, WorkStep(c)
    PROVE  /\ HeldWork' /\ (OnlyTwoCame' <=> OnlyTwoCame)
           /\ WorkAlone => WorkAlone'
  <1>1. OnlyTwoCame' <=> OnlyTwoCame
    <2>1. \A e \in Calls : call'[e].at = "idle" <=> call[e].at = "idle"
      BY DEF WorkStep, Working, Ended
    <2> QED
      BY <2>1 DEF OnlyTwoCame
  <1>2. HeldWork'
    BY DEF WorkStep, HeldWork, Working, Ended
  <1>3. ASSUME WorkAlone PROVE WorkAlone'
    <2>1. ASSUME NEW d \in Calls, NEW e \in Calls,
                 Working(call'[d]), Working(call'[e]), Together(call'[d], call'[e], Op')
          PROVE  d = e
      <3>1. Working(call[d]) /\ Working(call[e])
        BY <2>1 DEF WorkStep
      <3>2. Together(call[d], call[e], Op)
        BY <2>1 DEF WorkStep, Together, Op, Working
      <3> QED
        BY <1>3, <3>1, <3>2 DEF WorkAlone
    <2>2. ASSUME NEW d \in Calls, Working(call'[d])
          PROVE  d \in held' \/ \E e \in Calls : call'[e].at \in Ended
      <3>1. Working(call[d])
        BY <2>2 DEF WorkStep
      <3>2. CASE d \in held
        BY <2>2, <3>2 DEF WorkStep
      <3>3. CASE \E e \in Calls : call[e].at \in Ended
        BY <3>3 DEF WorkStep, Working
      <3> QED
        BY <1>3, <3>1, <3>2, <3>3 DEF WorkAlone
    <2>3. ASSUME NEW d \in Calls, call'[d].at = "wait"
          PROVE  /\ call'[d].on \in Calls
                 /\ \/ call'[call'[d].on].at \in Ended
                    \/ /\ Working(call'[call'[d].on])
                       /\ Together(call'[d], call'[call'[d].on], Op')
      <3>1. d # c /\ call'[d] = call[d]
        BY <2>3 DEF WorkStep, Working, Ended
      <3>2. call[d].at = "wait" /\ call[d].on \in Calls
        BY <1>3, <2>3, <3>1 DEF WorkAlone
      <3>3. CASE call[d].on # c
        BY <1>3, <3>1, <3>2, <3>3 DEF WorkAlone, WorkStep, Op
      <3>4. CASE call[d].on = c
        <4>1. Together(call[d], call[c], Op)
          BY <1>3, <3>2, <3>4 DEF WorkAlone, WorkStep, Working
        <4> QED
          BY <3>1, <3>4, <4>1 DEF WorkStep, Together, Op
      <3> QED
        BY <3>3, <3>4
    <2> QED
      BY <2>1, <2>2, <2>3 DEF WorkAlone
  <1> QED
    BY <1>1, <1>2, <1>3

(* What is done stays done.                                                *)
DoneStays == faults.done \subseteq faults'.done /\ faults.catalogued \subseteq faults'.catalogued

FaultRecords == [count : Nat, overlapped : BOOLEAN, late : BOOLEAN,
                 done : SUBSET Commands, catalogued : SUBSET Commands]

(* What the call that takes a step owes to the truth of the results.       *)
OwesTruth(my) ==
    /\ my.at = "record" => DoneAs(my.m, my.status)
    /\ my.at = "linked" => my.m \in faults.done
    /\ Op = "link" /\ my.at \in {"readback", "dispatch", "linked"} =>
          my.m \in faults.catalogued

(* What is attested was applied.                                           *)
ReceiptsAreTrue ==
    \A m \in receipts' :
        m \in receipts \/ \E e \in Members(activity) : e.m = m /\ e.status = "applied"

(* A step that writes no comment and asks no owner keeps the invariant     *)
(* when it does not come to a place for which a comment or a deed is       *)
(* missing.                                                                *)
LEMMA QuietKeeps ==
    ASSUME PackageInv, NEW c \in Calls, WorkStep(c),
           UNCHANGED <<activity, commits>>, ReceiptsAreTrue,
           faults' \in FaultRecords, DoneStays,
           faults'.overlapped = faults.overlapped, faults'.late = faults.late,
           OwesTruth(call[c])' \/ call'[c].at \in Ended,
           Op # "design" /\ call'[c].at \in AfterAcceptance => call[c].at \in AfterAcceptance,
           call'[c].at \in {"before", "accept"} =>
               call[c].at \in {"before", "accept"} \/ Of(call[c].m, activity) = {},
           call'[c].at \in BeforeResult =>
               call[c].at \in BeforeResult \/ Results(call[c].m, activity) = {}
    PROVE  PackageInv'
  <1>0. TypeOK /\ HeldWork /\ TrueSoFar /\ Op' = Op
    BY DEF PackageInv, WorkStep, Op
  <1>1. TypeOK'
    BY <1>0 DEF TypeOK, WorkStep, FaultRecords, Op
  <1>2. TrueSoFar'
    <2>1. \A m, status : DoneAs(m, status) => DoneAs(m, status)'
      BY <1>0 DEF DoneAs, DoneStays
    <2>2. \A e \in Members(activity) : DoneAs(e.m, e.status)'
      BY <1>0, <2>1 DEF TrueSoFar
    <2>3. ASSUME NEW d \in Calls \ {c} PROVE OwesTruth(call[d])'
      <3>1. call'[d] = call[d]
        BY DEF WorkStep
      <3>2. OwesTruth(call[d])
        BY <1>0 DEF TrueSoFar, OwesTruth
      <3> QED
        BY <1>0, <2>1, <3>1, <3>2 DEF OwesTruth, DoneStays
    <2>4. OwesTruth(call[c])'
      BY DEF OwesTruth, Ended
    <2> QED
      BY <1>0, <2>2, <2>3, <2>4 DEF TrueSoFar, OwesTruth, ReceiptsAreTrue
  <1>3. HeldWork' /\ (OnlyTwoCame' <=> OnlyTwoCame) /\ (WorkAlone => WorkAlone')
    BY <1>0, OthersWait
  <1>4. ASSUME Op # "design", AskedByOne PROVE AskedByOne'
    <2>1. \A m : Accepted(m, activity') = Accepted(m, activity)
      BY DEF Accepted
    <2>2. ASSUME NEW d \in Calls, call'[d].at \in AfterAcceptance
          PROVE  commits[call'[d].m] = 0 /\ \E e \in Accepted(call'[d].m, activity) : e.by = d
      <3>1. call[d].at \in AfterAcceptance /\ call'[d].m = call[d].m
        BY <1>4, <2>2 DEF WorkStep, AfterAcceptance, Ended
      <3> QED
        BY <1>4, <3>1 DEF AskedByOne
    <2> QED
      BY <1>4, <2>1, <2>2 DEF AskedByOne
  <1>5. ASSUME Uncommented PROVE Uncommented'
    <2>1. ASSUME NEW d \in Calls
          PROVE  /\ call'[d].at \in {"before", "accept"} => Of(call'[d].m, activity) = {}
                 /\ call'[d].at \in BeforeResult => Results(call'[d].m, activity) = {}
      <3>1. CASE d # c
        BY <1>5, <3>1 DEF Uncommented, WorkStep
      <3>2. CASE d = c
        <4>1. CASE call'[c].at \in Ended
          BY <3>2, <4>1 DEF Ended, BeforeResult, AfterAcceptance
        <4>2. CASE call'[c].m = call[c].m
          BY <1>5, <3>2, <4>2 DEF Uncommented
        <4> QED
          BY <4>1, <4>2 DEF WorkStep
      <3> QED
        BY <3>1, <3>2
    <2> QED
      BY <1>5, <2>1 DEF Uncommented
  <1> QED
    BY <1>0, <1>1, <1>2, <1>3, <1>4, <1>5 DEF PackageInv, Serialized

(* A comment is of what its call did.                                      *)
LEMMA CommentFacts ==
    ASSUME TypeOK, NEW c \in Calls, Working(call[c]), NEW type \in {"accepted", "result"},
           NEW status \in Statuses
    PROVE  /\ Event(c, type, status) \in Events
           /\ Event(c, type, status).m = call[c].m /\ Event(c, type, status).by = c
           /\ Event(c, type, status).type = type /\ Event(c, type, status).status = status
  BY DEF TypeOK, CallOK, Event, Events, Working

(* A comment more is a member more.                                        *)
LEMMA OneMore ==
    ASSUME NEW S, NEW q \in Seq(S), NEW e \in S
    PROVE  Append(q, e) \in Seq(S) /\ Members(Append(q, e)) = Members(q) \cup {e}
  <1>1. /\ DOMAIN q = 1..Len(q) /\ Len(q) \in Nat
        /\ DOMAIN Append(q, e) = 1..Len(q) + 1 /\ Append(q, e)[Len(q) + 1] = e
        /\ \A i \in 1..Len(q) : Append(q, e)[i] = q[i]
    OBVIOUS
  <1>2. Append(q, e) \in Seq(S)
    OBVIOUS
  <1>3. \A i : i \in 1..Len(q) + 1 <=> i \in 1..Len(q) \/ i = Len(q) + 1
    BY <1>1
  <1> QED
    BY <1>1, <1>2, <1>3 DEF Members

(* A step that writes, or tries to write, its comment keeps the invariant. *)
LEMMA CommentKeeps ==
    ASSUME PackageInv, NEW c \in Calls, WorkStep(c), UNCHANGED <<commits, receipts>>,
           NEW type \in {"accepted", "result"}, NEW status \in Statuses,
           type = "accepted" => call[c].at = "accept" /\ status = "accepted",
           type = "result" => call[c].at = "record" /\ status = call[c].status,
           \/ activity' = activity /\ (call'[c].at \in Ended \/ Op = "design")
           \/ activity' = Append(activity, Event(c, type, status)),
           faults' \in FaultRecords, faults'.late = faults.late,
           faults'.done = faults.done, faults'.catalogued = faults.catalogued,
           faults'.overlapped = (faults.overlapped
               \/ \E e \in Of(call[c].m, activity) : e.type = type),
           call'[c].at \in Ended \cup {"attest", type} \/
               (type = "accepted" /\ call'[c].at \in {"recheck", "dispatch"}),
           call'[c].at = "recheck" => Op # "design",
           call'[c].at = "dispatch" => Op = "design"
    PROVE  PackageInv'
  <1> DEFINE event == Event(c, type, status)
  <1>0. TypeOK /\ HeldWork /\ TrueSoFar /\ Op' = Op /\ Working(call[c])
    BY DEF PackageInv, WorkStep, Op
  <1>1. /\ event \in Events /\ event.m = call[c].m /\ event.by = c
        /\ event.type = type /\ event.status = status
    BY <1>0, CommentFacts
  <1> HIDE DEF event
  <1>2. activity \in Seq(Events)
    BY <1>0 DEF TypeOK
  <1>3. /\ activity' \in Seq(Events) /\ Members(activity) \subseteq Members(activity')
        /\ Members(activity') \subseteq Members(activity) \cup {event}
    <2>1. CASE activity' = activity
      BY <1>2, <2>1
    <2>2. CASE activity' = Append(activity, event)
      BY <1>1, <1>2, <2>2, OneMore
    <2> QED
      BY <2>1, <2>2 DEF event
  <1>4. TypeOK'
    BY <1>0, <1>3 DEF TypeOK, WorkStep, FaultRecords, Op
  <1>5. \A m, s : DoneAs(m, s)' <=> DoneAs(m, s)
    BY <1>0 DEF DoneAs
  <1>6. TrueSoFar'
    <2>1. DoneAs(event.m, event.status)
      BY <1>0, <1>1 DEF TrueSoFar, DoneAs
    <2>2. \A e \in Members(activity') : DoneAs(e.m, e.status)'
      BY <1>0, <1>3, <1>5, <2>1 DEF TrueSoFar
    <2>3. ASSUME NEW d \in Calls PROVE OwesTruth(call[d])'
      <3>1. CASE d # c
        <4>1. call'[d] = call[d] /\ OwesTruth(call[d])
          BY <1>0, <3>1 DEF TrueSoFar, OwesTruth, WorkStep
        <4> QED
          BY <1>0, <1>5, <4>1 DEF OwesTruth
      <3>2. CASE d = c
        BY <1>0, <3>2 DEF OwesTruth, Ended
      <3> QED
        BY <3>1, <3>2
    <2> QED
      BY <1>0, <1>3, <2>2, <2>3 DEF TrueSoFar, OwesTruth
  <1>7. HeldWork' /\ (OnlyTwoCame' <=> OnlyTwoCame) /\ (WorkAlone => WorkAlone')
    BY <1>0, OthersWait
  <1>8. \A m : /\ Of(m, activity) \subseteq Of(m, activity')
               /\ Of(m, activity') \subseteq Of(m, activity) \cup {event}
               /\ m # call[c].m => Of(m, activity') = Of(m, activity)
    BY <1>1, <1>3 DEF Of
  <1>9. ASSUME Op # "design", ~faults'.overlapped PROVE AskedByOne'
    <2>0. AskedByOne
      BY <1>9, <1>0 DEF PackageInv, TypeOK
    <2>1. CASE type = "result"
      <3>1. \A m : Accepted(m, activity') = Accepted(m, activity)
        BY <1>1, <1>8, <2>1 DEF Accepted
      <3>2. \A d \in Calls : call'[d].at \in AfterAcceptance => d # c /\ call'[d] = call[d]
        BY <1>9, <2>1 DEF WorkStep, AfterAcceptance, Ended
      <3> QED
        BY <2>0, <3>1, <3>2 DEF AskedByOne
    <2>2. CASE type = "accepted" /\ activity' = activity
      <3>1. \A m : Accepted(m, activity') = Accepted(m, activity)
        BY <2>2 DEF Accepted
      <3>2. \A d \in Calls : call'[d].at \in AfterAcceptance => d # c /\ call'[d] = call[d]
        BY <1>9, <2>2 DEF WorkStep, AfterAcceptance, Ended
      <3> QED
        BY <2>0, <3>1, <3>2 DEF AskedByOne
    <2>3. CASE type = "accepted" /\ activity' = Append(activity, event)
      <3>1. Accepted(call[c].m, activity) = {}
        BY <1>0, <1>9, <2>3 DEF Accepted, TypeOK
      <3>2. event \in Accepted(call[c].m, activity')
        <4>1. event \in Members(activity')
          BY <1>1, <1>2, <2>3, OneMore
        <4> QED
          BY <1>1, <2>3, <4>1 DEF Accepted, Of
      <3>3. Accepted(call[c].m, activity') = {event}
        BY <1>8, <3>1, <3>2 DEF Accepted
      <3>4. \A m : m # call[c].m => Accepted(m, activity') = Accepted(m, activity)
        BY <1>8 DEF Accepted
      <3>5. call[c].m \in Commands
        BY <1>0, <1>1 DEF Events
      <3>6. commits[call[c].m] = 0
        BY <1>0, <2>0, <3>1, <3>5 DEF AskedByOne, TypeOK
      <3>7. ASSUME NEW d \in Calls, call'[d].at \in AfterAcceptance
            PROVE  commits[call'[d].m] = 0 /\ \E e \in Accepted(call'[d].m, activity') : e.by = d
        <4>1. CASE d = c
          BY <1>1, <3>3, <3>6, <3>7, <4>1 DEF WorkStep, AfterAcceptance, Ended
        <4>2. CASE d # c
          <5>1. call'[d] = call[d] /\ call[d].at \in AfterAcceptance
            BY <3>7, <4>2 DEF WorkStep
          <5>2. commits[call[d].m] = 0 /\ \E e \in Accepted(call[d].m, activity) : e.by = d
            BY <2>0, <5>1 DEF AskedByOne
          <5> QED
            BY <3>1, <3>4, <5>1, <5>2
        <4> QED
          BY <4>1, <4>2
      <3> QED
        BY <2>0, <3>3, <3>4, <3>6, <3>7 DEF AskedByOne
    <2> QED
      BY <2>1, <2>2, <2>3 DEF event
  <1>10. ASSUME WorkAlone, Uncommented PROVE Uncommented'
    <2>1. /\ type = "accepted" => Of(call[c].m, activity) = {}
          /\ type = "result" => Results(call[c].m, activity) = {}
      BY <1>10 DEF Uncommented, BeforeResult
    <2>2. ~faults'.overlapped /\ ~faults'.late
      BY <1>10, <2>1 DEF Uncommented, Results
    <2>3. ASSUME NEW d \in Calls
          PROVE  /\ call'[d].at \in {"before", "accept"} => Of(call'[d].m, activity') = {}
                 /\ call'[d].at \in BeforeResult => Results(call'[d].m, activity') = {}
      <3>1. CASE d # c
        <4>0. call'[d] = call[d]
          BY <3>1 DEF WorkStep
        <4>1. CASE call[d].m # call[c].m
          BY <1>8, <1>10, <4>0, <4>1 DEF Uncommented, Results
        <4>2. CASE call[d].m = call[c].m
          <5>1. ~Working(call[d])
            BY <1>0, <1>10, <3>1, <4>2 DEF WorkAlone, Together
          <5> QED
            BY <4>0, <5>1 DEF Working, BeforeResult, AfterAcceptance, Ended
        <4> QED
          BY <4>1, <4>2
      <3>2. CASE d = c /\ type = "accepted"
        <4>1. Results(call[c].m, activity') = {}
          BY <1>1, <1>8, <2>1, <3>2 DEF Results
        <4>2. call'[c].at \notin Ended => call'[c].m = call[c].m
          BY DEF WorkStep
        <4> QED
          BY <3>2, <4>1, <4>2 DEF BeforeResult, AfterAcceptance, Ended
      <3>3. CASE d = c /\ type = "result"
        BY <3>3 DEF BeforeResult, AfterAcceptance, Ended
      <3> QED
        BY <3>1, <3>2, <3>3
    <2> QED
      BY <2>2, <2>3 DEF Uncommented
  <1> QED
    BY <1>0, <1>4, <1>6, <1>7, <1>9, <1>10 DEF PackageInv, Serialized

(* A step that asks the owner keeps it.                                    *)
LEMMA AskKeeps ==
    ASSUME PackageInv, NEW c \in Calls, WorkStep(c), call[c].at = "dispatch", Asks(c),
           OwesTruth(call[c])' \/ call'[c].at \in Ended,
           call'[c].at \in Ended \cup {"linked", "record"}
    PROVE  PackageInv'
  <1> DEFINE m == call[c].m
  <1>0. /\ TypeOK /\ HeldWork /\ TrueSoFar /\ Op' = Op /\ m \in Commands
        /\ UNCHANGED <<activity, receipts>>
    BY DEF PackageInv, WorkStep, Op, Asks, TypeOK, CallOK, Ended
  <1>1. commits' = [commits EXCEPT ![m] = @ + 1]
    BY DEF Asks
  <1>2. /\ faults'.overlapped = faults.overlapped /\ faults'.count = faults.count
        /\ faults'.late = (faults.late \/ Results(m, activity) # {})
        /\ faults'.catalogued = faults.catalogued
        /\ faults'.done = faults.done \/ faults'.done = faults.done \cup {m}
        /\ faults' \in FaultRecords
    <2>1. faults \in FaultRecords
      BY <1>0 DEF TypeOK, FaultRecords
    <2>2. PICK late \in BOOLEAN, done \in SUBSET Commands :
              /\ faults' = [faults EXCEPT !.late = late, !.done = done]
              /\ late = (faults.late \/ Results(m, activity) # {})
              /\ done = faults.done \/ done = faults.done \cup {m}
      <3> DEFINE l == faults.late \/ Results(m, activity) # {}
                 d == IF Whole(m, canon') THEN faults.done \cup {m} ELSE faults.done
      <3>1. l \in BOOLEAN
        OBVIOUS
      <3>2. d \in SUBSET Commands
        BY <1>0, <2>1 DEF FaultRecords
      <3>3. faults' = [faults EXCEPT !.late = l, !.done = d]
        BY <2>1 DEF Asks, FaultRecords
      <3> QED
        BY <3>1, <3>2, <3>3
    <2> QED
      BY <2>1, <2>2 DEF FaultRecords
  <1> HIDE DEF m
  <1>3. TypeOK'
    BY <1>0, <1>1, <1>2 DEF TypeOK, WorkStep, FaultRecords, Op
  <1>4. DoneStays /\ \A k, status : DoneAs(k, status) => DoneAs(k, status)'
    BY <1>0, <1>2 DEF DoneAs, DoneStays
  <1>5. TrueSoFar'
    <2>1. \A e \in Members(activity) : DoneAs(e.m, e.status)'
      BY <1>0, <1>4 DEF TrueSoFar
    <2>2. ASSUME NEW d \in Calls PROVE OwesTruth(call[d])'
      <3>1. CASE d # c
        <4>1. call'[d] = call[d] /\ OwesTruth(call[d])
          BY <1>0, <3>1 DEF TrueSoFar, OwesTruth, WorkStep
        <4> QED
          BY <1>0, <1>4, <4>1 DEF OwesTruth, DoneStays
      <3>2. CASE d = c
        BY <3>2 DEF OwesTruth, Ended
      <3> QED
        BY <3>1, <3>2
    <2> QED
      BY <1>0, <2>1, <2>2 DEF TrueSoFar, OwesTruth
  <1>6. HeldWork' /\ (OnlyTwoCame' <=> OnlyTwoCame) /\ (WorkAlone => WorkAlone')
    BY <1>0, OthersWait
  <1>7. ASSUME Op # "design", ~faults'.overlapped PROVE AskedByOne'
    <2>0. AskedByOne
      BY <1>7, <1>0, <1>2 DEF PackageInv
    <2>1. commits[m] = 0 /\ \E e \in Accepted(m, activity) : e.by = c
      BY <2>0 DEF AskedByOne, AfterAcceptance, m
    <2>2. commits'[m] = 1 /\ \A k \in Commands : k # m => commits'[k] = commits[k]
      BY <1>0, <1>1, <2>1 DEF TypeOK
    <2>3. \A k \in Commands :
              /\ commits'[k] <= 1
              /\ commits'[k] = 1 => Accepted(k, activity) # {}
              /\ \A d, e \in Accepted(k, activity) : d.by = e.by
      BY <2>0, <2>1, <2>2 DEF AskedByOne
    <2>4. ASSUME NEW d \in Calls, call'[d].at \in AfterAcceptance
          PROVE  commits'[call'[d].m] = 0 /\ \E e \in Accepted(call'[d].m, activity) : e.by = d
      <3>1. d # c /\ call'[d] = call[d]
        BY <2>4 DEF WorkStep, AfterAcceptance, Ended
      <3>2. /\ commits[call[d].m] = 0 /\ \E e \in Accepted(call[d].m, activity) : e.by = d
            /\ call[d].m \in Commands
        BY <1>0, <2>0, <2>4, <3>1 DEF AskedByOne, TypeOK, CallOK, AfterAcceptance, Ended
      <3>3. call[d].m # m
        BY <1>0, <2>0, <2>1, <3>1, <3>2 DEF AskedByOne
      <3> QED
        BY <2>2, <3>1, <3>2, <3>3
    <2> QED
      BY <1>0, <2>3, <2>4 DEF AskedByOne
  <1>8. ASSUME Uncommented PROVE Uncommented'
    <2>1. Results(m, activity) = {}
      BY <1>8 DEF Uncommented, BeforeResult, AfterAcceptance, m
    <2>2. ~faults'.overlapped /\ ~faults'.late
      BY <1>2, <1>8, <2>1 DEF Uncommented
    <2>3. ASSUME NEW d \in Calls
          PROVE  /\ call'[d].at \in {"before", "accept"} => Of(call'[d].m, activity) = {}
                 /\ call'[d].at \in BeforeResult => Results(call'[d].m, activity) = {}
      <3>1. CASE d # c
        BY <1>8, <3>1 DEF Uncommented, WorkStep
      <3>2. CASE d = c
        <4>1. call'[c].at \in {"linked", "record"} => call'[c].m = m
          BY DEF WorkStep, Ended, m
        <4> QED
          BY <2>1, <3>2, <4>1 DEF Ended, BeforeResult, AfterAcceptance
      <3> QED
        BY <3>1, <3>2
    <2> QED
      BY <1>0, <2>2, <2>3 DEF Uncommented
  <1> QED
    BY <1>0, <1>3, <1>5, <1>6, <1>7, <1>8 DEF PackageInv, Serialized

(* No call works in the beginning.                                         *)
LEMMA PackageInit == Init => PackageInv
  <1> SUFFICES ASSUME Init PROVE PackageInv
    OBVIOUS
  <1>1. \A c \in Calls : call[c] = Idle
    BY DEF Init
  <1>2. TypeOK
    <2>1. DOMAIN record = {"op", "identity"}
      BY DEF Init
    <2>2. faults \in [count : Nat, overlapped : BOOLEAN, late : BOOLEAN,
                      done : SUBSET Commands, catalogued : SUBSET Commands]
      BY DEF Init
    <2>3. CallOK(Idle, Op)
      BY DEF CallOK, CallFields, Idle, Places, Statuses
    <2>4. activity \in Seq(Events) /\ commits \in [Commands -> Nat] /\ DOMAIN call = Calls
      BY DEF Init
    <2> QED
      BY <1>1, <2>1, <2>2, <2>3, <2>4 DEF TypeOK
  <1>3. Members(activity) = {}
    BY DEF Init, Members
  <1>4. TrueSoFar /\ HeldWork
    BY <1>1, <1>3 DEF Init, TrueSoFar, HeldWork, Idle
  <1>5. AskedByOne
    BY <1>1, <1>3 DEF Init, AskedByOne, Idle, AfterAcceptance, Accepted, Of
  <1>6. WorkAlone /\ Uncommented
    BY <1>1 DEF Init, WorkAlone, Uncommented, Idle, Working, BeforeResult, AfterAcceptance
  <1> QED
    BY <1>2, <1>4, <1>5, <1>6 DEF PackageInv

(* A call that comes, or goes on after it waited, has nothing to answer    *)
(* for; it keeps the invariant when it works alone.                        *)
LEMMA ComesKeeps ==
    ASSUME PackageInv, NEW c \in Calls, NEW my, call' = [call EXCEPT ![c] = my],
           call[c].at \in {"idle", "wait"}, my.at \in {"look", "wait"}, CallOK(my, Op),
           UNCHANGED <<record, activity, commits, receipts, faults>>,
           HeldWork', OnlyTwoCame' => OnlyTwoCame,
           Serialized /\ OnlyTwoCame' => WorkAlone'
    PROVE  PackageInv'
  <1>0. TypeOK /\ TrueSoFar /\ Op' = Op
    BY DEF PackageInv, Op
  <1>1. /\ DOMAIN call' = Calls /\ call'[c] = my
        /\ \A e \in Calls \ {c} : call'[e] = call[e]
    BY <1>0 DEF TypeOK
  <1>2. TypeOK'
    BY <1>0, <1>1 DEF TypeOK
  <1>3. TrueSoFar'
    <2>1. \A m, status : DoneAs(m, status)' <=> DoneAs(m, status)
      BY <1>0 DEF DoneAs
    <2> QED
      BY <1>0, <1>1, <2>1 DEF TrueSoFar
  <1>4. my.at \notin AfterAcceptance \cup BeforeResult
    BY DEF AfterAcceptance, BeforeResult
  <1>5. AskedByOne => AskedByOne'
    BY <1>1, <1>4 DEF AskedByOne
  <1>6. Uncommented => Uncommented'
    BY <1>1, <1>4 DEF Uncommented, BeforeResult
  <1> QED
    BY <1>0, <1>2, <1>3, <1>5, <1>6 DEF PackageInv, Serialized

(* A call begins when none of its kind works, or waits for one that does.  *)
LEMMA BeginKeeps ==
    ASSUME PackageInv, NEW c \in Calls, Begin(c)
    PROVE  PackageInv'
  <1>0. TypeOK /\ HeldWork /\ Op' = Op /\ DOMAIN call = Calls
    BY DEF PackageInv, TypeOK, Begin, Op
  <1>1. PICK m \in Commands, payload \in Payloads :
            LET begun == [Idle EXCEPT !.m = m, !.payload = payload] IN
            /\ call[c].at = "idle"
            /\ \/ /\ ~Serialized \/ Ahead(m) = {}
                  /\ call' = [call EXCEPT ![c] = [begun EXCEPT !.at = "look"]]
                  /\ held' = IF Serialized THEN held \cup {c} ELSE held
               \/ \E d \in Ahead(m) :
                     /\ call' = [call EXCEPT ![c] = [begun EXCEPT !.at = "wait", !.on = d]]
                     /\ UNCHANGED held
            /\ UNCHANGED <<record, activity, commits, receipts, faults>>
    BY DEF Begin
  <1> DEFINE begun == [Idle EXCEPT !.m = m, !.payload = payload]
  <1>2. CASE /\ ~Serialized \/ Ahead(m) = {}
             /\ call' = [call EXCEPT ![c] = [begun EXCEPT !.at = "look"]]
             /\ held' = IF Serialized THEN held \cup {c} ELSE held
    <2> DEFINE my == [begun EXCEPT !.at = "look"]
    <2>1. my.at = "look" /\ my.m = m /\ CallOK(my, Op)
      BY DEF CallOK, CallFields, Idle, Places, Ended, Statuses
    <2> HIDE DEF my
    <2>2. /\ DOMAIN call' = Calls /\ call'[c] = my
          /\ \A e \in Calls \ {c} : call'[e] = call[e]
      BY <1>0, <1>2 DEF my
    <2>3. HeldWork'
      BY <1>0, <1>2, <2>1, <2>2 DEF HeldWork, Working, Ended
    <2>4. OnlyTwoCame' => OnlyTwoCame
      <3>1. \A e \in Calls : call'[e].at = "idle" => call[e].at = "idle"
        BY <1>1, <2>1, <2>2
      <3> QED
        BY <3>1 DEF OnlyTwoCame
    <2>5. ASSUME Serialized, OnlyTwoCame' PROVE WorkAlone'
      <3>0. WorkAlone
        BY <2>4, <2>5 DEF PackageInv
      <3>1. ASSUME NEW d \in Calls, d # c, Working(call[d]), Together(my, call[d], Op)
            PROVE  FALSE
        <4>1. CASE d \in held
          BY <1>2, <2>1, <2>5, <3>1, <4>1 DEF Ahead, Together
        <4>2. CASE \E e \in Calls : call[e].at \in Ended
          <5>1. PICK e \in Calls : call[e].at \in Ended
            BY <4>2
          <5>2. e # c /\ e # d /\ call'[e].at # "idle"
            BY <1>1, <2>2, <3>1, <5>1 DEF Working, Ended
          <5>3. call'[c].at # "idle" /\ call'[d].at # "idle"
            BY <2>1, <2>2, <3>1 DEF Working
          <5> QED
            BY <2>5, <3>1, <5>2, <5>3 DEF OnlyTwoCame
        <4> QED
          BY <3>0, <3>1, <4>1, <4>2 DEF WorkAlone
      <3>2. ASSUME NEW d \in Calls, NEW e \in Calls, Working(call'[d]), Working(call'[e]),
                   Together(call'[d], call'[e], Op)
            PROVE  d = e
        BY <2>2, <3>0, <3>1, <3>2 DEF WorkAlone, Together
      <3>3. ASSUME NEW d \in Calls, Working(call'[d])
            PROVE  d \in held' \/ \E e \in Calls : call'[e].at \in Ended
        <4>1. CASE d = c
          BY <1>2, <2>5, <4>1
        <4>2. CASE d # c
          <5>1. d \in held \/ \E e \in Calls : call[e].at \in Ended
            BY <2>2, <3>0, <3>3, <4>2 DEF WorkAlone
          <5>2. \A e \in Calls : call[e].at \in Ended => call'[e].at \in Ended
            BY <1>1, <2>2 DEF Ended
          <5> QED
            BY <1>2, <2>5, <5>1, <5>2
        <4> QED
          BY <4>1, <4>2
      <3>4. ASSUME NEW d \in Calls, call'[d].at = "wait"
            PROVE  /\ call'[d].on \in Calls
                   /\ \/ call'[call'[d].on].at \in Ended
                      \/ /\ Working(call'[call'[d].on])
                         /\ Together(call'[d], call'[call'[d].on], Op)
        <4>1. d # c /\ call'[d] = call[d]
          BY <2>1, <2>2, <3>4
        <4>2. call[d].on \in Calls /\ call[d].on # c
          BY <1>1, <3>0, <3>4, <4>1 DEF WorkAlone, Working, Ended
        <4> QED
          BY <2>2, <3>0, <3>4, <4>1, <4>2 DEF WorkAlone
      <3> QED
        BY <1>0, <3>2, <3>3, <3>4 DEF WorkAlone
    <2> QED
      BY <1>1, <1>2, <2>1, <2>3, <2>4, <2>5, ComesKeeps DEF my
  <1>3. CASE \E d \in Ahead(m) :
                /\ call' = [call EXCEPT ![c] = [begun EXCEPT !.at = "wait", !.on = d]]
                /\ UNCHANGED held
    <2>1. PICK a \in Ahead(m) :
             /\ call' = [call EXCEPT ![c] = [begun EXCEPT !.at = "wait", !.on = a]]
             /\ UNCHANGED held
      BY <1>3
    <2> DEFINE my == [begun EXCEPT !.at = "wait", !.on = a]
    <2>2. my.at = "wait" /\ my.m = m /\ my.on = a /\ CallOK(my, Op)
      BY DEF CallOK, CallFields, Idle, Places, Ended, Statuses
    <2> HIDE DEF my
    <2>3. /\ DOMAIN call' = Calls /\ call'[c] = my
          /\ \A e \in Calls \ {c} : call'[e] = call[e]
      BY <1>0, <2>1 DEF my
    <2>4. HeldWork'
      BY <1>0, <1>1, <2>1, <2>3 DEF HeldWork, Working, Ended
    <2>5. OnlyTwoCame' => OnlyTwoCame
      <3>1. \A e \in Calls : call'[e].at = "idle" => call[e].at = "idle"
        BY <1>1, <2>2, <2>3
      <3> QED
        BY <3>1 DEF OnlyTwoCame
    <2>6. /\ a \in Calls /\ a # c /\ Working(call[a])
          /\ Op = "close" \/ call[a].m = m
      BY <1>0, <1>1 DEF Ahead, HeldWork, Working
    <2>7. ASSUME WorkAlone PROVE WorkAlone'
      <3>1. \A d \in Calls : Working(call'[d]) => d # c /\ call'[d] = call[d]
        BY <2>2, <2>3 DEF Working
      <3>2. \A e \in Calls : call[e].at \in Ended => call'[e].at \in Ended
        BY <1>1, <2>3 DEF Ended
      <3>3. ASSUME NEW d \in Calls, call'[d].at = "wait"
            PROVE  /\ call'[d].on \in Calls
                   /\ \/ call'[call'[d].on].at \in Ended
                      \/ /\ Working(call'[call'[d].on])
                         /\ Together(call'[d], call'[call'[d].on], Op)
        <4>1. CASE d = c
          BY <2>2, <2>3, <2>6, <4>1 DEF Together
        <4>2. CASE d # c
          <5>1. call[d].on \in Calls /\ call[d].on # c
            BY <1>1, <2>3, <2>7, <3>3, <4>2 DEF WorkAlone, Working, Ended
          <5> QED
            BY <2>3, <2>7, <3>3, <4>2, <5>1 DEF WorkAlone
        <4> QED
          BY <4>1, <4>2
      <3>4. \A d \in Calls : Working(call'[d]) =>
                d \in held' \/ \E e \in Calls : call'[e].at \in Ended
        BY <2>1, <2>7, <3>1, <3>2 DEF WorkAlone
      <3> QED
        BY <1>0, <2>7, <3>1, <3>3, <3>4 DEF WorkAlone
    <2>8. Serialized /\ OnlyTwoCame' => WorkAlone'
      BY <2>5, <2>7 DEF PackageInv
    <2> QED
      BY <1>1, <2>1, <2>2, <2>4, <2>5, <2>8, ComesKeeps DEF my
  <1> QED
    BY <1>1, <1>2, <1>3

(* The call that waited goes on when the other has ended.                  *)
LEMMA FollowKeeps ==
    ASSUME PackageInv, NEW c \in Calls, Follow(c)
    PROVE  PackageInv'
  <1>0. TypeOK /\ HeldWork /\ Op' = Op /\ DOMAIN call = Calls /\ CallOK(call[c], Op)
    BY DEF PackageInv, TypeOK, Follow, Op
  <1> DEFINE my == [call[c] EXCEPT !.at = "look", !.on = "none"]
  <1>1. /\ my.at = "look" /\ my.m = call[c].m /\ DOMAIN my = CallFields
        /\ my.payload = call[c].payload /\ my.status = call[c].status
        /\ call[c].at = "wait" /\ call[call[c].on].at \in Ended
    BY <1>0 DEF CallOK, CallFields, Follow
  <1>2. /\ call' = [call EXCEPT ![c] = my]
        /\ UNCHANGED <<record, activity, commits, receipts, faults, held>>
    BY <1>0 DEF Follow
  <1> HIDE DEF my
  <1>3. CallOK(my, Op)
    BY <1>0, <1>1 DEF CallOK, Places, Ended
  <1>4. DOMAIN call' = Calls /\ call'[c] = my /\ \A e \in Calls \ {c} : call'[e] = call[e]
    BY <1>0, <1>2
  <1>5. HeldWork'
    BY <1>0, <1>1, <1>2, <1>4 DEF HeldWork, Working, Ended
  <1>6. OnlyTwoCame' => OnlyTwoCame
    <2>1. \A e \in Calls : call'[e].at = "idle" => call[e].at = "idle"
      BY <1>1, <1>4
    <2> QED
      BY <2>1 DEF OnlyTwoCame
  <1>7. ASSUME WorkAlone, OnlyTwoCame PROVE WorkAlone'
    <2>0. call[c].on \in Calls /\ call[c].on # c
      BY <1>1, <1>7 DEF WorkAlone, Ended
    <2>1. \A d \in Calls : Working(call[d]) => FALSE
      <3> SUFFICES ASSUME NEW d \in Calls, Working(call[d]) PROVE FALSE
        OBVIOUS
      <3>1. /\ d # c /\ d # call[c].on /\ call[d].at # "idle"
            /\ call[c].at # "idle" /\ call[call[c].on].at # "idle"
        BY <1>1 DEF Working, Ended
      <3> QED
        BY <1>7, <2>0, <3>1 DEF OnlyTwoCame
    <2>2. \A d \in Calls : Working(call'[d]) => d = c
      BY <1>4, <2>1
    <2>3. call'[call[c].on].at \in Ended
      BY <1>1, <1>4, <2>0
    <2>4. ASSUME NEW d \in Calls, call'[d].at = "wait"
          PROVE  call'[d].on \in Calls /\ call'[call'[d].on].at \in Ended
      <3>1. d # c /\ call'[d] = call[d] /\ call[d].at = "wait"
        BY <1>1, <1>4, <2>4
      <3>2. call[d].on \in Calls /\ call[call[d].on].at \in Ended
        BY <1>7, <2>1, <3>1 DEF WorkAlone
      <3> QED
        BY <1>1, <1>4, <3>1, <3>2 DEF Ended
    <2> QED
      BY <2>0, <2>2, <2>3, <2>4 DEF WorkAlone
  <1>8. Serialized /\ OnlyTwoCame' => WorkAlone'
    BY <1>6, <1>7 DEF PackageInv
  <1> QED
    BY <1>1, <1>2, <1>3, <1>5, <1>6, <1>8, ComesKeeps

(* After a restart no call works or waits.                                 *)
LEMMA RestartKeeps == PackageInv /\ Restart => PackageInv'
  <1> SUFFICES ASSUME PackageInv, Restart PROVE PackageInv'
    OBVIOUS
  <1>0. TypeOK /\ TrueSoFar
    BY DEF PackageInv
  <1>1. /\ record'.op = record.op /\ DOMAIN record' = {"op", "identity"} /\ held' = {}
        /\ UNCHANGED <<activity, commits, receipts>>
        /\ DOMAIN call' = Calls /\ faults' = Counted
    BY <1>0 DEF Restart, TypeOK
  <1>2. \A c \in Calls :
           /\ call'[c].at \in Ended \cup {"idle"} /\ CallOK(call'[c], Op)
           /\ call'[c].at = "idle" <=> call[c].at = "idle"
    <2> SUFFICES ASSUME NEW c \in Calls
                 PROVE  /\ call'[c].at \in Ended \cup {"idle"} /\ CallOK(call'[c], Op)
                        /\ call'[c].at = "idle" <=> call[c].at = "idle"
      OBVIOUS
    <2>1. CASE Active(c)
      <3>1. call'[c] = [Idle EXCEPT !.at = "failed"]
        BY <2>1 DEF Restart
      <3> QED
        BY <2>1, <3>1 DEF Active, CallOK, CallFields, Idle, Places, Ended, Statuses
    <2>2. CASE ~Active(c)
      <3>1. call'[c] = call[c]
        BY <2>2 DEF Restart
      <3> QED
        BY <1>0, <2>2, <3>1 DEF Active, TypeOK
    <2> QED
      BY <2>1, <2>2
  <1>3. /\ faults' \in FaultRecords /\ faults'.overlapped = faults.overlapped
        /\ faults'.late = faults.late /\ faults'.done = faults.done
        /\ faults'.catalogued = faults.catalogued
    <2>1. faults \in FaultRecords
      BY <1>0 DEF TypeOK, FaultRecords
    <2> QED
      BY <1>1, <2>1 DEF Counted, FaultRecords
  <1>4. Op' = Op /\ TypeOK'
    BY <1>0, <1>1, <1>2, <1>3 DEF TypeOK, FaultRecords, Op
  <1>5. HeldWork'
    BY <1>1 DEF HeldWork
  <1>6. TrueSoFar'
    <2>1. \A m, status : DoneAs(m, status)' <=> DoneAs(m, status)
      BY <1>3, <1>4 DEF DoneAs
    <2> QED
      BY <1>0, <1>1, <1>2, <2>1 DEF TrueSoFar, Ended
  <1>7. AskedByOne => AskedByOne'
    BY <1>1, <1>2 DEF AskedByOne, AfterAcceptance, Ended
  <1>8. OnlyTwoCame' <=> OnlyTwoCame
    BY <1>2 DEF OnlyTwoCame
  <1>9. WorkAlone'
    BY <1>2 DEF WorkAlone, Working, Ended
  <1>10. Uncommented => Uncommented'
    BY <1>1, <1>2, <1>3 DEF Uncommented, BeforeResult, AfterAcceptance, Ended
  <1> QED
    BY <1>3, <1>4, <1>5, <1>6, <1>7, <1>8, <1>9, <1>10 DEF PackageInv, Serialized

(* The steps between two comments, in order.                               *)
LEMMA ReadKeeps ==
    ASSUME PackageInv, NEW c \in Calls,
           Fails(c) \/ Identify(c) \/ Look(c) \/ Before(c) \/ Recover(c)
    PROVE  PackageInv'
  <1>0. /\ TypeOK /\ DOMAIN call = Calls /\ CallOK(call[c], Op)
        /\ DOMAIN record = {"op", "identity"} /\ faults \in FaultRecords
    BY DEF PackageInv, TypeOK, FaultRecords
  <1>1. Ended \subseteq Places /\ BeforeResult \subseteq Places
    BY DEF Places
  <1>2. CASE Fails(c)
    <2>1. Working(call[c]) /\ Ends(c, "failed") /\ faults' = Counted
          /\ UNCHANGED <<record, activity, commits, receipts>>
      BY <1>2 DEF Fails, Active, Working
    <2>2. WorkStep(c) /\ call'[c].at = "failed"
      BY <1>0, <2>1, EndsWork DEF Ended
    <2>3. /\ faults' \in FaultRecords /\ faults'.overlapped = faults.overlapped
          /\ faults'.late = faults.late /\ DoneStays
      BY <1>0, <2>1 DEF Counted, FaultRecords, DoneStays
    <2> QED
      BY <2>1, <2>2, <2>3, QuietKeeps
      DEF Ended, BeforeResult, AfterAcceptance, ReceiptsAreTrue
  <1>3. CASE Identify(c)
    <2>1. /\ call[c].at = "look" /\ Working(call[c])
          /\ record'.op = record.op /\ DOMAIN record' = DOMAIN record
          /\ UNCHANGED <<activity, commits, receipts, faults>>
      BY <1>0, <1>3 DEF Identify, Working, Ended
    <2>2. WorkStep(c) /\ call'[c].at \in {"look", "failed"}
      <3>1. CASE UNCHANGED <<call, held>>
        BY <1>0, <2>1, <3>1 DEF WorkStep, Op
      <3>2. CASE Ends(c, "failed")
        BY <1>0, <2>1, <3>2, EndsWork DEF Ended
      <3> QED
        BY <1>3, <3>1, <3>2 DEF Identify
    <2>3. DoneStays
      BY <2>1 DEF DoneStays
    <2> QED
      BY <1>0, <2>1, <2>2, <2>3, QuietKeeps
      DEF Ended, BeforeResult, AfterAcceptance, ReceiptsAreTrue, OwesTruth
  <1>4. CASE Look(c)
    <2>1. /\ call[c].at = "look" /\ Working(call[c])
          /\ UNCHANGED <<record, activity, commits, receipts, faults>>
      BY <1>4 DEF Look, Working, Ended
    <2>2. DoneStays
      BY <2>1 DEF DoneStays
    <2>3. CASE Ends(c, "failed") \/ Ends(c, "answered")
      <3>1. WorkStep(c) /\ call'[c].at \in Ended
        BY <1>0, <2>1, <2>3, EndsWork DEF Ended
      <3> QED
        BY <1>0, <2>1, <2>2, <3>1, QuietKeeps
        DEF Ended, BeforeResult, AfterAcceptance, ReceiptsAreTrue
    <2>4. ASSUME NEW at \in {"attest", "dispatch", "before"},
                 call' = [call EXCEPT ![c].at = at, ![c].gate = Gate(activity)],
                 UNCHANGED held,
                 at = "dispatch" => Op = "design" /\ Results(call[c].m, activity) = {},
                 at = "before" => Of(call[c].m, activity) = {}
          PROVE  PackageInv'
      <3> DEFINE gate == Gate(activity)
                 my == [call[c] EXCEPT !.at = at, !.gate = gate]
      <3> HIDE DEF gate
      <3>1. /\ DOMAIN my = CallFields /\ my.at = at /\ my.m = call[c].m
            /\ my.payload = call[c].payload /\ my.status = call[c].status
        BY <1>0 DEF CallOK, CallFields
      <3>2. call' = [call EXCEPT ![c] = my]
        BY <1>0, <2>4 DEF gate
      <3> HIDE DEF my
      <3>3. CallOK(my, record.op) /\ Working(my)
        BY <1>0, <2>1, <3>1
        DEF CallOK, Working, Op, Places, Ended, BeforeResult, AfterAcceptance
      <3>4. WorkStep(c) /\ call'[c].at = at
        BY <1>0, <2>1, <2>4, <3>1, <3>2, <3>3, WorksOn
      <3>5. Of(call[c].m, activity) = {} => Results(call[c].m, activity) = {}
        BY DEF Results
      <3>6. OwesTruth(call[c])'
        <4>1. Op' = Op
          BY <2>1 DEF Op
        <4> QED
          BY <2>4, <3>4, <4>1 DEF OwesTruth
      <3> QED
        BY <1>0, <2>1, <2>2, <2>4, <3>4, <3>5, <3>6, QuietKeeps
        DEF BeforeResult, AfterAcceptance, ReceiptsAreTrue
    <2> QED
      BY <1>4, <2>3, <2>4 DEF Look, Resumes
  <1>5. CASE Before(c)
    <2>1. /\ call[c].at = "before" /\ Working(call[c])
          /\ UNCHANGED <<record, activity, commits, receipts, faults>>
      BY <1>5 DEF Before, Working, Ended
    <2>2. DoneStays
      BY <2>1 DEF DoneStays
    <2>3. CASE Ends(c, "failed")
      <3>1. WorkStep(c) /\ call'[c].at \in Ended
        BY <1>0, <2>1, <2>3, EndsWork DEF Ended
      <3> QED
        BY <1>0, <2>1, <2>2, <3>1, QuietKeeps
        DEF Ended, BeforeResult, AfterAcceptance, ReceiptsAreTrue
    <2>4. CASE /\ call' = [call EXCEPT ![c].at = "accept", ![c].before = Source]
               /\ UNCHANGED held
      <3> DEFINE my == [call[c] EXCEPT !.at = "accept", !.before = Source]
      <3>1. /\ DOMAIN my = CallFields /\ my.at = "accept" /\ my.m = call[c].m
            /\ my.payload = call[c].payload /\ my.status = call[c].status
        BY <1>0 DEF CallOK, CallFields
      <3>2. call' = [call EXCEPT ![c] = my]
        BY <1>0, <2>4
      <3> HIDE DEF my
      <3>3. CallOK(my, record.op) /\ Working(my)
        BY <1>0, <2>1, <3>1 DEF CallOK, Working, Op, Places, Ended, BeforeResult
      <3>4. WorkStep(c) /\ call'[c].at = "accept"
        BY <1>0, <2>1, <2>4, <3>1, <3>2, <3>3, WorksOn
      <3> QED
        BY <1>0, <2>1, <2>2, <3>4, QuietKeeps
        DEF BeforeResult, AfterAcceptance, ReceiptsAreTrue, OwesTruth
    <2> QED
      BY <1>5, <2>3, <2>4 DEF Before
  <1>6. CASE Recover(c)
    <2>1. /\ call[c].at \in {"accepted", "result"} /\ Working(call[c])
          /\ UNCHANGED <<record, activity, commits, receipts, faults>>
      BY <1>6 DEF Recover, Working, Ended
    <2>2. DoneStays /\ Op = "design" /\ Op' = Op
      BY <1>0, <2>1 DEF DoneStays, CallOK, Op
    <2>3. CASE Ends(c, "failed") \/ Ends(c, "answered")
      <3>1. WorkStep(c) /\ call'[c].at \in Ended
        BY <1>0, <2>1, <2>3, EndsWork DEF Ended
      <3> QED
        BY <1>0, <2>1, <2>2, <3>1, QuietKeeps
        DEF Ended, BeforeResult, AfterAcceptance, ReceiptsAreTrue
    <2>4. CASE call[c].at = "accepted" /\ Goes(c, "dispatch")
      <3>1. WorkStep(c) /\ call'[c].at = "dispatch"
        BY <1>0, <2>1, <2>4, GoesOn DEF Places, BeforeResult, AfterAcceptance, Ended
      <3> QED
        BY <1>0, <2>1, <2>2, <2>4, <3>1, QuietKeeps
        DEF BeforeResult, AfterAcceptance, ReceiptsAreTrue, OwesTruth
    <2> QED
      BY <1>6, <2>3, <2>4 DEF Recover
  <1> QED
    BY <1>2, <1>3, <1>4, <1>5, <1>6

(* The steps between acceptance and result.                                *)
LEMMA ApplyKeeps ==
    ASSUME PackageInv, NEW c \in Calls,
           \/ Recheck(c) \/ CheckCatalog(c) \/ MutateCatalog(c) \/ ReadCatalog(c)
           \/ Dispatch(c) \/ DispatchFails(c) \/ ReadLink(c)
    PROVE  PackageInv'
  <1>0. /\ TypeOK /\ DOMAIN call = Calls /\ CallOK(call[c], Op)
        /\ DOMAIN record = {"op", "identity"} /\ faults \in FaultRecords
        /\ OwesTruth(call[c])
    BY DEF PackageInv, TypeOK, FaultRecords, TrueSoFar, OwesTruth
  <1>1. /\ call[c].at \in {"recheck", "catalog", "mutate", "readback", "dispatch", "linked"}
        /\ Working(call[c]) /\ call[c].m \in Commands
        /\ UNCHANGED <<record, activity, receipts>> /\ Op' = Op
    <2>1. /\ call[c].at \in {"recheck", "catalog", "mutate", "readback", "dispatch", "linked"}
          /\ UNCHANGED <<record, activity, receipts>>
      BY DEF Recheck, CheckCatalog, MutateCatalog, ReadCatalog, Dispatch, DispatchFails,
             ReadLink, Asks
    <2> QED
      BY <1>0, <2>1 DEF Working, Ended, CallOK, Op
  <1>2. ASSUME NEW status \in Statuses, Finishes(c, status), UNCHANGED <<commits, faults>>,
               DoneAs(call[c].m, status)
        PROVE  PackageInv'
    <2>1. WorkStep(c) /\ call'[c].at = "record" /\ call'[c].status = status
      BY <1>0, <1>1, <1>2, FinishesWork
    <2>2. call'[c].m = call[c].m /\ DoneStays
      BY <1>2, <2>1 DEF WorkStep, Ended, DoneStays
    <2>3. OwesTruth(call[c])'
      BY <1>1, <1>2, <2>1, <2>2 DEF OwesTruth, DoneAs
    <2> QED
      BY <1>0, <1>1, <1>2, <2>1, <2>2, <2>3, QuietKeeps
      DEF BeforeResult, AfterAcceptance, ReceiptsAreTrue
  <1>3. ASSUME NEW at \in {"catalog", "mutate", "dispatch"}, Goes(c, at),
               UNCHANGED <<commits, faults>>, call[c].at \in AfterAcceptance,
               at \in {"catalog", "mutate"} => Op = "link",
               at = "dispatch" /\ Op = "link" => call[c].m \in faults.catalogued
        PROVE  PackageInv'
    <2>1. WorkStep(c) /\ call'[c].at = at
      BY <1>0, <1>1, <1>3, GoesOn DEF Places, BeforeResult, AfterAcceptance, Ended
    <2>2. call'[c].m = call[c].m /\ DoneStays
      BY <1>3, <2>1 DEF WorkStep, Ended, DoneStays
    <2>3. OwesTruth(call[c])'
      BY <1>1, <1>3, <2>1, <2>2 DEF OwesTruth
    <2> QED
      BY <1>0, <1>1, <1>3, <2>1, <2>2, <2>3, QuietKeeps
      DEF BeforeResult, AfterAcceptance, ReceiptsAreTrue
  <1>4. DoneAs(call[c].m, "rejected") /\ DoneAs(call[c].m, "routed")
    BY DEF DoneAs
  <1>5. CASE Recheck(c)
    BY <1>2, <1>3, <1>4, <1>5 DEF Recheck, Statuses, AfterAcceptance
  <1>6. CASE CheckCatalog(c)
    BY <1>0, <1>2, <1>3, <1>4, <1>6 DEF CheckCatalog, Statuses, AfterAcceptance, CallOK
  <1>7. CASE MutateCatalog(c)
    <2>0. Op = "link" /\ call[c].at = "mutate" /\ UNCHANGED commits
      BY <1>0, <1>7 DEF MutateCatalog, CallOK
    <2>1. CASE Finishes(c, "rejected") /\ UNCHANGED faults
      BY <1>2, <1>4, <2>0, <2>1 DEF Statuses
    <2>2. CASE faults' = [faults EXCEPT !.catalogued = @ \cup {call[c].m}]
      <3>1. /\ faults' \in FaultRecords /\ faults'.overlapped = faults.overlapped
            /\ faults'.late = faults.late /\ DoneStays
            /\ call[c].m \in faults'.catalogued
        BY <1>0, <1>1, <2>2 DEF FaultRecords, DoneStays
      <3>2. CASE Finishes(c, "rejected")
        <4>1. WorkStep(c) /\ call'[c].at = "record" /\ call'[c].status = "rejected"
          BY <1>0, <1>1, <3>2, FinishesWork DEF Statuses
        <4>2. OwesTruth(call[c])'
          BY <4>1 DEF OwesTruth, DoneAs
        <4> QED
          BY <1>1, <2>0, <3>1, <4>1, <4>2, QuietKeeps
          DEF BeforeResult, AfterAcceptance, ReceiptsAreTrue
      <3>3. CASE /\ call' = [call EXCEPT ![c].at = "readback", ![c].catalog = canon.catalog + 1]
                 /\ UNCHANGED held
        <4> DEFINE my == [call[c] EXCEPT !.at = "readback", !.catalog = canon.catalog + 1]
        <4>1. /\ DOMAIN my = CallFields /\ my.at = "readback" /\ my.m = call[c].m
              /\ my.payload = call[c].payload /\ my.status = call[c].status
          BY <1>0 DEF CallOK, CallFields
        <4>2. call' = [call EXCEPT ![c] = my]
          BY <1>0, <3>3
        <4> HIDE DEF my
        <4>3. CallOK(my, record.op) /\ Working(my)
          BY <1>0, <2>0, <4>1
          DEF CallOK, Working, Op, Places, Ended, BeforeResult, AfterAcceptance
        <4>4. WorkStep(c) /\ call'[c] = my
          BY <1>0, <1>1, <3>3, <4>1, <4>2, <4>3, WorksOn
        <4>5. OwesTruth(call[c])'
          BY <3>1, <4>1, <4>4 DEF OwesTruth
        <4> QED
          BY <1>1, <2>0, <3>1, <4>1, <4>4, <4>5, QuietKeeps
          DEF BeforeResult, AfterAcceptance, ReceiptsAreTrue
      <3> QED
        BY <1>7, <2>2, <3>2, <3>3 DEF MutateCatalog
    <2> QED
      BY <1>7, <2>1, <2>2 DEF MutateCatalog
  <1>8. CASE ReadCatalog(c)
    BY <1>0, <1>2, <1>3, <1>4, <1>8 DEF ReadCatalog, Statuses, AfterAcceptance, CallOK, OwesTruth
  <1>9. CASE ReadLink(c)
    <2>1. Op = "link" /\ call[c].at = "linked" /\ UNCHANGED <<commits, faults>>
      BY <1>0, <1>9 DEF ReadLink, CallOK
    <2>2. DoneAs(call[c].m, "applied") /\ DoneAs(call[c].m, "partial_failure")
      BY <1>0, <2>1 DEF DoneAs, OwesTruth
    <2>3. Finishes(c, "applied") \/ Finishes(c, "partial_failure")
      BY <1>9, <2>1 DEF ReadLink, FailureStatus
    <2> QED
      BY <1>2, <2>1, <2>2, <2>3 DEF Statuses
  <1>10. ASSUME Asks(c), NEW status \in Statuses, Finishes(c, status),
                status = "applied" => call[c].m \in faults'.done,
                status = "partial_failure" =>
                    call[c].m \in IF Op = "link" THEN faults'.catalogued ELSE faults'.done
         PROVE  PackageInv'
    <2>1. WorkStep(c) /\ call'[c].at = "record" /\ call'[c].status = status
      BY <1>0, <1>1, <1>10, FinishesWork
    <2>2. call'[c].m = call[c].m
      BY <2>1 DEF WorkStep, Ended
    <2>3. OwesTruth(call[c])'
      BY <1>1, <1>10, <2>1, <2>2 DEF OwesTruth, DoneAs
    <2> QED
      BY <1>10, <2>1, <2>3, AskKeeps DEF Asks
  <1>11. Asks(c) => /\ call[c].at = "dispatch"
                    /\ faults.catalogued \subseteq faults'.catalogued
                    /\ Whole(call[c].m, canon') => call[c].m \in faults'.done
    BY <1>0 DEF Asks, FaultRecords
  <1>12. CASE Dispatch(c)
    <2>1. Asks(c) /\ call[c].m \in faults'.done
      BY <1>11, <1>12 DEF Dispatch
    <2>2. CASE Op = "link" /\ Goes(c, "linked")
      <3>1. WorkStep(c) /\ call'[c].at = "linked"
        BY <1>0, <1>1, <2>2, GoesOn DEF Places, BeforeResult, Ended
      <3>2. call'[c].m = call[c].m
        BY <3>1 DEF WorkStep, Ended
      <3>3. OwesTruth(call[c])'
        BY <1>0, <1>11, <2>1, <2>2, <3>1, <3>2 DEF OwesTruth
      <3> QED
        BY <2>1, <3>1, <3>3, AskKeeps DEF Asks
    <2>3. ASSUME NEW status \in SuccessStatuses, Op # "link", Finishes(c, status)
          PROVE  PackageInv'
      <3>1. status \in Statuses
        BY <2>3 DEF SuccessStatuses, Statuses
      <3> QED
        BY <1>10, <2>1, <2>3, <3>1
    <2> QED
      BY <1>12, <2>2, <2>3 DEF Dispatch
  <1>13. CASE DispatchFails(c)
    <2>1. Asks(c)
      BY <1>13 DEF DispatchFails
    <2>2. CASE Ends(c, "failed")
      <3>1. WorkStep(c) /\ call'[c].at = "failed"
        BY <1>0, <1>1, <2>2, EndsWork DEF Ended
      <3> QED
        BY <2>1, <3>1, AskKeeps DEF Asks, Ended
    <2>3. CASE Finishes(c, FailureStatus)
      <3>1. FailureStatus \in Statuses
        BY DEF FailureStatus, Statuses
      <3>2. /\ FailureStatus # "applied"
            /\ FailureStatus = "partial_failure" => Op = "link"
        BY DEF FailureStatus
      <3>3. Op = "link" => call[c].m \in faults'.catalogued
        BY <1>0, <1>11, <2>1 DEF OwesTruth
      <3> QED
        BY <1>10, <2>1, <2>3, <3>1, <3>2, <3>3
    <2> QED
      BY <1>13, <2>2, <2>3 DEF DispatchFails
  <1> QED
    BY <1>5, <1>6, <1>7, <1>8, <1>9, <1>12, <1>13

(* The steps that write a comment, and the attestation.                    *)
LEMMA WriteKeeps ==
    ASSUME PackageInv, NEW c \in Calls, Accept(c) \/ Record(c) \/ Attest(c)
    PROVE  PackageInv'
  <1>0. /\ TypeOK /\ DOMAIN call = Calls /\ CallOK(call[c], Op)
        /\ DOMAIN record = {"op", "identity"} /\ faults \in FaultRecords
    BY DEF PackageInv, TypeOK, FaultRecords
  <1>1. ASSUME NEW type \in {"accepted", "result"}, NEW status \in Statuses, NEW then,
               Comments(c, type, status, then), Working(call[c]),
               UNCHANGED <<record, commits, receipts>>,
               type = "accepted" => call[c].at = "accept" /\ status = "accepted",
               type = "result" => call[c].at = "record" /\ status = call[c].status,
               then = IF type = "result"
                      THEN IF Op = "close" THEN "attest" ELSE "answered"
                      ELSE IF Op = "design" THEN "dispatch" ELSE "recheck"
        PROVE  PackageInv'
    <2> DEFINE overlapping == \E e \in Of(call[c].m, activity) : e.type = type
               noted == [faults EXCEPT !.overlapped = faults.overlapped \/ overlapping]
    <2>0. overlapping \in BOOLEAN
      OBVIOUS
    <2>1. /\ noted \in FaultRecords /\ noted.late = faults.late /\ noted.done = faults.done
          /\ noted.catalogued = faults.catalogued
          /\ noted.overlapped = (faults.overlapped \/ overlapping)
      <3> HIDE DEF overlapping
      <3> QED
        BY <1>0, <2>0 DEF FaultRecords
    <2>2. faults' = noted \/ faults' = [noted EXCEPT !.count = noted.count + 1]
      BY <1>1 DEF Comments
    <2>3. /\ faults' \in FaultRecords /\ faults'.late = faults.late
          /\ faults'.done = faults.done /\ faults'.catalogued = faults.catalogued
          /\ faults'.overlapped = (faults.overlapped \/ overlapping)
      <3> HIDE DEF noted, overlapping
      <3> QED
        BY <2>1, <2>2 DEF FaultRecords
    <2>4. CASE /\ activity' = Append(activity, Event(c, type, status))
               /\ IF then = "answered" THEN Ends(c, then) ELSE Goes(c, then)
      <3>1. WorkStep(c) /\ call'[c].at = then
        <4>1. CASE then = "answered"
          BY <1>0, <1>1, <2>4, <4>1, EndsWork DEF Ended
        <4>2. CASE then # "answered"
          <5>1. then \in {"attest", "dispatch", "recheck"}
            BY <1>1, <4>2
          <5> QED
            BY <1>0, <1>1, <2>4, <4>2, <5>1, GoesOn
            DEF Places, BeforeResult, AfterAcceptance, Ended
        <4> QED
          BY <4>1, <4>2
      <3>2. /\ call'[c].at \in Ended \cup {"attest", type} \/
                   (type = "accepted" /\ call'[c].at \in {"recheck", "dispatch"})
            /\ call'[c].at = "recheck" => Op # "design"
            /\ call'[c].at = "dispatch" => Op = "design"
        BY <1>1, <3>1 DEF Ended
      <3> QED
        BY <1>0, <1>1, <2>3, <2>4, <3>1, <3>2, CommentKeeps
    <2>5. CASE /\ activity' \in {activity, Append(activity, Event(c, type, status))}
               /\ IF Op = "design" THEN Goes(c, type) ELSE Ends(c, "failed")
      <3>1. /\ WorkStep(c)
            /\ IF Op = "design" THEN call'[c].at = type ELSE call'[c].at = "failed"
        <4>1. CASE Op # "design"
          BY <1>0, <1>1, <2>5, <4>1, EndsWork DEF Ended
        <4>2. CASE Op = "design"
          <5>1. Goes(c, type) /\ type \in Places /\ type \notin Ended \cup {"idle", "wait"}
            BY <2>5, <4>2 DEF Places, BeforeResult, Ended
          <5>2. type \notin {"catalog", "mutate", "readback", "linked"}
            OBVIOUS
          <5> QED
            BY <1>0, <1>1, <4>2, <5>1, <5>2, GoesOn
        <4> QED
          BY <4>1, <4>2
      <3>2. /\ call'[c].at \in Ended \cup {"attest", type}
            /\ call'[c].at # "recheck" /\ call'[c].at # "dispatch"
            /\ call'[c].at \in Ended \/ Op = "design"
        BY <3>1 DEF Ended
      <3> QED
        BY <1>0, <1>1, <2>3, <2>5, <3>1, <3>2, CommentKeeps
    <2> QED
      BY <1>1, <2>4, <2>5 DEF Comments
  <1>2. CASE Accept(c)
    BY <1>1, <1>2 DEF Accept, Statuses, Working, Ended
  <1>3. CASE Record(c)
    BY <1>0, <1>1, <1>3 DEF Record, CallOK, Working, Ended
  <1>4. CASE Attest(c)
    <2>1. /\ call[c].at = "attest" /\ Working(call[c])
          /\ UNCHANGED <<record, activity, commits, faults>>
          /\ Ends(c, "answered") \/ Ends(c, "failed")
          /\ \/ receipts' = receipts
             \/ Candidate(call[c].m) /\ receipts' = receipts \cup {call[c].m}
      BY <1>4 DEF Attest, Working, Ended
    <2>2. WorkStep(c) /\ call'[c].at \in Ended
      BY <1>0, <2>1, EndsWork DEF Ended
    <2>3. ReceiptsAreTrue
      BY <2>1 DEF ReceiptsAreTrue, Candidate, Results, Of
    <2>4. DoneStays
      BY <2>1 DEF DoneStays
    <2> QED
      BY <1>0, <2>1, <2>2, <2>3, <2>4, QuietKeeps DEF Ended, BeforeResult, AfterAcceptance
  <1> QED
    BY <1>2, <1>3, <1>4

(* Every step keeps the invariant.                                         *)
LEMMA PackageStep == PackageInv /\ [Next]_vars => PackageInv'
  <1> SUFFICES ASSUME PackageInv, [Next]_vars PROVE PackageInv'
    OBVIOUS
  <1>1. CASE UNCHANGED <<record, activity, call, held, commits, receipts, faults>>
    BY <1>1 DEF PackageInv, TypeOK, HeldWork, TrueSoFar, AskedByOne, WorkAlone, Uncommented,
                DoneAs, Working, Together, Accepted, Of, Results, Serialized, OnlyTwoCame, Op
  <1>2. CASE Restart
    BY <1>2, RestartKeeps
  <1>3. CASE Edit
    BY <1>1, <1>3 DEF Edit
  <1>4. CASE UNCHANGED vars
    BY <1>1, <1>4 DEF vars
  <1>5. ASSUME NEW c \in Calls,
               \/ Begin(c) \/ Follow(c) \/ Identify(c) \/ Look(c) \/ Before(c) \/ Accept(c)
               \/ Recover(c) \/ Recheck(c) \/ CheckCatalog(c) \/ MutateCatalog(c)
               \/ ReadCatalog(c) \/ Dispatch(c) \/ DispatchFails(c) \/ ReadLink(c)
               \/ Record(c) \/ Attest(c) \/ Fails(c)
        PROVE  PackageInv'
    BY <1>5, BeginKeeps, FollowKeeps, ReadKeeps, ApplyKeeps, WriteKeeps
  <1> QED
    BY <1>2, <1>3, <1>4, <1>5 DEF Next

(* The invariant says that owners are asked once and that results are true.*)
LEMMA PackageHolds == PackageInv => AskedOnce /\ ResultsAreTrue
  BY DEF PackageInv, AskedByOne, Uncommented, AskedOnce, TrueSoFar, DoneAs, ResultsAreTrue, TypeOK

(* The owner of a change, link or closeout is asked once for a command     *)
(* unless two of its calls wrote their acceptance at the same time, which  *)
(* does not happen to Work Designs and closeouts before a third call; and  *)
(* results say what was done.                                              *)
THEOREM OwnersAreAskedOnce == Spec => [](AskedOnce /\ ResultsAreTrue)
  BY PackageInit, PackageStep, PackageHolds, PTL DEF Spec

=============================================================================

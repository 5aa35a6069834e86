--------------------------- MODULE OwnersProofs ---------------------------
(***************************************************************************)
(* Proofs about the owners of MCOwners, for any number of calls, requests, *)
(* repositories and attempts: what others keep of a request is what its    *)
(* owner recorded, a call that has ended leaves nothing open, and what has *)
(* been stopped is not begun again.                                        *)
(*                                                                         *)
(* Custody.  One call works on a request (LockInv), so what a call read of *)
(* its record is still there when it writes it: the record that ReadInv    *)
(* and WorkInv name.  A record that a correction rests on is a final one   *)
(* and is not written again.  So a write replaces a record that may be     *)
(* replaced, keeps its attempts, and an id in it is that of the record     *)
(* before it, that of the corrected one, or the answer to the call's own   *)
(* create.                                                                 *)
(*                                                                         *)
(* Reviews.  One call works on a request for as long as its lock is not    *)
(* lost, and the copy that it works on is the record until it writes.  A   *)
(* call whose lock was lost changes the review alone, with an answer that  *)
(* TellsTheReview, so what the request says stays true of the review.      *)
(*                                                                         *)
(* The credential.  A request that was stopped as never issued was never   *)
(* approved, and no command is made without an approval.  A call about to  *)
(* make its effect holds the lock that a stop needs.                       *)
(*                                                                         *)
(* The lifecycle.  Custody names the last change that was applied, and an  *)
(* archived repository stays archived, so no baseline comes back and a     *)
(* change that custody holds is the one that its request proposed.         *)
(*                                                                         *)
(* The model.  A change that the owner made is of the attempt that the     *)
(* record is at, and until the receipt is kept the record says that the    *)
(* owner may have been called.                                             *)
(*                                                                         *)
(* The controlled proof.  A run at work has told nobody of a result, each  *)
(* attempt leaves at most two controls, and a cancelled run was confirmed  *)
(* before it was called cancelled.                                         *)
(***************************************************************************)
EXTENDS MCOwners, FiniteSetTheorems, TLAPS

-----------------------------------------------------------------------------
(* Types.                                                                  *)

States == {"not-started", "command-issued", "recovery-required",
           "provider-acknowledged", "verified"}
Paths == {"none", "created", "recovered", "read-existing"}
Places == {"idle", "readiness", "linking", "probing", "recovering",
           "creating", "reading", "patching", "rereading"}
Statuses == {"none", "applying", "succeeded", "denied", "failed"}
Replies == {"none", "refused", "created"} \X (0..MaxRepositories)
CallStates == [at : Places, sub : Submissions \cup {NoSubmission},
               prior : Records, op : Operations, readback : Readbacks,
               reply : Replies]
Creates == [id : Requests, settings : Wanted, attempt : 1..MaxAttempts]

(* The constants have the fields that the model uses.                      *)
LEMMA SubmissionFacts ==
    ASSUME NEW s \in Submissions
    PROVE  /\ s.id \in Requests /\ s.settings \in Wanted
           /\ s.id # "none" /\ s.id # "nobody" /\ s.id # "others"
           /\ s.action \in {"provision-new", "link-existing"}
           /\ s.target \in 0..MaxRepositories
           /\ s.action = "link-existing" => s.target \in Ids
           /\ s.causation # "none" => s.causation \in Requests
BY CustodyAssumption DEF Requests, Wanted, Ids

(* No request has a name that the model uses for something else.           *)
LEMMA NamesApart ==
    /\ "none" \notin Requests /\ "nobody" \notin Requests /\ "others" \notin Requests
    /\ NoSubmission \notin Submissions
BY CustodyAssumption DEF Requests, NoSubmission

(* The records of nothing have their types.                                *)
LEMMA NothingTypes ==
    /\ Unborn \in Repositories /\ NoReadback \in Readbacks
    /\ NoOperation \in Operations /\ NoRecord \in Records
    /\ IdleCall \in CallStates
<1>1. MaxRepositories \in Nat /\ MaxAttempts \in Nat
  BY CustodyAssumption
<1>2. Unborn \in Repositories
  BY DEF Unborn, Repositories
<1>3. NoReadback \in Readbacks
  BY <1>1, <1>2 DEF NoReadback, Readbacks
<1>4. NoOperation \in Operations
  BY <1>1 DEF NoOperation, Operations
<1>5. NoRecord \in Records
  BY <1>3, <1>4 DEF NoRecord, Record, Records
<1>6. <<"none", 0>> \in Replies
  BY <1>1 DEF Replies
<1>. QED
  BY <1>2, <1>3, <1>4, <1>5, <1>6 DEF IdleCall, CallStates, Places

(* A record built from typed parts is typed, and has those parts.          *)
LEMMA RecordTypes ==
    ASSUME NEW s \in Submissions, NEW status \in Statuses, NEW retryable \in BOOLEAN,
           NEW op \in Operations, NEW readback \in Readbacks,
           NEW rec, rec = Record(s, status, retryable, op, readback)
    PROVE  /\ rec \in Records
           /\ rec.request = s /\ rec.status = status /\ rec.retryable = retryable
           /\ rec.op = op /\ rec.readback = readback
BY DEF Record, Records, Statuses

(* A submission without a request of its own is no correction.             *)
LEMMA NothingIsNoCorrection ==
    /\ ~IsCorrection(NoRecord.request) /\ ~Mutable(NoRecord)
    /\ NoRecord.op.id = 0 /\ NoRecord.op.attempts = 0 /\ NoRecord.status = "none"
    /\ NoRecord.request = NoSubmission
BY DEF NoRecord, Record, NoSubmission, IsCorrection, Mutable, NoOperation

-----------------------------------------------------------------------------
(* The lineage of a request.                                               *)

(* A request is of its own lineage, which consists of requests.            *)
LEMMA LineageSelf ==
    ASSUME NEW r \in Requests
    PROVE  r \in Lineage(r) /\ Lineage(r) \subseteq Requests
BY DEF Lineage

(* A write that leaves the corrections as they are, or adds to them, takes *)
(* nothing out of a lineage.                                               *)
LEMMA LineageGrows ==
    ASSUME \A q \in Requests : \/ store'[q].request = store[q].request
                               \/ ~IsCorrection(store[q].request),
           NEW r \in Requests
    PROVE  Lineage(r) \subseteq Lineage(r)'
<1>1. ASSUME NEW S, Corrected(S)', S \subseteq Requests PROVE Corrected(S)
  BY <1>1 DEF Corrected, IsCorrection
<1>2. ASSUME NEW q \in Lineage(r) PROVE q \in Lineage(r)'
  BY <1>1, <1>2 DEF Lineage, Requests
<1>. QED BY <1>2

-----------------------------------------------------------------------------
(* The invariant.                                                          *)

Working == {"linking", "recovering", "creating", "reading", "patching", "rereading"}

Journalled(r) == store[r].status # "none" /\ store[r].op.attempts >= 1

(* One call at a time works on a request.                                  *)
LockInv ==
    \A c, d \in Calls :
        calls[c].at # "idle" /\ calls[d].at # "idle" /\ calls[c].sub.id = calls[d].sub.id
            => c = d

(* A call before its first checkpoint, and what it read of the journal:    *)
(* nobody has replaced it since.                                           *)
ReadInv(c) ==
    LET k == calls[c]  r == k.sub.id
    IN  k.at \in {"readiness", "probing"} =>
          /\ k.op = NoOperation /\ MayAttempt(store[r])
          /\ \/ k.prior = store[r] /\ Mutable(k.prior) /\ k.prior.request = k.sub
             \/ /\ store[r].status = "none"
                /\ IF IsCorrection(k.sub)
                   THEN k.prior = store[k.sub.causation] /\ Corrects(k.sub, k.prior)
                   ELSE k.prior = NoRecord
          /\ k.at = "probing" => /\ store[r].status = "none" /\ ~IsCorrection(k.sub)
                                 /\ k.sub.action = "provision-new"

(* A call after a checkpoint: the journal says what it works on.           *)
WorkInv(c) ==
    LET k == calls[c]  r == k.sub.id
    IN  k.at \in Working =>
          /\ store[r] = Record(k.sub, "applying", FALSE, k.op, NoReadback)
          /\ k.sub.action = IF k.at = "linking" THEN "link-existing" ELSE "provision-new"
          /\ k.at = "recovering" => k.op.state = "recovery-required"
          /\ k.at \in {"reading", "patching", "rereading"} => k.op.id # 0
          /\ k.at = "creating" => k.op.id = 0
          /\ k.at \in {"recovering", "creating"} /\ k.op.id = 0 => ~IsCorrection(k.sub)
          /\ k.at = "recovering" /\ k.op.id = 0 => k.op.attempts < MaxAttempts

(* A created answer names a repository of the request.                     *)
ReplyInv(c) ==
    \A i \in Ids : calls[c].reply = <<"created", i>> => repos[i].by = calls[c].sub.id

CallOk(c) ==
    /\ calls[c].at # "idle" => calls[c].sub \in Submissions
    /\ ReadInv(c) /\ WorkInv(c) /\ ReplyInv(c)

(* Whose repository a record names that may be worked on, or that holds an *)
(* acknowledged id.                                                        *)
Holds(record) ==
    /\ record.request.action = "provision-new" /\ record.op.id # 0
    /\ Mutable(record) \/ HoldsAcknowledgedId(record)

RecordOk(r) ==
    /\ store[r].status = "none" => store[r] = NoRecord
    /\ store[r].status # "none" => store[r].request \in Submissions
    /\ Holds(store[r]) => repos[store[r].op.id].by \in Lineage(r)
    /\ IsCorrection(store[r].request) /\ Mutable(store[r]) => store[r].op.id # 0

(* What the provider has made, and may still make, is in the journal.      *)
ProviderInv ==
    /\ \A x \in inflight : Journalled(x.id)
    /\ \A i \in Ids : repos[i].by \in Requests => Journalled(repos[i].by)
    /\ \A i \in Ids : repos[i].place = "nowhere" => repos[i] = Unborn
    /\ \A i, j \in Named : i = j

IInv ==
    /\ TypeOK /\ LockInv /\ ProviderInv
    /\ \A c \in Calls : CallOk(c)
    /\ \A r \in Requests : RecordOk(r)

-----------------------------------------------------------------------------
(* What a step of a call does.                                             *)

(* The repositories stay whose they are; none gets the name.               *)
ReposKept ==
    /\ repos' \in [Ids -> Repositories]
    /\ \A i \in Ids :
          /\ repos'[i].by = repos[i].by
          /\ repos'[i].place = "name" => repos[i].place = "name"
          /\ repos[i].place = "nowhere" \/ repos'[i].place = "nowhere"
                => repos'[i] = repos[i]

(* Only the record of r is replaced, and only one that may be.             *)
Replaced(r) ==
    \A q \in Requests :
        \/ store'[q] = store[q]
        \/ q = r /\ (store[q].status = "none" \/ Mutable(store[q]))

(* rec may replace the record of r.                                        *)
MayWrite(r, rec) ==
    /\ rec \in Records /\ rec.status # "none"
    /\ rec.request \in Submissions /\ rec.request.id = r
    /\ rec.retryable => rec.status = "failed"
    /\ \/ store[r].status = "none"
       \/ /\ Mutable(store[r]) /\ rec.request = store[r].request
          /\ rec.op.attempts >= store[r].op.attempts
    /\ IsCorrection(rec.request) /\ Mutable(rec) => rec.op.id # 0
    /\ Holds(rec) =>
          \/ repos[rec.op.id].by \in Lineage(r) \cup {r}
          \/ /\ IsCorrection(rec.request)
             /\ repos[rec.op.id].by \in Lineage(rec.request.causation)

(* The lock is kept, or released.                                          *)
LEMMA LockKept ==
    ASSUME TypeOK, LockInv, NEW c \in Calls, calls[c].at # "idle", NEW k,
           calls' = [calls EXCEPT ![c] = k],
           k.at = "idle" \/ k.sub = calls[c].sub
    PROVE  LockInv'
<1>1. \A d \in Calls : calls'[d] = IF d = c THEN k ELSE calls[d]
  BY DEF TypeOK
<1>2. ASSUME NEW d \in Calls, NEW e \in Calls, calls'[d].at # "idle",
             calls'[e].at # "idle", calls'[d].sub.id = calls'[e].sub.id
      PROVE  d = e
  BY <1>1, <1>2 DEF LockInv
<1>. QED BY <1>2 DEF LockInv

(* What another call knows stays so.                                       *)
LEMMA OtherCallKept ==
    ASSUME NEW r, Replaced(r), ReposKept, NEW d \in Calls, CallOk(d),
           \A q \in Requests : RecordOk(q),
           calls'[d] = calls[d], calls[d].at # "idle" => calls[d].sub.id # r
    PROVE  CallOk(d)'
<1>1. ReplyInv(d)'
  BY DEF CallOk, ReplyInv, ReposKept
<1>2. CASE calls[d].at = "idle"
  BY <1>1, <1>2 DEF CallOk, ReadInv, WorkInv, Working
<1>3. CASE calls[d].at # "idle"
  <2>. DEFINE k == calls[d]
  <2>1. k.sub \in Submissions /\ k.sub.id \in Requests /\ store'[k.sub.id] = store[k.sub.id]
    BY <1>3, SubmissionFacts DEF CallOk, Replaced
  <2>2. WorkInv(d)'
    BY <2>1 DEF CallOk, WorkInv
  <2>3. ASSUME k.at \in {"readiness", "probing"}, store[k.sub.id].status = "none",
               IsCorrection(k.sub)
        PROVE  store'[k.sub.causation] = store[k.sub.causation]
    <3>1. ~Mutable(store[k.sub.id])
      BY <2>1, <2>3, NothingIsNoCorrection DEF RecordOk
    <3>2. Corrects(k.sub, store[k.sub.causation])
      BY <2>3, <3>1 DEF CallOk, ReadInv
    <3>. QED
      BY <2>1, <2>3, <3>2, SubmissionFacts DEF Replaced, Corrects, Mutable, IsCorrection
  <2>4. ReadInv(d)'
    BY <2>1, <2>3 DEF CallOk, ReadInv
  <2>. QED BY <1>1, <2>1, <2>2, <2>4 DEF CallOk
<1>. QED BY <1>2, <1>3

(* What the records say of repositories stays so, and is so of a record    *)
(* that replaces one.                                                      *)
LEMMA RecordsKept ==
    ASSUME TypeOK, NEW r \in Requests, Replaced(r), ReposKept,
           store' \in [Requests -> Records],
           \A q \in Requests : RecordOk(q),
           store'[r] = store[r] \/ MayWrite(r, store'[r])
    PROVE  \A q \in Requests : RecordOk(q)'
<1>1. ASSUME NEW q \in Requests
      PROVE  store'[q].request = store[q].request \/ ~IsCorrection(store[q].request)
  BY <1>1, NothingIsNoCorrection DEF Replaced, MayWrite, RecordOk
<1>2. ASSUME NEW q \in Requests PROVE Lineage(q) \subseteq Lineage(q)'
  BY <1>1, <1>2, LineageGrows
<1>3. ASSUME NEW q \in Requests, store'[q] = store[q] PROVE RecordOk(q)'
  <2>1. store[q].op.id # 0 => store[q].op.id \in Ids
    BY CustodyAssumption DEF TypeOK, Records, Operations, Ids
  <2>2. Holds(store[q]) => repos'[store[q].op.id].by \in Lineage(q)'
    BY <1>2, <2>1, <1>3 DEF RecordOk, Holds, ReposKept
  <2>. QED BY <1>3, <2>2 DEF RecordOk
<1>4. ASSUME MayWrite(r, store'[r]) PROVE RecordOk(r)'
  <2>. DEFINE rec == store'[r]
  <2>1. rec.op.id # 0 => rec.op.id \in Ids
    BY CustodyAssumption DEF Records, Operations, Ids
  <2>2. r \in Lineage(r)'
    BY DEF Lineage
  <2>3. IsCorrection(rec.request) => Lineage(rec.request.causation) \subseteq Lineage(r)'
    <3>. SUFFICES ASSUME IsCorrection(rec.request), NEW q, q = rec.request.causation
                  PROVE  Lineage(q) \subseteq Lineage(r)'
      OBVIOUS
    <3>1. q \in Requests
      BY <1>4, SubmissionFacts DEF MayWrite, IsCorrection
    <3>2. \A S \in SUBSET Requests : r \in S /\ Corrected(S)' => q \in S
      BY DEF Corrected
    <3>3. Lineage(q)' \subseteq Lineage(r)'
      BY <3>2 DEF Lineage
    <3>. QED BY <1>2, <3>1, <3>3
  <2>4. Holds(rec) => repos'[rec.op.id].by \in Lineage(r)'
    BY <1>2, <1>4, <2>1, <2>2, <2>3 DEF MayWrite, Holds, ReposKept
  <2>. QED BY <1>4, <2>4 DEF RecordOk, MayWrite
<1>. QED BY <1>3, <1>4 DEF Replaced

(* What the provider has made stays in the journal.                        *)
LEMMA ProviderKept ==
    ASSUME TypeOK, NEW r \in Requests, Replaced(r), ReposKept, ProviderInv,
           \A q \in Requests : RecordOk(q),
           store'[r] = store[r] \/ MayWrite(r, store'[r]),
           \A x \in inflight' \ inflight :
              x.id = r /\ store'[r].status # "none" /\ store'[r].op.attempts >= 1
    PROVE  ProviderInv'
<1>1. ASSUME NEW q \in Requests, Journalled(q) PROVE Journalled(q)'
  <2>1. CASE store'[q] = store[q]
    BY <1>1, <2>1 DEF Journalled
  <2>2. CASE q = r /\ MayWrite(r, store'[r])
    <3>1. store'[r].op.attempts >= store[r].op.attempts
      BY <1>1, <2>2 DEF MayWrite, Journalled
    <3>2. store'[r].op.attempts \in Nat /\ store[r].op.attempts \in Nat
      BY <2>2, CustodyAssumption DEF MayWrite, TypeOK, Records, Operations
    <3>. QED BY <1>1, <2>2, <3>1, <3>2 DEF Journalled, MayWrite
  <2>. QED BY <2>1, <2>2 DEF Replaced
<1>2. ASSUME NEW x \in inflight' PROVE Journalled(x.id)'
  <2>1. CASE x \in inflight
    BY <1>1, <2>1 DEF ProviderInv, TypeOK
  <2>2. CASE x \notin inflight
    BY <1>2, <2>2 DEF Journalled
  <2>. QED BY <2>1, <2>2
<1>3. ASSUME NEW i \in Ids, repos'[i].by \in Requests PROVE Journalled(repos[i].by)'
  BY <1>1, <1>3 DEF ProviderInv, ReposKept
<1>4. ASSUME NEW i \in Ids, repos'[i].place = "nowhere" PROVE repos'[i] = Unborn
  BY <1>4 DEF ProviderInv, ReposKept
<1>5. ASSUME NEW i \in Named', NEW j \in Named' PROVE i = j
  BY <1>5 DEF ProviderInv, ReposKept, Named
<1>. QED BY <1>2, <1>3, <1>4, <1>5 DEF ProviderInv, ReposKept, Journalled

(* A call that goes on, or ends, and may write its record keeps IInv.      *)
LEMMA CallStep ==
    ASSUME IInv, NEW c \in Calls, calls[c].at # "idle", NEW k \in CallStates,
           NEW r, r = calls[c].sub.id,
           calls' = [calls EXCEPT ![c] = k],
           k = IdleCall \/ (k.sub = calls[c].sub /\ CallOk(c)'),
           \/ store' = store
           \/ \E rec : MayWrite(r, rec) /\ store' = [store EXCEPT ![r] = rec],
           ReposKept, inflight' \subseteq Creates,
           \A x \in inflight' \ inflight :
              x.id = r /\ store'[r].status # "none" /\ store'[r].op.attempts >= 1
    PROVE  IInv'
<1>1. r \in Requests
  BY SubmissionFacts DEF IInv, CallOk
<1>2. k.at = "idle" \/ k.sub = calls[c].sub
  BY DEF IdleCall
<1>3. store' \in [Requests -> Records]
  BY <1>1 DEF IInv, TypeOK, MayWrite
<1>4. store'[r] = store[r] \/ MayWrite(r, store'[r])
  BY <1>1 DEF IInv, TypeOK
<1>5. Replaced(r)
  BY <1>1 DEF IInv, TypeOK, Replaced, MayWrite
<1>6. TypeOK'
  <2>1. calls' \in [Calls -> CallStates]
    BY DEF IInv, TypeOK, CallStates, Places, Replies
  <2>2. \A q \in Requests : /\ store'[q].status # "none" => store'[q].request.id = q
                            /\ store'[q].retryable => store'[q].status = "failed"
    <3>. SUFFICES ASSUME NEW q \in Requests
                  PROVE  /\ store'[q].status # "none" => store'[q].request.id = q
                         /\ store'[q].retryable => store'[q].status = "failed"
      OBVIOUS
    <3>1. CASE store'[q] = store[q]
      BY <3>1 DEF IInv, TypeOK
    <3>2. CASE q = r /\ MayWrite(r, store'[r])
      BY <3>2 DEF MayWrite
    <3>. QED BY <1>4, <1>5, <3>1, <3>2 DEF Replaced
  <2>. QED
    BY <1>3, <2>1, <2>2
    DEF TypeOK, ReposKept, Creates, CallStates, Places, Replies
<1>7. LockInv'
  BY <1>2, LockKept DEF IInv
<1>8. ASSUME NEW d \in Calls PROVE CallOk(d)'
  <2>1. CASE d # c
    <3>1. calls'[d] = calls[d]
      BY <2>1 DEF IInv, TypeOK
    <3>2. calls[d].at # "idle" => calls[d].sub.id # r
      BY <2>1 DEF IInv, LockInv
    <3>. QED BY <1>5, <3>1, <3>2, OtherCallKept DEF IInv
  <2>2. CASE d = c /\ k = IdleCall
    <3>1. calls'[c] = IdleCall
      BY <2>2 DEF IInv, TypeOK
    <3>2. IdleCall.at = "idle" /\ IdleCall.reply = <<"none", 0>>
      BY DEF IdleCall
    <3>3. calls'[c].at = "idle" /\ calls'[c].reply = <<"none", 0>>
      BY <3>1, <3>2
    <3>4. \A i : calls'[c].reply # <<"created", i>>
      BY <3>3
    <3>. QED
      BY <2>2, <3>3, <3>4 DEF CallOk, ReadInv, WorkInv, ReplyInv, Working
  <2>. QED BY <2>1, <2>2
<1>9. \A q \in Requests : RecordOk(q)'
  BY <1>1, <1>3, <1>4, <1>5, RecordsKept DEF IInv
<1>10. ProviderInv'
  BY <1>1, <1>4, <1>5, ProviderKept DEF IInv
<1>. QED BY <1>6, <1>7, <1>8, <1>9, <1>10 DEF IInv

-----------------------------------------------------------------------------
(* What a call finds when it goes on.                                      *)

(* op.id is of a repository of the request, or of the one it corrects.     *)
Own(s, op) ==
    op.id # 0 =>
        \/ repos[op.id].by \in Lineage(s.id) \cup {s.id}
        \/ IsCorrection(s) /\ repos[op.id].by \in Lineage(s.causation)

(* A call that works has its request, and may replace its record.          *)
LEMMA BusyFacts ==
    ASSUME IInv, NEW c \in Calls, calls[c].at # "idle", NEW r, r = calls[c].sub.id
    PROVE  /\ calls[c] \in CallStates /\ calls[c].sub \in Submissions /\ r \in Requests
           /\ store[r] \in Records
           /\ store[r].status = "none" \/ Mutable(store[r])
           /\ Mutable(store[r]) => store[r].request = calls[c].sub /\ store[r].status # "none"
           /\ calls[c].at \in {"readiness", "probing"} /\ Mutable(store[r]) => Existing(c)
<1>1. calls[c] \in CallStates /\ calls[c].sub \in Submissions
  BY DEF IInv, TypeOK, CallOk, CallStates, Places, Replies
<1>2. r \in Requests /\ store[r] \in Records
  BY <1>1, SubmissionFacts DEF IInv, TypeOK
<1>3. Mutable(store[r]) => store[r].status # "none"
  BY <1>2, NothingIsNoCorrection DEF IInv, RecordOk
<1>4. CASE calls[c].at \in {"readiness", "probing"}
  BY <1>1, <1>2, <1>3, <1>4 DEF IInv, CallOk, ReadInv, Existing
<1>5. CASE calls[c].at \in Working
  <2>1. store[r] = Record(calls[c].sub, "applying", FALSE, calls[c].op, NoReadback)
    BY <1>5 DEF IInv, CallOk, WorkInv
  <2>. QED BY <1>1, <1>2, <1>3, <1>5, <2>1 DEF Record, Mutable, Working
<1>. QED BY <1>1, <1>4, <1>5 DEF CallStates, Places, Working

(* A call that has read its record.                                        *)
LEMMA ReadingFacts ==
    ASSUME IInv, NEW c \in Calls, calls[c].at \in {"readiness", "probing"},
           NEW s, s = calls[c].sub
    PROVE  /\ calls[c].op = NoOperation /\ MayAttempt(store[s.id])
           /\ Existing(c) => store[s.id] = calls[c].prior /\ Mutable(store[s.id])
           /\ ~Existing(c) => store[s.id] = NoRecord
           /\ calls[c].prior \in Records
           /\ s.action = "provision-new" => Own(s, Prior(c))
           /\ ~Existing(c) /\ IsCorrection(s) => Corrects(s, calls[c].prior)
           /\ ~Existing(c) /\ ~IsCorrection(s) => calls[c].prior = NoRecord
<1>0. s \in Submissions /\ s.id \in Requests /\ calls[c].prior \in Records
  BY BusyFacts DEF CallStates
<1>1. CASE /\ calls[c].prior = store[s.id] /\ Mutable(calls[c].prior)
           /\ calls[c].prior.request = s
  <2>1. Existing(c)
    BY <1>1 DEF Existing
  <2>2. s.action = "provision-new" => Own(s, Prior(c))
    BY <1>0, <1>1 DEF IInv, RecordOk, Holds, Own, Prior
  <2>. QED BY <1>0, <1>1, <2>1, <2>2 DEF IInv, CallOk, ReadInv
<1>2. CASE /\ store[s.id].status = "none" /\ IsCorrection(s)
           /\ calls[c].prior = store[s.causation] /\ Corrects(s, calls[c].prior)
  <2>1. s.causation \in Requests /\ s.causation # s.id
    BY <1>0, <1>2, SubmissionFacts DEF IsCorrection, Corrects
  <2>2. calls[c].prior.request.id = s.causation
    BY <1>2, <2>1 DEF IInv, TypeOK, Corrects
  <2>3. ~Existing(c)
    BY <2>1, <2>2 DEF Existing
  <2>4. HoldsAcknowledgedId(calls[c].prior)
    BY <1>2 DEF Corrects, HoldsAcknowledgedId
  <2>5. Own(s, Prior(c))
    BY <1>2, <2>1, <2>4 DEF IInv, RecordOk, Holds, HoldsAcknowledgedId, Own, Prior
  <2>. QED BY <1>0, <1>2, <2>3, <2>5 DEF IInv, CallOk, ReadInv, RecordOk
<1>3. CASE store[s.id].status = "none" /\ ~IsCorrection(s) /\ calls[c].prior = NoRecord
  <2>1. ~Existing(c)
    BY <1>0, <1>3, SubmissionFacts DEF Existing, NoRecord, Record, NoSubmission
  <2>2. Own(s, Prior(c))
    BY <1>3, NothingIsNoCorrection DEF Own, Prior
  <2>. QED BY <1>0, <1>3, <2>1, <2>2 DEF IInv, CallOk, ReadInv, RecordOk
<1>. QED BY <1>1, <1>2, <1>3 DEF IInv, CallOk, ReadInv

(* A call that works on a creation: the journal has its operation.         *)
LEMMA WorkingFacts ==
    ASSUME IInv, NEW c \in Calls,
           calls[c].at \in {"recovering", "creating", "reading", "patching", "rereading"},
           NEW s, s = calls[c].sub
    PROVE  /\ store[s.id].op = calls[c].op /\ store[s.id].request = s
           /\ Mutable(store[s.id]) /\ s.action = "provision-new"
           /\ calls[c].op \in Operations
           /\ Own(s, calls[c].op) /\ (IsCorrection(s) => calls[c].op.id # 0)
           /\ calls[c].op.id # 0 => calls[c].op.id \in Ids /\ repos[calls[c].op.id].by \in Requests
<1>0. s \in Submissions /\ s.id \in Requests /\ calls[c].op \in Operations
  BY BusyFacts DEF CallStates
<1>1. store[s.id] = Record(s, "applying", FALSE, calls[c].op, NoReadback)
  BY DEF IInv, CallOk, WorkInv, Working
<1>2. /\ store[s.id].op = calls[c].op /\ store[s.id].request = s
      /\ Mutable(store[s.id])
  BY <1>1 DEF Record, Mutable
<1>3. s.action = "provision-new"
  BY DEF IInv, CallOk, WorkInv, Working
<1>4. calls[c].op.id # 0 => repos[calls[c].op.id].by \in Lineage(s.id)
  BY <1>0, <1>2, <1>3 DEF IInv, RecordOk, Holds
<1>5. IsCorrection(s) => calls[c].op.id # 0
  BY <1>0, <1>2 DEF IInv, RecordOk
<1>6. calls[c].op.id # 0 => calls[c].op.id \in Ids
  BY <1>0, CustodyAssumption DEF Operations, Ids
<1>. QED
  BY <1>0, <1>2, <1>3, <1>4, <1>5, <1>6, LineageSelf DEF Own

-----------------------------------------------------------------------------
(* The two writes of a call.                                               *)

(* When the repositories and the creates stay, they are kept.              *)
LEMMA ProviderSame ==
    ASSUME IInv
    PROVE  /\ UNCHANGED repos => ReposKept
           /\ inflight \subseteq Creates
BY DEF IInv, TypeOK, ReposKept, Creates

(* A result with this operation must not name what others have made.       *)
MustOwn(s, status, retryable, op) ==
    /\ s.action = "provision-new"
    /\ \/ retryable \/ op.path = "created"
       \/ op.state \in {"provider-acknowledged", "recovery-required"}
       \/ status = "succeeded" /\ IsCorrection(s)

(* The last put.                                                           *)
LEMMA FinishKeeps ==
    ASSUME IInv, NEW c \in Calls, calls[c].at # "idle",
           NEW s, s = calls[c].sub,
           NEW status \in {"succeeded", "denied", "failed"}, NEW retryable \in BOOLEAN,
           NEW op \in Operations, NEW readback \in Readbacks,
           Finish(c, Record(s, status, retryable, op, readback)),
           retryable => status = "failed",
           Mutable(store[s.id]) => op.attempts >= store[s.id].op.attempts,
           retryable /\ IsCorrection(s) => op.id # 0,
           MustOwn(s, status, retryable, op) => Own(s, op),
           ReposKept, inflight' \subseteq inflight
    PROVE  IInv'
<1>1. PICK rec : rec = Record(s, status, retryable, op, readback)
  OBVIOUS
<1>2. s \in Submissions /\ s.id \in Requests
      /\ (store[s.id].status = "none" \/ Mutable(store[s.id]))
      /\ (Mutable(store[s.id]) => store[s.id].request = s)
  BY BusyFacts
<1>3. /\ rec \in Records /\ rec.request = s /\ rec.status = status
      /\ rec.retryable = retryable /\ rec.op = op
  BY <1>1, <1>2, RecordTypes DEF Statuses
<1>4. store' = [store EXCEPT ![s.id] = rec] /\ calls' = [calls EXCEPT ![c] = IdleCall]
  <2>1. Persist(rec, TRUE) = [store EXCEPT ![s.id] = rec]
    BY <1>2, <1>3 DEF Persist
  <2>. QED BY <1>1, <2>1 DEF Finish
<1>5. Mutable(rec) => retryable
  BY <1>3 DEF Mutable
<1>6. Holds(rec) => Own(s, op)
  BY <1>3, <1>5 DEF Holds, HoldsAcknowledgedId, MustOwn
<1>7. MayWrite(s.id, rec)
  BY <1>2, <1>3, <1>5, <1>6 DEF MayWrite, Own, Holds
<1>8. \E w : MayWrite(s.id, w) /\ store' = [store EXCEPT ![s.id] = w]
  BY <1>4, <1>7
<1>9. /\ IdleCall \in CallStates /\ inflight' \subseteq Creates
      /\ inflight' \ inflight = {}
  BY NothingTypes, ProviderSame
<1>. QED
  BY <1>4, <1>8, <1>9, CallStep

(* A checkpoint.                                                           *)
LEMMA CheckpointKeeps ==
    ASSUME IInv, NEW c \in Calls, calls[c].at # "idle",
           NEW s, s = calls[c].sub, NEW op \in Operations,
           NEW at \in {"linking", "recovering", "creating", "reading"},
           NEW flag \in BOOLEAN, Checkpoint(c, op, at, flag),
           flag \/ (calls[c].at \in {"readiness", "probing"} /\ flag = Existing(c)),
           Mutable(store[s.id]) => op.attempts >= store[s.id].op.attempts,
           s.action = IF at = "linking" THEN "link-existing" ELSE "provision-new",
           IsCorrection(s) => op.id # 0, at # "linking" => Own(s, op),
           at = "recovering" => op.state = "recovery-required",
           at = "reading" => op.id # 0, at = "creating" => op.id = 0,
           at = "recovering" /\ op.id = 0 => op.attempts < MaxAttempts,
           UNCHANGED repos, inflight' \subseteq Creates,
           \A x \in inflight' \ inflight : x.id = s.id /\ op.attempts >= 1
    PROVE  IInv'
<1>1. PICK rec : rec = Record(s, "applying", FALSE, op, NoReadback)
  OBVIOUS
<1>2. s \in Submissions /\ s.id \in Requests
      /\ (store[s.id].status = "none" \/ Mutable(store[s.id]))
      /\ (Mutable(store[s.id]) => store[s.id].request = s) /\ calls[c] \in CallStates
  BY BusyFacts
<1>3. /\ rec \in Records /\ rec.request = s /\ rec.status = "applying"
      /\ rec.retryable = FALSE /\ rec.op = op
  <2>1. NoReadback \in Readbacks /\ "applying" \in Statuses /\ FALSE \in BOOLEAN
    BY NothingTypes DEF Statuses
  <2>. QED BY <1>1, <1>2, <2>1 DEF Record, Records, Statuses
<1>4. PICK k : k = [calls[c] EXCEPT !.op = op, !.at = at]
  OBVIOUS
<1>5. k \in CallStates /\ k.at = at /\ k.op = op /\ k.sub = s /\ k.reply = calls[c].reply
  BY <1>2, <1>4 DEF CallStates, Places
<1>6. store' = [store EXCEPT ![s.id] = rec] /\ calls' = [calls EXCEPT ![c] = k]
  <2>1. flag \/ store[s.id].status = "none"
    BY BusyFacts
  <2>2. Persist(rec, flag) = [store EXCEPT ![s.id] = rec]
    BY <1>2, <1>3, <2>1 DEF Persist
  <2>. QED BY <1>1, <1>4, <2>2 DEF Checkpoint
<1>7. store'[s.id] = rec /\ calls'[c] = k
  BY <1>2, <1>6 DEF IInv, TypeOK
<1>8. Holds(rec) => Own(s, op)
  BY <1>3 DEF Holds
<1>9. MayWrite(s.id, rec)
  BY <1>2, <1>3, <1>8 DEF MayWrite, Own, Holds
<1>10. CallOk(c)'
  <2>1. ReplyInv(c)'
    BY <1>5, <1>7 DEF IInv, CallOk, ReplyInv
  <2>2. WorkInv(c)'
    BY <1>1, <1>5, <1>7 DEF WorkInv, Working
  <2>3. ReadInv(c)'
    BY <1>5, <1>7 DEF ReadInv
  <2>. QED BY <1>2, <1>5, <1>7, <2>1, <2>2, <2>3 DEF CallOk
<1>11. ReposKept
  BY ProviderSame
<1>12. \E w : MayWrite(s.id, w) /\ store' = [store EXCEPT ![s.id] = w]
  BY <1>6, <1>9
<1>13. \A x \in inflight' \ inflight :
          x.id = s.id /\ store'[s.id].status # "none" /\ store'[s.id].op.attempts >= 1
  BY <1>3, <1>7
<1>. QED
  BY <1>5, <1>6, <1>10, <1>11, <1>12, <1>13, CallStep

(* A call that only goes on to its next place.                             *)
LEMMA GoesOnKeeps ==
    ASSUME IInv, NEW c \in Calls, calls[c].at # "idle", NEW k \in CallStates,
           calls' = [calls EXCEPT ![c] = k], UNCHANGED <<store, inflight>>, ReposKept,
           k.sub = calls[c].sub, k.op = calls[c].op, k.reply = calls[c].reply,
           k.prior = calls[c].prior,
           \/ /\ calls[c].at \in {"recovering", "reading", "patching"}
              /\ k.at \in {"patching", "rereading"} /\ k.op.id # 0
           \/ /\ calls[c].at = "readiness" /\ k.at = "probing"
              /\ calls[c].prior.status = "none" /\ k.sub.action = "provision-new"
    PROVE  IInv'
<1>1. calls'[c] = k /\ k.sub \in Submissions /\ k.sub.id \in Requests
  BY BusyFacts DEF IInv, TypeOK
<1>2. ReplyInv(c)'
  <2>1. ReplyInv(c)
    BY DEF IInv, CallOk
  <2>. QED BY <1>1, <2>1 DEF ReplyInv, ReposKept
<1>3. CASE k.at \in {"patching", "rereading"}
  <2>1. WorkInv(c)
    BY DEF IInv, CallOk
  <2>2. WorkInv(c)'
    BY <1>1, <1>3, <2>1 DEF WorkInv, Working
  <2>3. ReadInv(c)'
    BY <1>1, <1>3 DEF ReadInv
  <2>. QED
    BY <1>1, <1>2, <2>2, <2>3, CallStep, ProviderSame DEF CallOk
<1>4. CASE k.at = "probing"
  <2>1. store[k.sub.id] = NoRecord /\ ~IsCorrection(k.sub)
    <3>1. calls[c].at \in {"readiness", "probing"}
      BY <1>4
    <3>2. ~Existing(c)
      BY <1>4, <3>1, BusyFacts, ReadingFacts
    <3>. QED BY <1>4, <3>1, <3>2, ReadingFacts DEF Corrects
  <2>2. ReadInv(c)
    BY DEF IInv, CallOk
  <2>3. ReadInv(c)'
    BY <1>1, <1>4, <2>1, <2>2, NothingIsNoCorrection DEF ReadInv
  <2>4. WorkInv(c)'
    BY <1>1, <1>4 DEF WorkInv, Working
  <2>. QED
    BY <1>1, <1>2, <2>3, <2>4, CallStep, ProviderSame DEF CallOk
<1>. QED BY <1>3, <1>4

(* A call that ends without a result.                                      *)
LEMMA GiveUpKeeps ==
    ASSUME IInv, NEW c \in Calls, calls[c].at # "idle",
           calls' = [calls EXCEPT ![c] = IdleCall], UNCHANGED <<store, repos, inflight>>
    PROVE  IInv'
<1>1. /\ IdleCall \in CallStates /\ ReposKept /\ inflight' \subseteq Creates
      /\ inflight' \ inflight = {}
  BY NothingTypes, ProviderSame
<1>. QED BY <1>1, CallStep
(* An operation whose state is set is typed, and the same otherwise.       *)
LEMMA StateSet ==
    ASSUME NEW op \in Operations, NEW state \in States,
           NEW o, o = [op EXCEPT !.state = state]
    PROVE  /\ o \in Operations /\ o.state = state
           /\ o.id = op.id /\ o.attempts = op.attempts /\ o.path = op.path
BY DEF Operations, States

(* The last put of a failure.                                              *)
LEMMA FailKeeps ==
    ASSUME IInv, NEW c \in Calls, calls[c].at # "idle", NEW s, s = calls[c].sub,
           NEW class, NEW op \in Operations, NEW readback \in Readbacks,
           Fail(c, class, op, readback),
           Mutable(store[s.id]) => op.attempts >= store[s.id].op.attempts,
           class = "retryable" /\ IsCorrection(s) => op.id # 0,
           \A retryable \in BOOLEAN :
              (MustOwn(s, "failed", retryable, op) /\ (retryable => class = "retryable"))
                 => Own(s, op),
           ReposKept, inflight' \subseteq inflight
    PROVE  IInv'
<1>1. ASSUME NEW retryable \in BOOLEAN, retryable = (class = "retryable")
      PROVE  IInv'
  <2>1. Finish(c, Record(s, "failed", retryable, op, readback))
    BY <1>1 DEF Fail
  <2>2. retryable => class = "retryable"
    BY <1>1
  <2>. QED BY <2>1, <2>2, FinishKeeps
<1>2. CASE class = "retryable"
  BY <1>1, <1>2
<1>3. CASE class # "retryable"
  BY <1>1, <1>3
<1>. QED BY <1>2, <1>3

(* The failure of a read, or of a change of settings.                      *)
LEMMA FailReadKeeps ==
    ASSUME IInv, NEW c \in Calls,
           calls[c].at \in {"recovering", "reading", "patching", "rereading"},
           NEW class, FailRead(c, class), ReposKept, UNCHANGED inflight
    PROVE  IInv'
<1>1. PICK state \in States :
         state = IF class = "retryable" \/ calls[c].op.state = "recovery-required"
                 THEN "recovery-required" ELSE "provider-acknowledged"
  BY DEF States
<1>2. PICK op : op = [calls[c].op EXCEPT !.state = state]
  OBVIOUS
<1>3. calls[c] \in CallStates /\ calls[c].readback \in Readbacks
  BY BusyFacts DEF CallStates
<1>4. PICK s : s = calls[c].sub
  OBVIOUS
<1>5. /\ store[s.id].op = calls[c].op /\ calls[c].op \in Operations
      /\ Own(s, calls[c].op) /\ (IsCorrection(s) => calls[c].op.id # 0)
  BY <1>4, WorkingFacts
<1>6. op \in Operations /\ op.id = calls[c].op.id /\ op.attempts = calls[c].op.attempts
  BY <1>2, <1>5, StateSet
<1>7. Own(s, op)
  BY <1>5, <1>6 DEF Own
<1>8. Fail(c, class, op, calls[c].readback)
  BY <1>1, <1>2 DEF FailRead
<1>9. op.attempts >= store[s.id].op.attempts
  BY <1>5, <1>6, CustodyAssumption DEF Operations
<1>10. calls[c].at # "idle" /\ inflight' \subseteq inflight
  OBVIOUS
<1>11. class = "retryable" /\ IsCorrection(s) => op.id # 0
  BY <1>5, <1>6
<1>13. Mutable(store[s.id]) => op.attempts >= store[s.id].op.attempts
  BY <1>9
<1>. QED
  BY <1>3, <1>4, <1>6, <1>7, <1>8, <1>10, <1>11, <1>13, FailKeeps

(* The verdict on what was read back.                                      *)
LEMMA JudgeKeeps ==
    ASSUME IInv, NEW c \in Calls, calls[c].at \in {"recovering", "reading", "rereading"},
           NEW readback \in Readbacks, Judge(c, readback),
           calls[c].op.id # 0 => readback.id = calls[c].op.id,
           UNCHANGED <<repos, inflight>>
    PROVE  IInv'
<1>0. PICK s : s = calls[c].sub
  OBVIOUS
<1>1. /\ store[s.id].op = calls[c].op /\ calls[c].op \in Operations
      /\ Own(s, calls[c].op) /\ (IsCorrection(s) => calls[c].op.id # 0)
  BY <1>0, WorkingFacts
<1>2. calls[c].op.attempts >= store[s.id].op.attempts
  BY <1>1, CustodyAssumption DEF Operations
<1>3. ReposKept /\ inflight' \subseteq inflight /\ calls[c].at # "idle"
  BY ProviderSame
<1>4. CASE ReadbackMatches(s, readback, calls[c].op.id)
  <2>1. PICK path \in Paths : path = Path(calls[c].op)
    BY DEF Paths, Path
  <2>2. PICK op : op = [calls[c].op EXCEPT !.id = readback.id, !.state = "verified",
                                           !.path = path]
    OBVIOUS
  <2>3. /\ op \in Operations /\ op.attempts = calls[c].op.attempts
        /\ op.id = readback.id /\ op.path = path /\ op.state = "verified"
    BY <1>1, <2>2 DEF Operations, Readbacks, Paths
  <2>4. Finish(c, Record(s, "succeeded", FALSE, op, readback))
    BY <1>0, <1>4, <2>1, <2>2 DEF Judge, Succeed
  <2>5. path = "created" \/ IsCorrection(s) => calls[c].op.id # 0
    <3>1. WorkInv(c)
      BY DEF IInv, CallOk
    <3>2. path = "created" => calls[c].op.state # "recovery-required"
      BY <2>1 DEF Path
    <3>. QED BY <1>1, <3>1, <3>2 DEF WorkInv, Working
  <2>6. path = "created" \/ IsCorrection(s) => Own(s, op)
    BY <1>1, <2>3, <2>5 DEF Own
  <2>7. Mutable(store[s.id]) => op.attempts >= store[s.id].op.attempts
    BY <1>2, <2>3
  <2>8. MustOwn(s, "succeeded", FALSE, op) => Own(s, op)
    BY <2>3, <2>6 DEF MustOwn
  <2>. QED
    BY <1>0, <1>3, <2>3, <2>4, <2>7, <2>8, FinishKeeps
<1>5. CASE ~ReadbackMatches(s, readback, calls[c].op.id)
  <2>1. PICK state \in States : state = IF calls[c].op.id # 0
                                        THEN "provider-acknowledged" ELSE "recovery-required"
    BY DEF States
  <2>2. PICK op : op = [calls[c].op EXCEPT !.state = state]
    OBVIOUS
  <2>3. op \in Operations /\ op.id = calls[c].op.id /\ op.attempts = calls[c].op.attempts
    BY <1>1, <2>2, StateSet
  <2>4. Fail(c, "refused", op, readback)
    BY <1>0, <1>5, <2>1, <2>2 DEF Judge
  <2>5. Own(s, op) /\ (Mutable(store[s.id]) => op.attempts >= store[s.id].op.attempts)
    BY <1>1, <1>2, <2>3 DEF Own
  <2>6. "refused" = "retryable" /\ IsCorrection(s) => op.id # 0
    OBVIOUS
  <2>. QED BY <1>0, <1>3, <2>3, <2>4, <2>5, <2>6, FailKeeps
<1>. QED BY <1>4, <1>5

(* A repository read back is completed or judged.                          *)
LEMMA CompleteKeeps ==
    ASSUME IInv, NEW c \in Calls, calls[c].at \in {"recovering", "reading"},
           NEW readback \in Readbacks, Complete(c, readback),
           calls[c].op.id # 0 => readback.id = calls[c].op.id,
           UNCHANGED <<repos, inflight>>
    PROVE  IInv'
<1>1. CASE Judge(c, readback)
  BY <1>1, JudgeKeeps
<1>2. CASE /\ MayComplete(calls[c].sub, calls[c].op, readback)
           /\ calls' = [calls EXCEPT ![c].at = "patching", ![c].readback = readback]
           /\ UNCHANGED store
  <2>1. PICK k : k = [calls[c] EXCEPT !.at = "patching", !.readback = readback]
    OBVIOUS
  <2>2. calls[c] \in CallStates
    BY BusyFacts
  <2>3. /\ k \in CallStates /\ k.at = "patching" /\ k.sub = calls[c].sub
        /\ k.op = calls[c].op /\ k.reply = calls[c].reply /\ k.prior = calls[c].prior
    BY <2>1, <2>2 DEF CallStates, Places
  <2>4. calls' = [calls EXCEPT ![c] = k]
    BY <1>2, <2>1 DEF IInv, TypeOK
  <2>5. calls[c].op.id # 0 /\ ReposKept
    BY <1>2, ProviderSame DEF MayComplete
  <2>. QED BY <1>2, <2>3, <2>4, <2>5, GoesOnKeeps
<1>. QED BY <1>1, <1>2 DEF Complete

(* A create is sent for a request that has none acknowledged and is no     *)
(* correction.                                                             *)
LEMMA SendCreateKeeps ==
    ASSUME IInv, NEW c \in Calls,
           \/ calls[c].at = "probing"
           \/ calls[c].at = "recovering" /\ calls[c].op.id = 0 /\ Existing(c),
           SendCreate(c), NEW s, s = calls[c].sub
    PROVE  /\ IInv'
           /\ store[s.id].op.id = 0 /\ ~IsCorrection(s) /\ s \in Submissions
           /\ store'[s.id].request = s
           /\ \A x \in inflight' \ inflight : x.id = s.id
<1>1. /\ s \in Submissions /\ s.id \in Requests /\ calls[c] \in CallStates
      /\ calls[c].op \in Operations /\ calls[c].at # "idle"
      /\ store[s.id].status = "none" \/ Mutable(store[s.id])
  BY BusyFacts DEF CallStates
<1>2. /\ s.action = "provision-new" /\ ~IsCorrection(s)
      /\ calls[c].op.id = 0 /\ calls[c].op.attempts < MaxAttempts
      /\ store[s.id].op.id = 0
      /\ Mutable(store[s.id]) => store[s.id].op = calls[c].op
  <2>1. CASE calls[c].at = "probing"
    <3>1. ReadInv(c) /\ RecordOk(s.id)
      BY <1>1 DEF IInv, CallOk
    <3>2. store[s.id] = NoRecord /\ calls[c].op = NoOperation
      BY <2>1, <3>1 DEF ReadInv, RecordOk
    <3>3. 0 < MaxAttempts
      BY <2>1, <3>1, <3>2, NothingIsNoCorrection DEF ReadInv, MayAttempt
    <3>. QED
      BY <2>1, <3>1, <3>2, <3>3, NothingIsNoCorrection DEF ReadInv, NoOperation
  <2>2. CASE calls[c].at = "recovering" /\ calls[c].op.id = 0
    <3>1. WorkInv(c)
      BY DEF IInv, CallOk
    <3>2. store[s.id].op = calls[c].op /\ s.action = "provision-new"
      BY <2>2, WorkingFacts
    <3>. QED BY <2>2, <3>1, <3>2 DEF WorkInv, Working
  <2>. QED BY <2>1, <2>2
<1>3. PICK n : n = calls[c].op.attempts + 1
  OBVIOUS
<1>4. n \in 1..MaxAttempts /\ n \in 0..MaxAttempts /\ n >= 1 /\ n >= calls[c].op.attempts
  BY <1>1, <1>2, <1>3, CustodyAssumption DEF Operations
<1>5. PICK op : op = [calls[c].op EXCEPT !.attempts = n, !.state = "command-issued"]
  OBVIOUS
<1>6. op \in Operations /\ op.id = 0 /\ op.attempts = n /\ op.state = "command-issued"
  BY <1>1, <1>2, <1>4, <1>5 DEF Operations
<1>7. PICK flag \in BOOLEAN : flag = Existing(c)
  BY DEF Existing
<1>8. Checkpoint(c, op, "creating", flag) /\ UNCHANGED repos
  BY <1>3, <1>5, <1>7 DEF SendCreate
<1>9. inflight' = inflight \cup {[id |-> s.id, settings |-> s.settings, attempt |-> n]}
  BY <1>3, <1>5, <1>6 DEF SendCreate
<1>10. /\ inflight' \subseteq Creates
       /\ \A x \in inflight' \ inflight : x.id = s.id /\ op.attempts >= 1
  <2>1. [id |-> s.id, settings |-> s.settings, attempt |-> n] \in Creates
    BY <1>1, <1>4, SubmissionFacts DEF Creates
  <2>. QED BY <1>4, <1>6, <1>9, <2>1, ProviderSame
<1>11. flag \/ (calls[c].at \in {"readiness", "probing"} /\ flag = Existing(c))
  BY <1>7
<1>12. Own(s, op) /\ (Mutable(store[s.id]) => op.attempts >= store[s.id].op.attempts)
  BY <1>2, <1>4, <1>6 DEF Own
<1>13. IInv'
  BY <1>1, <1>2, <1>6, <1>8, <1>10, <1>11, <1>12, CheckpointKeeps
<1>14. store'[s.id].request = s
  <2>1. PICK rec : rec = Record(s, "applying", FALSE, op, NoReadback)
    OBVIOUS
  <2>2. rec.request = s
    BY <2>1 DEF Record
  <2>3. flag \/ store[s.id].status = "none"
    BY <1>7, <1>11, BusyFacts, <1>1
  <2>4. store' = [store EXCEPT ![s.id] = rec]
    BY <1>1, <1>8, <2>1, <2>2, <2>3 DEF Checkpoint, Persist
  <2>. QED BY <1>1, <2>2, <2>4 DEF IInv, TypeOK
<1>. QED BY <1>1, <1>2, <1>10, <1>13, <1>14

-----------------------------------------------------------------------------
(* The steps of a call.                                                    *)

(* A repository that was read has a readback of its id.                    *)
LEMMA AnswersFacts ==
    ASSUME IInv
    PROVE  /\ \A i \in Ids : \A answer \in ReadAnswers(i) :
                 /\ answer.kind \in {"retryable", "refused", "found"}
                 /\ answer.readback \in Readbacks
                 /\ answer.kind = "found" => answer.readback.id = i
           /\ \A answer \in FindAnswers :
                 /\ answer.kind \in {"retryable", "refused", "found", "absent"}
                 /\ answer.readback \in Readbacks
<1>1. \A i \in Ids : Readback(i) \in Readbacks /\ Readback(i).id = i
  BY CustodyAssumption DEF IInv, TypeOK, Ids, Readback, Readbacks
<1>2. NoReadback \in Readbacks
  BY NothingTypes
<1>3. ASSUME NEW i \in Ids, NEW answer \in ReadAnswers(i)
      PROVE  /\ answer.kind \in {"retryable", "refused", "found"}
             /\ answer.readback \in Readbacks
             /\ answer.kind = "found" => answer.readback.id = i
  BY <1>1, <1>2, <1>3 DEF ReadAnswers
<1>4. ASSUME NEW answer \in FindAnswers
      PROVE  /\ answer.kind \in {"retryable", "refused", "found", "absent"}
             /\ answer.readback \in Readbacks
  <2>1. Named \subseteq Ids
    BY DEF Named
  <2>. QED BY <1>1, <1>2, <1>4, <2>1 DEF FindAnswers
<1>. QED BY <1>3, <1>4

(* Readiness denies: the record keeps the commands issued before.          *)
LEMMA ReadinessDeniesKeeps ==
    ASSUME IInv, NEW c \in Calls, ReadinessDenies(c)
    PROVE  IInv'
<1>0. PICK s : s = calls[c].sub
  OBVIOUS
<1>1. calls[c].at \in {"readiness", "probing"} /\ calls[c].at # "idle"
  BY DEF ReadinessDenies
<1>2. PICK op : op = IF Existing(c) THEN Prior(c) ELSE NoOperation
  OBVIOUS
<1>3. /\ Existing(c) => store[s.id] = calls[c].prior
      /\ ~Existing(c) => store[s.id] = NoRecord
      /\ calls[c].prior \in Records
      /\ s.action = "provision-new" => Own(s, Prior(c))
  BY <1>0, <1>1, ReadingFacts
<1>4. op \in Operations
  BY <1>2, <1>3, NothingTypes DEF Prior, Records
<1>5. Mutable(store[s.id]) => op.attempts >= store[s.id].op.attempts
  <2>1. CASE Existing(c)
    BY <1>2, <1>3, <1>4, <2>1, CustodyAssumption DEF Prior, Operations
  <2>2. CASE ~Existing(c)
    BY <1>3, <2>2, NothingIsNoCorrection
  <2>. QED BY <2>1, <2>2
<1>6. MustOwn(s, "denied", FALSE, op) => Own(s, op)
  BY <1>2, <1>3 DEF MustOwn, Own, NoOperation
<1>7. Finish(c, Record(s, "denied", FALSE, op, NoReadback))
  BY <1>0, <1>2 DEF ReadinessDenies
<1>8. ReposKept /\ inflight' \subseteq inflight /\ NoReadback \in Readbacks
  BY NothingTypes, ProviderSame DEF ReadinessDenies
<1>. QED
  BY <1>0, <1>1, <1>4, <1>5, <1>6, <1>7, <1>8, FinishKeeps

(* Readiness allows a link: its checkpoint.                                *)
LEMMA ReadinessAllowsLinkKeeps ==
    ASSUME IInv, NEW c \in Calls, ReadinessAllowsLink(c)
    PROVE  IInv'
<1>0. PICK s : s = calls[c].sub
  OBVIOUS
<1>1. /\ calls[c].at \in {"readiness", "probing"} /\ calls[c].at # "idle"
      /\ s.action = "link-existing" /\ s \in Submissions
  BY <1>0, BusyFacts DEF ReadinessAllowsLink
<1>2. PICK n : n = (IF Existing(c) THEN Prior(c).attempts ELSE 0) + 1
  OBVIOUS
<1>3. /\ Existing(c) => store[s.id] = calls[c].prior /\ store[s.id].request = s
      /\ ~Existing(c) => store[s.id] = NoRecord
      /\ calls[c].prior \in Records /\ MayAttempt(store[s.id])
  BY <1>0, <1>1, ReadingFacts, BusyFacts
<1>4. n \in 0..MaxAttempts /\ n >= 1 /\ (Mutable(store[s.id]) => n >= store[s.id].op.attempts)
  <2>1. CASE Existing(c)
    <3>1. Prior(c) \in Operations /\ store[s.id].op = Prior(c)
      BY <1>3, <2>1 DEF Prior, Records
    <3>2. Prior(c).attempts < MaxAttempts
      BY <1>1, <1>3, <2>1, <3>1 DEF MayAttempt
    <3>. QED BY <1>2, <2>1, <3>1, <3>2, CustodyAssumption DEF Operations
  <2>2. CASE ~Existing(c)
    BY <1>2, <1>3, <2>2, NothingIsNoCorrection, CustodyAssumption DEF MayAttempt
  <2>. QED BY <2>1, <2>2
<1>5. PICK op : op = [NoOperation EXCEPT !.state = "command-issued", !.attempts = n,
                                         !.id = s.target]
  OBVIOUS
<1>6. op \in Operations /\ op.attempts = n
  BY <1>1, <1>4, <1>5, SubmissionFacts, CustodyAssumption DEF NoOperation, Operations
<1>7. PICK flag \in BOOLEAN : flag = Existing(c)
  BY DEF Existing
<1>8. Checkpoint(c, op, "linking", flag) /\ UNCHANGED <<repos, inflight>>
  BY <1>0, <1>2, <1>5, <1>7 DEF ReadinessAllowsLink
<1>9. flag \/ (calls[c].at \in {"readiness", "probing"} /\ flag = Existing(c))
  BY <1>1, <1>7
<1>10. ~IsCorrection(s) /\ inflight' \subseteq Creates /\ inflight' \ inflight = {}
  BY <1>1, <1>8, ProviderSame DEF IsCorrection
<1>11. Mutable(store[s.id]) => op.attempts >= store[s.id].op.attempts
  BY <1>4, <1>6
<1>. QED
  BY <1>0, <1>1, <1>6, <1>8, <1>9, <1>10, <1>11, CheckpointKeeps

(* Readiness allows a recovery: its checkpoint.                            *)
LEMMA ReadinessAllowsRecoveryKeeps ==
    ASSUME IInv, NEW c \in Calls, ReadinessAllowsRecovery(c)
    PROVE  IInv'
<1>0. PICK s : s = calls[c].sub
  OBVIOUS
<1>1. /\ calls[c].at \in {"readiness", "probing"} /\ calls[c].at # "idle"
      /\ s.action = "provision-new" /\ s \in Submissions /\ s.id \in Requests
      /\ calls[c].prior.status # "none"
  BY <1>0, BusyFacts DEF ReadinessAllowsRecovery
<1>2. /\ Existing(c) => /\ store[s.id] = calls[c].prior /\ Mutable(store[s.id])
                        /\ store[s.id].request = s
      /\ ~Existing(c) => store[s.id] = NoRecord /\ IsCorrection(s)
      /\ ~Existing(c) => Corrects(s, calls[c].prior)
      /\ calls[c].prior \in Records /\ MayAttempt(store[s.id])
      /\ Own(s, Prior(c))
  BY <1>0, <1>1, ReadingFacts, BusyFacts, NothingIsNoCorrection
<1>3. PICK op : op = [NoOperation EXCEPT !.state = "recovery-required",
                                         !.attempts = Prior(c).attempts, !.id = Prior(c).id]
  OBVIOUS
<1>4. Prior(c) \in Operations
  BY <1>2 DEF Prior, Records
<1>5. /\ op \in Operations /\ op.attempts = Prior(c).attempts /\ op.id = Prior(c).id
      /\ op.state = "recovery-required"
  BY <1>3, <1>4 DEF NoOperation, Operations
<1>6. Mutable(store[s.id]) => op.attempts >= store[s.id].op.attempts
  <2>1. CASE Existing(c)
    BY <1>2, <1>4, <1>5, <2>1, CustodyAssumption DEF Prior, Operations
  <2>2. CASE ~Existing(c)
    BY <1>2, <2>2, NothingIsNoCorrection
  <2>. QED BY <2>1, <2>2
<1>7. IsCorrection(s) => op.id # 0
  <2>1. CASE Existing(c)
    BY <1>1, <1>2, <1>5, <2>1 DEF IInv, RecordOk, Prior
  <2>2. CASE ~Existing(c)
    BY <1>2, <1>5, <2>2 DEF Corrects, Prior
  <2>. QED BY <2>1, <2>2
<1>8. op.id = 0 => op.attempts < MaxAttempts
  BY <1>2, <1>5, <1>7 DEF MayAttempt, Prior
<1>9. Own(s, op)
  BY <1>2, <1>5 DEF Own
<1>10. Checkpoint(c, op, "recovering", TRUE) /\ UNCHANGED <<repos, inflight>>
  BY <1>3 DEF ReadinessAllowsRecovery
<1>11. inflight' \subseteq Creates /\ inflight' \ inflight = {} /\ TRUE \in BOOLEAN
  BY <1>10, ProviderSame
<1>. QED
  BY <1>0, <1>1, <1>5, <1>6, <1>7, <1>8, <1>9, <1>10, <1>11, CheckpointKeeps

(* Readiness allows a new request: the name is looked up.                  *)
LEMMA ReadinessAllowsProbeKeeps ==
    ASSUME IInv, NEW c \in Calls, ReadinessAllowsProbe(c)
    PROVE  IInv'
<1>1. PICK k : k = [calls[c] EXCEPT !.at = "probing"]
  OBVIOUS
<1>2. calls[c] \in CallStates /\ calls[c].at = "readiness"
  BY BusyFacts DEF ReadinessAllowsProbe
<1>3. /\ k \in CallStates /\ k.at = "probing" /\ k.sub = calls[c].sub
      /\ k.op = calls[c].op /\ k.reply = calls[c].reply /\ k.prior = calls[c].prior
  BY <1>1, <1>2 DEF CallStates, Places
<1>4. calls' = [calls EXCEPT ![c] = k] /\ UNCHANGED <<store, inflight>> /\ ReposKept
  BY <1>1, ProviderSame DEF ReadinessAllowsProbe
<1>5. calls[c].prior.status = "none" /\ k.sub.action = "provision-new" /\ calls[c].at # "idle"
  BY <1>2, <1>3 DEF ReadinessAllowsProbe
<1>. QED BY <1>2, <1>3, <1>4, <1>5, GoesOnKeeps

(* The readback of a link.                                                 *)
LEMMA LinkKeeps ==
    ASSUME IInv, NEW c \in Calls, Link(c)
    PROVE  IInv'
<1>0. PICK s : s = calls[c].sub
  OBVIOUS
<1>1. /\ calls[c] \in CallStates /\ calls[c].op \in Operations /\ s \in Submissions
      /\ calls[c].at = "linking" /\ calls[c].at # "idle"
  BY <1>0, BusyFacts DEF Link, CallStates
<1>2. store[s.id].op = calls[c].op /\ s.action = "link-existing"
  <2>1. store[s.id] = Record(s, "applying", FALSE, calls[c].op, NoReadback)
    BY <1>0, <1>1 DEF IInv, CallOk, WorkInv, Working
  <2>2. s.action = "link-existing"
    BY <1>0, <1>1 DEF IInv, CallOk, WorkInv, Working
  <2>. QED BY <2>1, <2>2 DEF Record
<1>3. ~IsCorrection(s) /\ \A status, retryable, op : ~MustOwn(s, status, retryable, op)
  BY <1>2 DEF IsCorrection, MustOwn
<1>4. s.target \in Ids
  BY <1>1, <1>2, SubmissionFacts
<1>5. ReposKept /\ inflight' \subseteq inflight
  BY ProviderSame DEF Link
<1>6. ASSUME NEW op \in Operations, op.attempts = calls[c].op.attempts
      PROVE  Mutable(store[s.id]) => op.attempts >= store[s.id].op.attempts
  BY <1>1, <1>2, <1>6, CustodyAssumption DEF Operations
<1>7. PICK answer \in ReadAnswers(s.target) :
        \/ /\ answer.kind # "found"
           /\ Fail(c, answer.kind,
                   [calls[c].op EXCEPT !.state = IF answer.kind = "retryable"
                                        THEN "recovery-required" ELSE "command-issued"],
                   NoReadback)
        \/ /\ answer.kind = "found"
           /\ IF ReadbackMatches(s, answer.readback, 0)
              THEN Succeed(c, [calls[c].op EXCEPT !.state = "verified",
                                                  !.path = "read-existing"],
                           answer.readback)
              ELSE Fail(c, "refused",
                        [calls[c].op EXCEPT !.state = "provider-acknowledged"],
                        answer.readback)
  BY <1>0 DEF Link
<1>8. answer.readback \in Readbacks
  BY <1>4, AnswersFacts
<1>9. ASSUME NEW class, NEW state \in States, NEW readback \in Readbacks, NEW op,
             op = [calls[c].op EXCEPT !.state = state], Fail(c, class, op, readback)
      PROVE  IInv'
  <2>1. op \in Operations /\ op.attempts = calls[c].op.attempts
    BY <1>1, <1>9, StateSet
  <2>2. Mutable(store[s.id]) => op.attempts >= store[s.id].op.attempts
    BY <1>6, <2>1
  <2>. QED BY <1>0, <1>1, <1>3, <1>5, <1>9, <2>1, <2>2, FailKeeps
<1>10. CASE answer.kind # "found"
  <2>1. PICK state \in States : state = IF answer.kind = "retryable"
                                        THEN "recovery-required" ELSE "command-issued"
    BY DEF States
  <2>2. NoReadback \in Readbacks
    BY NothingTypes
  <2>. QED BY <1>7, <1>9, <1>10, <2>1, <2>2
<1>11. CASE answer.kind = "found" /\ ~ReadbackMatches(s, answer.readback, 0)
  <2>1. "provider-acknowledged" \in States
    BY DEF States
  <2>. QED BY <1>7, <1>8, <1>9, <1>11, <2>1
<1>12. CASE answer.kind = "found" /\ ReadbackMatches(s, answer.readback, 0)
  <2>1. PICK op : op = [calls[c].op EXCEPT !.state = "verified", !.path = "read-existing"]
    OBVIOUS
  <2>2. op \in Operations /\ op.attempts = calls[c].op.attempts
    BY <1>1, <2>1 DEF Operations
  <2>3. Mutable(store[s.id]) => op.attempts >= store[s.id].op.attempts
    BY <1>6, <2>2
  <2>4. Finish(c, Record(s, "succeeded", FALSE, op, answer.readback))
    BY <1>0, <1>7, <1>12, <2>1 DEF Succeed
  <2>. QED BY <1>0, <1>1, <1>3, <1>5, <1>8, <2>2, <2>3, <2>4, FinishKeeps
<1>. QED BY <1>10, <1>11, <1>12

(* The first look at the name.                                             *)
LEMMA ProbeKeeps ==
    ASSUME IInv, NEW c \in Calls, Probe(c)
    PROVE  IInv'
<1>0. PICK s : s = calls[c].sub
  OBVIOUS
<1>1. /\ calls[c].at = "probing" /\ calls[c].at # "idle" /\ s.id \in Requests
      /\ calls[c].op = NoOperation /\ ~IsCorrection(s) /\ ~Mutable(store[s.id])
  <2>1. calls[c].at = "probing"
    BY DEF Probe
  <2>2. s.id \in Requests /\ ReadInv(c) /\ RecordOk(s.id)
    BY <1>0, <2>1, BusyFacts DEF IInv, CallOk
  <2>. QED BY <1>0, <2>1, <2>2, NothingIsNoCorrection DEF ReadInv, RecordOk
<1>2. NoOperation \in Operations /\ NoOperation.id = 0
  BY NothingTypes DEF NoOperation
<1>3. PICK answer \in FindAnswers :
        \/ answer.kind = "absent" /\ SendCreate(c)
        \/ /\ answer.kind = "found"
           /\ Fail(c, "refused", [calls[c].op EXCEPT !.id = answer.readback.id],
                   answer.readback)
           /\ UNCHANGED <<repos, inflight>>
        \/ /\ answer.kind \in {"retryable", "refused"}
           /\ Fail(c, answer.kind, calls[c].op, NoReadback)
           /\ UNCHANGED <<repos, inflight>>
  BY DEF Probe
<1>4. CASE SendCreate(c)
  BY <1>1, <1>4, SendCreateKeeps
<1>5. CASE /\ Fail(c, "refused", [calls[c].op EXCEPT !.id = answer.readback.id],
                   answer.readback)
           /\ UNCHANGED <<repos, inflight>>
  <2>1. PICK op : op = [NoOperation EXCEPT !.id = answer.readback.id]
    OBVIOUS
  <2>2. answer.readback \in Readbacks
    BY AnswersFacts
  <2>3. op \in Operations /\ op.state = "not-started" /\ op.path = "none"
    BY <1>2, <2>1, <2>2 DEF Operations, NoOperation, Readbacks
  <2>4. \A retryable \in BOOLEAN :
          (MustOwn(s, "failed", retryable, op) /\ (retryable => "refused" = "retryable"))
             => Own(s, op)
    BY <2>3 DEF MustOwn
  <2>5. ReposKept /\ inflight' \subseteq inflight
    BY <1>5, ProviderSame
  <2>6. Fail(c, "refused", op, answer.readback)
    BY <1>1, <1>5, <2>1
  <2>. QED BY <1>0, <1>1, <2>2, <2>3, <2>4, <2>5, <2>6, FailKeeps
<1>6. CASE /\ Fail(c, answer.kind, calls[c].op, NoReadback)
           /\ UNCHANGED <<repos, inflight>>
  <2>1. Own(s, NoOperation) /\ NoReadback \in Readbacks
    BY <1>2, NothingTypes DEF Own
  <2>2. ReposKept /\ inflight' \subseteq inflight
    BY <1>6, ProviderSame
  <2>3. Fail(c, answer.kind, NoOperation, NoReadback)
    BY <1>1, <1>6
  <2>. QED BY <1>0, <1>1, <1>2, <2>1, <2>2, <2>3, FailKeeps
<1>. QED BY <1>3, <1>4, <1>5, <1>6

(* Only an absent name lets a recovery send a create.                      *)
LEMMA RecoverySends ==
    ASSUME IInv, NEW c \in Calls, Recover(c)
    PROVE  \/ \E readback \in Readbacks :
                /\ Complete(c, readback)
                /\ calls[c].op.id # 0 => readback.id = calls[c].op.id
                /\ UNCHANGED <<repos, inflight>>
           \/ calls[c].op.id = 0 /\ Existing(c) /\ SendCreate(c)
           \/ \E class : FailRead(c, class) /\ UNCHANGED <<repos, inflight>>
<1>0. calls[c].op.id # 0 => calls[c].op.id \in Ids
  BY WorkingFacts DEF Recover
<1>1. PICK answer \in IF calls[c].op.id # 0 THEN ReadAnswers(calls[c].op.id) ELSE FindAnswers :
        \/ answer.kind = "found" /\ Complete(c, answer.readback) /\ UNCHANGED <<repos, inflight>>
        \/ answer.kind = "absent" /\ Existing(c) /\ SendCreate(c)
        \/ FailRead(c, answer.kind) /\ UNCHANGED <<repos, inflight>>
  BY DEF Recover
<1>2. /\ answer.readback \in Readbacks
      /\ calls[c].op.id # 0 /\ answer.kind = "found" => answer.readback.id = calls[c].op.id
      /\ answer.kind = "absent" => calls[c].op.id = 0
  BY <1>0, <1>1, AnswersFacts
<1>. QED BY <1>1, <1>2

(* The recovery of an earlier attempt.                                     *)
LEMMA RecoverKeeps ==
    ASSUME IInv, NEW c \in Calls, Recover(c)
    PROVE  IInv'
<1>1. calls[c].at = "recovering"
  BY DEF Recover
<1>2. ASSUME NEW readback \in Readbacks, Complete(c, readback),
             calls[c].op.id # 0 => readback.id = calls[c].op.id,
             UNCHANGED <<repos, inflight>>
      PROVE  IInv'
  BY <1>1, <1>2, CompleteKeeps
<1>3. CASE calls[c].op.id = 0 /\ Existing(c) /\ SendCreate(c)
  BY <1>1, <1>3, SendCreateKeeps
<1>4. ASSUME NEW class, FailRead(c, class), UNCHANGED <<repos, inflight>>
      PROVE  IInv'
  BY <1>1, <1>4, FailReadKeeps, ProviderSame
<1>. QED BY <1>2, <1>3, <1>4, RecoverySends

(* A create that was sent is acknowledged with a repository of the request.*)
LEMMA CreateAcknowledgedKeeps ==
    ASSUME IInv, NEW c \in Calls, CreateAcknowledged(c)
    PROVE  IInv'
<1>0. PICK s : s = calls[c].sub
  OBVIOUS
<1>1. PICK i \in Ids : /\ calls[c].reply = <<"created", i>>
                       /\ i = CHOOSE n \in Ids : calls[c].reply = <<"created", n>>
  BY DEF CreateAcknowledged
<1>2. /\ calls[c].at \in {"recovering", "creating", "reading", "patching", "rereading"}
      /\ calls[c].at # "idle"
  BY DEF CreateAcknowledged
<1>3. /\ store[s.id].op = calls[c].op /\ calls[c].op \in Operations
      /\ s.action = "provision-new" /\ s.id \in Requests
  BY <1>0, <1>2, WorkingFacts, BusyFacts
<1>4. repos[i].by = s.id /\ i # 0 /\ i \in 0..MaxRepositories
  <2>1. ReplyInv(c)
    BY DEF IInv, CallOk
  <2>2. repos[i].by = s.id
    BY <1>0, <1>1, <2>1, Zenon DEF ReplyInv
  <2>3. i # 0 /\ i \in 0..MaxRepositories
    BY CustodyAssumption DEF Ids
  <2>. QED BY <2>2, <2>3
<1>5. PICK op : op = [calls[c].op EXCEPT !.id = i, !.state = "provider-acknowledged"]
  OBVIOUS
<1>6. op \in Operations /\ op.id = i /\ op.attempts = calls[c].op.attempts
  BY <1>3, <1>4, <1>5 DEF Operations
<1>7. Own(s, op)
  BY <1>3, <1>4, <1>6 DEF Own
<1>8. Checkpoint(c, op, "reading", TRUE) /\ UNCHANGED <<repos, inflight>>
  BY <1>1, <1>5 DEF CreateAcknowledged
<1>9. op.attempts >= store[s.id].op.attempts
  BY <1>3, <1>6, CustodyAssumption DEF Operations
<1>10. inflight' \subseteq Creates /\ inflight' \ inflight = {} /\ TRUE \in BOOLEAN
  BY <1>8, ProviderSame
<1>. QED
  BY <1>0, <1>2, <1>3, <1>4, <1>6, <1>7, <1>8, <1>9, <1>10, CheckpointKeeps

(* A create whose outcome is not known, or that was refused.               *)
LEMMA CreateFailsKeeps ==
    ASSUME IInv, NEW c \in Calls, CreateUnknown(c) \/ CreateRefused(c)
    PROVE  IInv'
<1>0. PICK s : s = calls[c].sub
  OBVIOUS
<1>1. /\ calls[c].at \in {"recovering", "creating", "reading", "patching", "rereading"}
      /\ calls[c].at = "creating" /\ calls[c].at # "idle"
  BY DEF CreateUnknown, CreateRefused
<1>2. /\ store[s.id].op = calls[c].op /\ calls[c].op \in Operations
      /\ Own(s, calls[c].op) /\ (IsCorrection(s) => calls[c].op.id # 0)
  BY <1>0, <1>1, WorkingFacts
<1>3. PICK class, state, op :
         /\ state \in States /\ op = [calls[c].op EXCEPT !.state = state]
         /\ Fail(c, class, op, NoReadback)
  <2>1. CASE CreateUnknown(c)
    <3>1. "recovery-required" \in States
      BY DEF States
    <3>. QED BY <2>1, <3>1 DEF CreateUnknown
  <2>2. CASE CreateRefused(c)
    <3>1. PICK state : state = calls[c].op.state
      OBVIOUS
    <3>2. state \in States /\ calls[c].op = [calls[c].op EXCEPT !.state = state]
      BY <1>2, <3>1 DEF Operations, States
    <3>. QED BY <2>2, <3>2 DEF CreateRefused
  <2>. QED BY <2>1, <2>2
<1>4. op \in Operations /\ op.id = calls[c].op.id /\ op.attempts = calls[c].op.attempts
  BY <1>2, <1>3, StateSet
<1>5. Own(s, op) /\ (IsCorrection(s) => op.id # 0)
  BY <1>2, <1>4 DEF Own
<1>6. op.attempts >= store[s.id].op.attempts
  BY <1>2, <1>4, CustodyAssumption DEF Operations
<1>7. ReposKept /\ inflight' \subseteq inflight /\ NoReadback \in Readbacks
  BY ProviderSame, NothingTypes DEF CreateUnknown, CreateRefused
<1>. QED BY <1>0, <1>1, <1>3, <1>4, <1>5, <1>6, <1>7, FailKeeps

(* The readback of an acknowledged create.                                 *)
LEMMA ReadCreatedKeeps ==
    ASSUME IInv, NEW c \in Calls, ReadCreated(c)
    PROVE  IInv'
<1>1. calls[c].at = "reading" /\ UNCHANGED <<repos, inflight>>
  BY DEF ReadCreated
<1>2. calls[c].op.id \in Ids
  BY <1>1, WorkingFacts DEF IInv, CallOk, WorkInv, Working
<1>3. PICK answer \in ReadAnswers(calls[c].op.id) :
        IF answer.kind = "found" THEN Complete(c, answer.readback)
        ELSE FailRead(c, answer.kind)
  BY DEF ReadCreated
<1>4. CASE answer.kind = "found"
  <2>1. answer.readback \in Readbacks /\ answer.readback.id = calls[c].op.id
    BY <1>2, <1>4, AnswersFacts
  <2>. QED BY <1>1, <1>3, <1>4, <2>1, CompleteKeeps
<1>5. CASE answer.kind # "found"
  BY <1>1, <1>3, <1>5, FailReadKeeps, ProviderSame
<1>. QED BY <1>4, <1>5

(* The readback of a repository whose settings were changed.               *)
LEMMA RereadKeeps ==
    ASSUME IInv, NEW c \in Calls, Reread(c)
    PROVE  IInv'
<1>1. calls[c].at = "rereading" /\ UNCHANGED <<repos, inflight>>
  BY DEF Reread
<1>2. calls[c].op.id \in Ids
  BY <1>1, WorkingFacts DEF IInv, CallOk, WorkInv, Working
<1>3. PICK answer \in ReadAnswers(calls[c].op.id) :
        IF answer.kind = "found" THEN Judge(c, answer.readback)
        ELSE FailRead(c, answer.kind)
  BY DEF Reread
<1>4. CASE answer.kind = "found"
  <2>1. answer.readback \in Readbacks /\ answer.readback.id = calls[c].op.id
    BY <1>2, <1>4, AnswersFacts
  <2>. QED BY <1>1, <1>3, <1>4, <2>1, JudgeKeeps
<1>5. CASE answer.kind # "found"
  BY <1>1, <1>3, <1>5, FailReadKeeps, ProviderSame
<1>. QED BY <1>4, <1>5

(* A change of settings leaves the repositories whose they are.            *)
LEMMA SettleKeeps ==
    ASSUME IInv, NEW s \in Submissions, Settle(s)
    PROVE  ReposKept
<1>1. ASSUME NEW i \in Named
      PROVE  /\ [repos[i] EXCEPT !.settings = s.settings] \in Repositories
             /\ [repos[i] EXCEPT !.settings = s.settings].by = repos[i].by
             /\ [repos[i] EXCEPT !.settings = s.settings].place = "name"
  <2>1. repos[i] \in Repositories /\ repos[i].place = "name" /\ s.settings \in Wanted
    BY <1>1, SubmissionFacts DEF IInv, TypeOK, Named
  <2>. QED BY <2>1 DEF Repositories
<1>2. repos \in [Ids -> Repositories] /\ Named \subseteq Ids
  BY DEF IInv, TypeOK, Named
<1>3. \A i \in Ids : repos'[i] = IF i \in Named THEN [repos[i] EXCEPT !.settings = s.settings]
                                 ELSE repos[i]
  BY DEF Settle
<1>4. repos' \in [Ids -> Repositories]
  BY <1>1, <1>2 DEF Settle
<1>5. \A i \in Ids : i \in Named <=> repos[i].place = "name"
  BY DEF Named
<1>. QED BY <1>1, <1>3, <1>4, <1>5 DEF ReposKept

(* The change of settings, and its answers.                                *)
LEMMA ApplySettingsKeeps ==
    ASSUME IInv, NEW c \in Calls, ApplySettings(c)
    PROVE  IInv'
<1>1. calls[c].at = "patching" /\ UNCHANGED inflight /\ calls[c] \in CallStates
      /\ calls[c].sub \in Submissions /\ calls[c].at # "idle"
  BY BusyFacts DEF ApplySettings
<1>2. ReposKept
  BY <1>1, SettleKeeps, ProviderSame DEF ApplySettings
<1>3. ASSUME NEW class, FailRead(c, class) PROVE IInv'
  BY <1>1, <1>2, <1>3, FailReadKeeps
<1>4. CASE calls' = [calls EXCEPT ![c].at = "rereading"] /\ UNCHANGED store
  <2>1. PICK k : k = [calls[c] EXCEPT !.at = "rereading"]
    OBVIOUS
  <2>2. /\ k \in CallStates /\ k.at = "rereading" /\ k.sub = calls[c].sub
        /\ k.op = calls[c].op /\ k.reply = calls[c].reply /\ k.prior = calls[c].prior
    BY <1>1, <2>1 DEF CallStates, Places
  <2>3. calls' = [calls EXCEPT ![c] = k]
    BY <1>4, <2>1
  <2>4. k.op.id # 0
    BY <1>1, <2>2 DEF IInv, CallOk, WorkInv, Working
  <2>. QED BY <1>1, <1>2, <1>4, <2>2, <2>3, <2>4, GoesOnKeeps
<1>. QED BY <1>3, <1>4 DEF ApplySettings

-----------------------------------------------------------------------------
(* The steps of the provider, of its users, and of the process.            *)

(* A step that writes no record keeps what the records say.                *)
LEMMA RecordsStay ==
    ASSUME IInv, UNCHANGED store,
           \A i \in Ids : repos[i].by \in Requests => repos'[i].by = repos[i].by
    PROVE  \A q \in Requests : RecordOk(q)'
<1>. SUFFICES ASSUME NEW q \in Requests PROVE RecordOk(q)'
  OBVIOUS
<1>1. Lineage(q) \subseteq Lineage(q)' /\ Lineage(q) \subseteq Requests
  BY LineageGrows DEF Lineage
<1>2. RecordOk(q) /\ store[q] \in Records /\ store'[q] = store[q]
  BY DEF IInv, TypeOK
<1>3. store[q].op.id # 0 => store[q].op.id \in Ids
  BY <1>2, CustodyAssumption DEF Records, Operations, Ids
<1>4. Holds(store[q]) => repos'[store[q].op.id].by \in Lineage(q)'
  BY <1>1, <1>2, <1>3 DEF RecordOk, Holds
<1>. QED BY <1>2, <1>4 DEF RecordOk

(* A call that is left alone knows what it knew.                           *)
LEMMA CallStays ==
    ASSUME IInv, UNCHANGED store, NEW d \in Calls, calls'[d] = calls[d],
           \A i \in Ids : repos[i].by \in Requests => repos'[i].by = repos[i].by
    PROVE  CallOk(d)'
<1>1. CallOk(d)
  BY DEF IInv
<1>2. ASSUME NEW i \in Ids, calls[d].reply = <<"created", i>>
      PROVE  repos'[i].by = calls[d].sub.id
  <2>1. repos[i].by = calls[d].sub.id
    BY <1>1, <1>2, Zenon DEF CallOk, ReplyInv
  <2>2. calls[d].sub \in Submissions \cup {NoSubmission} /\ repos[i] \in Repositories
    BY DEF IInv, TypeOK
  <2>3. calls[d].sub.id = "none" \/ calls[d].sub.id \in Requests
    BY <2>2, SubmissionFacts DEF NoSubmission
  <2>4. repos[i].by # "none"
    BY <2>2, NamesApart DEF Repositories
  <2>. QED BY <2>1, <2>3, <2>4
<1>3. ReplyInv(d)'
  BY <1>2 DEF ReplyInv
<1>. QED BY <1>1, <1>3 DEF CallOk, ReadInv, WorkInv

(* A step that writes no record and takes no repository from anyone.       *)
LEMMA ProviderMoves ==
    ASSUME IInv, UNCHANGED store, inflight' \subseteq inflight,
           repos' \in [Ids -> Repositories], calls' \in [Calls -> CallStates],
           \A i \in Ids :
              \/ repos'[i].by = repos[i].by
              \/ /\ repos[i].by = "nobody"
                 /\ repos'[i].by \in Requests => Journalled(repos'[i].by),
           \A i \in Ids : repos'[i].place = "nowhere" => repos'[i] = Unborn,
           \A i, j \in Ids : repos'[i].place = "name" /\ repos'[j].place = "name" => i = j,
           LockInv', \A d \in Calls : CallOk(d)'
    PROVE  IInv'
<1>1. \A i \in Ids : repos[i].by \in Requests => repos'[i].by = repos[i].by
  BY NamesApart
<1>2. \A q \in Requests : RecordOk(q)'
  BY <1>1, RecordsStay
<1>3. \A r : Journalled(r) => Journalled(r)'
  BY DEF Journalled
<1>4. \A x \in inflight' : Journalled(x.id)'
  BY <1>3 DEF IInv, ProviderInv
<1>5. \A i \in Ids : repos'[i].by \in Requests => (store'[repos'[i].by].status # "none"
                                                   /\ store'[repos'[i].by].op.attempts >= 1)
  BY <1>3 DEF IInv, ProviderInv, Journalled
<1>6. ProviderInv'
  BY <1>4, <1>5 DEF ProviderInv, Named, Journalled
<1>7. TypeOK'
  BY DEF IInv, TypeOK, CallStates, Places, Replies
<1>. QED BY <1>2, <1>6, <1>7 DEF IInv

(* A call begins when nobody works on its request.                         *)
LEMMA BeginKeeps ==
    ASSUME IInv, NEW c \in Calls, NEW s \in Submissions, Begin(c, s)
    PROVE  IInv'
<1>0. s.id \in Requests /\ store[s.id] \in Records /\ RecordOk(s.id)
  BY SubmissionFacts DEF IInv, TypeOK
<1>1. PICK prior : prior = IF store[s.id].status # "none" THEN store[s.id]
                           ELSE IF IsCorrection(s) THEN store[s.causation] ELSE NoRecord
  OBVIOUS
<1>2. prior \in Records
  <2>1. IsCorrection(s) => s.causation \in Requests
    BY SubmissionFacts DEF IsCorrection
  <2>. QED BY <1>0, <1>1, <2>1, NothingTypes DEF IInv, TypeOK
<1>3. PICK k : k = [IdleCall EXCEPT !.at = "readiness", !.sub = s, !.prior = prior]
  OBVIOUS
<1>4. /\ k \in CallStates /\ k.at = "readiness" /\ k.sub = s /\ k.prior = prior
      /\ k.op = NoOperation /\ k.reply = <<"none", 0>>
  BY <1>2, <1>3, NothingTypes DEF IdleCall, CallStates, Places
<1>5. calls' = [calls EXCEPT ![c] = k] /\ UNCHANGED <<store, repos, inflight>>
  BY <1>1, <1>3 DEF Begin
<1>6. calls' \in [Calls -> CallStates] /\ calls'[c] = k
      /\ \A d \in Calls : d # c => calls'[d] = calls[d]
  BY <1>4, <1>5 DEF IInv, TypeOK, CallStates, Places, Replies
<1>7. LockInv'
  <2>1. \A d \in Calls : d # c /\ calls'[d].at # "idle" => calls'[d].sub.id # s.id
    BY <1>6 DEF Begin, Locked
  <2>2. ASSUME NEW d \in Calls, NEW e \in Calls, calls'[d].at # "idle",
               calls'[e].at # "idle", calls'[d].sub.id = calls'[e].sub.id
        PROVE  d = e
    BY <1>4, <1>6, <2>1, <2>2 DEF IInv, LockInv
  <2>. QED BY <2>2 DEF LockInv
<1>8. CallOk(c)'
  <2>1. ReadInv(c)'
    <3>1. /\ store[s.id].status # "none" => store[s.id].request = s /\ Mutable(store[s.id])
          /\ IsCorrection(s) => Corrects(s, store[s.causation])
          /\ MayAttempt(store[s.id])
      BY DEF Begin
    <3>. QED BY <1>1, <1>4, <1>5, <1>6, <3>1 DEF ReadInv
  <2>2. WorkInv(c)'
    BY <1>4, <1>6 DEF WorkInv, Working
  <2>3. \A i : k.reply # <<"created", i>>
    BY <1>4
  <2>4. ReplyInv(c)'
    BY <1>6, <2>3 DEF ReplyInv
  <2>. QED BY <1>4, <1>6, <2>1, <2>2, <2>4 DEF CallOk
<1>9. ASSUME NEW d \in Calls PROVE CallOk(d)'
  <2>1. CASE d # c
    BY <1>5, <1>6, <2>1, CallStays
  <2>. QED BY <1>8, <2>1
<1>10. /\ repos' \in [Ids -> Repositories]
       /\ \A i \in Ids : repos'[i].place = "nowhere" => repos'[i] = Unborn
       /\ \A i, j \in Ids : repos'[i].place = "name" /\ repos'[j].place = "name" => i = j
  BY <1>5 DEF IInv, TypeOK, ProviderInv, Named
<1>. QED BY <1>5, <1>6, <1>7, <1>9, <1>10, ProviderMoves

(* The process dies.                                                       *)
LEMMA CrashKeeps ==
    ASSUME IInv, Crash
    PROVE  IInv'
<1>1. UNCHANGED <<store, repos, inflight>> /\ \A d \in Calls : calls'[d] = IdleCall
  BY DEF Crash
<1>2. IdleCall.at = "idle" /\ IdleCall.reply = <<"none", 0>>
  BY DEF IdleCall
<1>3. calls' \in [Calls -> CallStates] /\ LockInv'
  BY <1>1, <1>2, NothingTypes DEF Crash, LockInv
<1>4. ASSUME NEW d \in Calls PROVE CallOk(d)'
  <2>1. calls'[d].at = "idle" /\ \A i : calls'[d].reply # <<"created", i>>
    BY <1>1, <1>2
  <2>. QED BY <2>1 DEF CallOk, ReadInv, WorkInv, ReplyInv, Working
<1>5. /\ repos' \in [Ids -> Repositories]
      /\ \A i \in Ids : repos'[i].place = "nowhere" => repos'[i] = Unborn
      /\ \A i, j \in Ids : repos'[i].place = "name" /\ repos'[j].place = "name" => i = j
  BY <1>1 DEF IInv, TypeOK, ProviderInv, Named
<1>. QED BY <1>1, <1>3, <1>4, <1>5, ProviderMoves

(* The others change, rename, archive or delete a repository.              *)
LEMMA OthersChangeKeeps ==
    ASSUME IInv, NEW i \in Ids, OthersChange(i)
    PROVE  /\ IInv'
           /\ \A j \in Ids : repos'[j].settings \in {repos[j].settings, "partial"}
<1>1. repos[i] \in Repositories /\ repos[i].place # "nowhere"
  BY DEF IInv, TypeOK, OthersChange, Exists
<1>2. PICK repo : /\ repo \in {[repos[i] EXCEPT !.settings = "partial"],
                               [repos[i] EXCEPT !.active = FALSE],
                               [repos[i] EXCEPT !.place = "elsewhere"],
                               [Unborn EXCEPT !.by = repos[i].by, !.place = "deleted"]}
                  /\ repos' = [repos EXCEPT ![i] = repo]
  BY DEF OthersChange
<1>3. /\ repo \in Repositories /\ repo.by = repos[i].by /\ repo.place # "nowhere"
      /\ repo.place = "name" => repos[i].place = "name"
      /\ repo.settings \in {repos[i].settings, "partial"}
  <2>1. CASE repo = [repos[i] EXCEPT !.settings = "partial"]
    BY <1>1, <2>1 DEF Repositories
  <2>2. CASE repo = [repos[i] EXCEPT !.active = FALSE]
    BY <1>1, <2>2 DEF Repositories
  <2>3. CASE repo = [repos[i] EXCEPT !.place = "elsewhere"]
    BY <1>1, <2>3 DEF Repositories
  <2>4. CASE repo = [Unborn EXCEPT !.by = repos[i].by, !.place = "deleted"]
    BY <1>1, <2>4 DEF Repositories, Unborn
  <2>. QED BY <1>2, <2>1, <2>2, <2>3, <2>4
<1>4. /\ repos' \in [Ids -> Repositories] /\ repos'[i] = repo
      /\ \A j \in Ids : j # i => repos'[j] = repos[j]
  BY <1>2, <1>3 DEF IInv, TypeOK
<1>5. \A j \in Ids : repos'[j].by = repos[j].by
  BY <1>3, <1>4
<1>6. /\ \A j \in Ids : repos'[j].place = "nowhere" => repos'[j] = Unborn
      /\ \A j, l \in Ids : repos'[j].place = "name" /\ repos'[l].place = "name" => j = l
  BY <1>3, <1>4 DEF IInv, ProviderInv, Named
<1>7. UNCHANGED <<store, calls, inflight>>
  BY DEF OthersChange
<1>8. calls' \in [Calls -> CallStates] /\ LockInv'
  BY <1>7 DEF IInv, TypeOK, LockInv, CallStates, Places, Replies
<1>9. ASSUME NEW d \in Calls PROVE CallOk(d)'
  BY <1>5, <1>7, CallStays
<1>10. IInv'
  BY <1>4, <1>5, <1>6, <1>7, <1>8, <1>9, ProviderMoves
<1>11. \A j \in Ids : repos'[j].settings \in {repos[j].settings, "partial"}
  BY <1>3, <1>4
<1>. QED BY <1>10, <1>11

(* What comes into being is nobody's until then.                           *)
LEMMA FreshIdFacts ==
    ASSUME IInv, Free # {}
    PROVE  FreshId \in Ids /\ repos[FreshId] = Unborn /\ repos[FreshId].by = "nobody"
<1>1. FreshId \in Free
  BY DEF FreshId
<1>. QED BY <1>1 DEF Free, IInv, ProviderInv, Unborn

(* The others create a repository.                                         *)
LEMMA OthersCreateKeeps ==
    ASSUME IInv, OthersCreate
    PROVE  /\ IInv'
           /\ \A i \in Ids : repos[i].by = "others" => repos'[i] = repos[i]
<1>1. FreshId \in Ids /\ repos[FreshId].by = "nobody" /\ Named = {}
  BY FreshIdFacts DEF OthersCreate
<1>2. PICK f : f = FreshId
  OBVIOUS
<1>3. PICK repo : /\ repo.by = "others" /\ repo.place = "name" /\ repo \in Repositories
                  /\ repos' = [repos EXCEPT ![f] = repo]
  <2>1. PICK settings \in Wanted \cup {"partial"} :
          repos' = [repos EXCEPT ![f] = [by |-> "others", place |-> "name",
                                         settings |-> settings, active |-> TRUE]]
    BY <1>2 DEF OthersCreate
  <2>. QED BY <2>1 DEF Repositories
<1>4. /\ repos' \in [Ids -> Repositories] /\ repos'[f] = repo
      /\ \A j \in Ids : j # f => repos'[j] = repos[j]
  BY <1>1, <1>2, <1>3 DEF IInv, TypeOK
<1>5. \A j \in Ids : \/ repos'[j].by = repos[j].by
                     \/ repos[j].by = "nobody" /\ repos'[j].by \notin Requests
  BY <1>1, <1>2, <1>3, <1>4, NamesApart
<1>6. /\ \A j \in Ids : repos'[j].place = "nowhere" => repos'[j] = Unborn
      /\ \A j, l \in Ids : repos'[j].place = "name" /\ repos'[l].place = "name" => j = l
  BY <1>1, <1>3, <1>4 DEF IInv, ProviderInv, Named
<1>7. UNCHANGED <<store, calls, inflight>>
  BY DEF OthersCreate
<1>8. calls' \in [Calls -> CallStates] /\ LockInv'
  BY <1>7 DEF IInv, TypeOK, LockInv, CallStates, Places, Replies
<1>9. \A i \in Ids : repos[i].by \in Requests => repos'[i].by = repos[i].by
  BY <1>5, NamesApart
<1>10. ASSUME NEW d \in Calls PROVE CallOk(d)'
  BY <1>7, <1>9, CallStays
<1>11. IInv'
  BY <1>4, <1>5, <1>6, <1>7, <1>8, <1>10, ProviderMoves
<1>. QED BY <1>1, <1>2, <1>4, <1>11

(* A create takes effect, or finds the name taken, and is answered.        *)
LEMMA CreateLandsKeeps ==
    ASSUME IInv, NEW create \in inflight, CreateLands(create)
    PROVE  /\ IInv'
           /\ \A i \in Ids : repos[i].by = "others" => repos'[i] = repos[i]
<1>0. create \in Creates /\ Journalled(create.id) /\ create.id \in Requests
  BY DEF IInv, TypeOK, ProviderInv, Creates
<1>1. PICK reply : /\ reply \in Replies
                   /\ calls' = Answer(create, reply)
                   /\ \A i \in Ids : reply = <<"created", i>> => repos'[i].by = create.id
                   /\ \A i \in Ids : \/ repos'[i] = repos[i]
                                     \/ /\ repos[i].by = "nobody" /\ Named = {}
                                        /\ i = FreshId /\ repos'[i].by = create.id
                                        /\ repos'[i].place = "name"
                   /\ repos' \in [Ids -> Repositories]
  <2>1. CASE calls' = Answer(create, <<"refused", 0>>) /\ UNCHANGED repos
    <3>1. <<"refused", 0>> \in Replies
      BY CustodyAssumption DEF Replies
    <3>2. repos' \in [Ids -> Repositories] /\ \A i \in Ids : repos'[i] = repos[i]
      BY <2>1 DEF IInv, TypeOK
    <3>3. \A i \in Ids : <<"refused", 0>> # <<"created", i>>
      OBVIOUS
    <3>. QED BY <2>1, <3>1, <3>2, <3>3
  <2>2. CASE Named = {} /\ Free # {} /\ calls' = Answer(create, <<"created", FreshId>>)
    <3>1. PICK f : f = FreshId
      OBVIOUS
    <3>2. f \in Ids /\ repos[f].by = "nobody"
      BY <2>2, <3>1, FreshIdFacts
    <3>3. PICK repo : /\ repo.by = create.id /\ repo.place = "name" /\ repo \in Repositories
                      /\ repos' = [repos EXCEPT ![f] = repo]
      <4>1. PICK settings \in {create.settings, "partial"} :
              repos' = [repos EXCEPT ![f] = [by |-> create.id, place |-> "name",
                                             settings |-> settings, active |-> TRUE]]
        BY <2>2, <3>1 DEF CreateLands
      <4>2. settings \in Wanted \cup {"partial"}
        BY <1>0 DEF Creates
      <4>. QED BY <1>0, <4>1, <4>2 DEF Repositories
    <3>4. /\ repos' \in [Ids -> Repositories] /\ repos'[f] = repo
          /\ \A j \in Ids : j # f => repos'[j] = repos[j]
      BY <3>2, <3>3 DEF IInv, TypeOK
    <3>5. <<"created", f>> \in Replies
      BY <3>2, CustodyAssumption DEF Replies, Ids
    <3>6. \A i \in Ids : <<"created", f>> = <<"created", i>> => repos'[i].by = create.id
      BY <3>3, <3>4
    <3>. QED BY <2>2, <3>1, <3>2, <3>3, <3>4, <3>5, <3>6
  <2>. QED BY <2>1, <2>2 DEF CreateLands
<1>2. UNCHANGED store /\ inflight' \subseteq inflight
  BY DEF CreateLands
<1>3. ASSUME NEW d \in Calls
      PROVE  \/ calls'[d] = calls[d]
             \/ /\ calls[d].at = "creating" /\ calls[d].sub.id = create.id
                /\ calls'[d] = [calls[d] EXCEPT !.reply = reply]
  BY <1>1 DEF Answer, Sent
<1>4. calls \in [Calls -> CallStates]
  BY DEF IInv, TypeOK, CallStates, Places, Replies
<1>5. ASSUME NEW d \in Calls
      PROVE  /\ calls'[d] \in CallStates
             /\ calls'[d].at = calls[d].at /\ calls'[d].sub = calls[d].sub
             /\ calls'[d].op = calls[d].op /\ calls'[d].prior = calls[d].prior
             /\ calls'[d] = calls[d] \/ calls'[d].reply = reply
  <2>1. CASE calls'[d] = calls[d]
    BY <1>4, <2>1
  <2>2. CASE calls'[d] = [calls[d] EXCEPT !.reply = reply]
    <3>1. PICK k : k = calls[d]
      OBVIOUS
    <3>2. k \in CallStates /\ reply \in Replies /\ calls'[d] = [k EXCEPT !.reply = reply]
      BY <1>1, <1>4, <2>2, <3>1
    <3>3. /\ calls'[d] \in CallStates /\ calls'[d].at = k.at /\ calls'[d].sub = k.sub
          /\ calls'[d].op = k.op /\ calls'[d].prior = k.prior /\ calls'[d].reply = reply
      BY <3>2 DEF CallStates
    <3>. QED BY <3>1, <3>3
  <2>. QED BY <1>3, <2>1, <2>2
<1>6. calls' \in [Calls -> CallStates]
  BY <1>1, <1>5 DEF Answer
<1>7. LockInv'
  BY <1>5 DEF IInv, LockInv
<1>8. \A i \in Ids : repos[i].by \in Requests => repos'[i].by = repos[i].by
  BY <1>1, NamesApart
<1>9. ASSUME NEW d \in Calls PROVE CallOk(d)'
  <2>1. CASE calls'[d] = calls[d]
    BY <1>2, <1>8, <2>1, CallStays
  <2>2. CASE calls'[d] # calls[d]
    <3>1. CallOk(d) /\ calls'[d].reply = reply /\ calls[d].sub.id = create.id
      BY <1>3, <1>5, <2>2 DEF IInv
    <3>2. ReplyInv(d)'
      BY <1>1, <1>5, <3>1 DEF ReplyInv
    <3>3. ReadInv(d)' /\ WorkInv(d)'
      BY <1>2, <1>5, <3>1 DEF CallOk, ReadInv, WorkInv
    <3>. QED BY <1>5, <3>1, <3>2, <3>3 DEF CallOk
  <2>. QED BY <2>1, <2>2
<1>10. /\ \A j \in Ids : repos'[j].place = "nowhere" => repos'[j] = Unborn
       /\ \A j, l \in Ids : repos'[j].place = "name" /\ repos'[l].place = "name" => j = l
  BY <1>1 DEF IInv, ProviderInv, Named
<1>11. \A i \in Ids :
          \/ repos'[i].by = repos[i].by
          \/ /\ repos[i].by = "nobody"
             /\ repos'[i].by \in Requests => Journalled(repos'[i].by)
  BY <1>0, <1>1
<1>12. IInv'
  BY <1>1, <1>2, <1>6, <1>7, <1>9, <1>10, <1>11, ProviderMoves
<1>. QED BY <1>1, <1>12

-----------------------------------------------------------------------------
(* The theorems.                                                           *)

(* Nothing is in the journal, at work or made at first.                    *)
LEMMA InitHolds == Init => IInv
<1>. SUFFICES ASSUME Init PROVE IInv
  OBVIOUS
<1>1. /\ \A r \in Requests : store[r] = NoRecord
      /\ \A c \in Calls : calls[c] = IdleCall
      /\ inflight = {}
  BY DEF Init
<1>2. repos \in [Ids -> Repositories] /\ \A i \in Ids :
         /\ repos[i].by \in {"others", "nobody"} /\ repos[i].place # "name"
         /\ repos[i].place = "nowhere" => repos[i] = Unborn
  BY NothingTypes DEF Init, Repositories, Unborn
<1>3. IdleCall.at = "idle" /\ IdleCall.reply = <<"none", 0>>
  BY DEF IdleCall
<1>4. TypeOK
  <2>1. store \in [Requests -> Records] /\ calls \in [Calls -> CallStates]
    BY NothingTypes DEF Init
  <2>2. ~NoRecord.retryable
    BY DEF NoRecord, Record
  <2>. QED
    BY <1>1, <1>2, <2>1, <2>2, NothingIsNoCorrection
    DEF TypeOK, CallStates, Places, Replies
<1>5. LockInv
  BY <1>1, <1>3 DEF LockInv
<1>6. ProviderInv
  BY <1>1, <1>2, NamesApart DEF ProviderInv, Named
<1>7. ASSUME NEW c \in Calls PROVE CallOk(c)
  <2>1. calls[c].at = "idle" /\ \A i : calls[c].reply # <<"created", i>>
    BY <1>1, <1>3
  <2>. QED BY <2>1 DEF CallOk, ReadInv, WorkInv, ReplyInv, Working
<1>8. ASSUME NEW r \in Requests PROVE RecordOk(r)
  BY <1>1, NothingIsNoCorrection DEF RecordOk, Holds
<1>. QED BY <1>4, <1>5, <1>6, <1>7, <1>8 DEF IInv

(* Every step keeps the invariant.                                         *)
LEMMA NextKeeps == IInv /\ [Next]_vars => IInv'
<1>. SUFFICES ASSUME IInv, [Next]_vars PROVE IInv'
  OBVIOUS
<1>1. ASSUME NEW c \in Calls, Step(c) PROVE IInv'
  <2>1. CASE ReadinessFails(c)
    BY <2>1, GiveUpKeeps DEF ReadinessFails
  <2>2. CASE ReadinessDenies(c)
    BY <2>2, ReadinessDeniesKeeps
  <2>3. CASE ReadinessAllowsLink(c)
    BY <2>3, ReadinessAllowsLinkKeeps
  <2>4. CASE ReadinessAllowsRecovery(c)
    BY <2>4, ReadinessAllowsRecoveryKeeps
  <2>5. CASE ReadinessAllowsProbe(c)
    BY <2>5, ReadinessAllowsProbeKeeps
  <2>6. CASE Link(c)
    BY <2>6, LinkKeeps
  <2>7. CASE Probe(c)
    BY <2>7, ProbeKeeps
  <2>8. CASE Recover(c)
    BY <2>8, RecoverKeeps
  <2>9. CASE CreateAcknowledged(c)
    BY <2>9, CreateAcknowledgedKeeps
  <2>10. CASE CreateUnknown(c) \/ CreateRefused(c)
    BY <2>10, CreateFailsKeeps
  <2>11. CASE ReadCreated(c)
    BY <2>11, ReadCreatedKeeps
  <2>12. CASE ApplySettings(c)
    BY <2>12, ApplySettingsKeeps
  <2>13. CASE Reread(c)
    BY <2>13, RereadKeeps
  <2>. QED
    BY <1>1, <2>1, <2>2, <2>3, <2>4, <2>5, <2>6, <2>7, <2>8, <2>9, <2>10, <2>11,
       <2>12, <2>13
    DEF Step
<1>2. ASSUME NEW c \in Calls, JournalFails(c) PROVE IInv'
  BY <1>2, GiveUpKeeps DEF JournalFails
<1>3. ASSUME NEW c \in Calls, NEW s \in Submissions, Begin(c, s) PROVE IInv'
  BY <1>3, BeginKeeps
<1>4. CASE Crash
  BY <1>4, CrashKeeps
<1>5. ASSUME NEW create \in inflight, CreateLands(create) PROVE IInv'
  BY <1>5, CreateLandsKeeps
<1>6. CASE OthersCreate
  BY <1>6, OthersCreateKeeps
<1>7. ASSUME NEW i \in Ids, OthersChange(i) PROVE IInv'
  BY <1>7, OthersChangeKeeps
<1>8. CASE UNCHANGED vars
  <2>1. /\ UNCHANGED <<store, calls, repos, inflight>>
        /\ calls' \in [Calls -> CallStates] /\ repos' \in [Ids -> Repositories]
        /\ \A i \in Ids : repos'[i].place = "nowhere" => repos'[i] = Unborn
        /\ \A i, j \in Ids : repos'[i].place = "name" /\ repos'[j].place = "name" => i = j
        /\ LockInv'
    BY <1>8
    DEF vars, IInv, TypeOK, CallStates, Places, Replies, ProviderInv, Named, LockInv
  <2>2. \A d \in Calls : CallOk(d)'
    BY <2>1, CallStays
  <2>. QED BY <2>1, <2>2, ProviderMoves
<1>. QED BY <1>1, <1>2, <1>3, <1>4, <1>5, <1>6, <1>7, <1>8 DEF Next

(* IInv holds: the types, one call per request, what each call has read    *)
(* and written, and whose repository each record names.                    *)
THEOREM CustodyInvariant == Spec => []IInv
BY InitHolds, NextKeeps, PTL DEF Spec

(* The shape validateStored demands holds of every record.                 *)
THEOREM RecordsAreTyped == Spec => []TypeOK
<1>1. IInv => TypeOK
  BY DEF IInv
<1>. QED BY <1>1, CustodyInvariant, PTL

(* No repository that a create made is without a journalled command.       *)
THEOREM JournalKnowsTheEffects == Spec => []EffectsAreJournalled
<1>1. IInv => EffectsAreJournalled
  BY DEF IInv, ProviderInv, Journalled, EffectsAreJournalled
<1>. QED BY <1>1, CustodyInvariant, PTL

(* An acknowledged repository is of the request's lineage.                 *)
THEOREM AcknowledgedIsOfTheLineage == Spec => []AcknowledgedIsOwn
<1>1. IInv => AcknowledgedIsOwn
  BY DEF IInv, RecordOk, Holds, HoldsAcknowledgedId, AcknowledgedIsOwn
<1>. QED BY <1>1, CustodyInvariant, PTL

(* Creates are sent by probes and recoveries alone.                        *)
LEMMA CreatesSent ==
    ASSUME IInv, Next, NEW x \in inflight' \ inflight
    PROVE  \E c \in Calls : /\ SendCreate(c)
                            /\ \/ calls[c].at = "probing"
                               \/ /\ calls[c].at = "recovering" /\ calls[c].op.id = 0
                                  /\ Existing(c)
<1>1. PICK c \in Calls : Step(c)
  BY DEF Next, JournalFails, Begin, Crash, CreateLands, OthersCreate, OthersChange
<1>2. Probe(c) \/ Recover(c)
  BY <1>1
  DEF Step, ReadinessFails, ReadinessDenies, ReadinessAllowsLink, ReadinessAllowsRecovery,
      ReadinessAllowsProbe, Link, CreateAcknowledged, CreateUnknown, CreateRefused,
      ReadCreated, ApplySettings, Reread
<1>3. CASE Probe(c)
  BY <1>3 DEF Probe
<1>4. CASE Recover(c)
  BY <1>4, RecoverySends DEF Recover
<1>. QED BY <1>2, <1>3, <1>4

(* After an acknowledgement nothing is created for the request, nor for a  *)
(* correction of it.                                                       *)
THEOREM NothingIsCreatedTwice == Spec => NoCreateAfterAcknowledgement
<1>1. ASSUME IInv, [Next]_vars
      PROVE  \A r \in Requests : (\E x \in inflight' \ inflight : x.id = r) =>
                /\ store[r].op.id = 0
                /\ ~IsCorrection(store'[r].request)
  <2>. SUFFICES ASSUME NEW r \in Requests, NEW x \in inflight' \ inflight, x.id = r
                PROVE  store[r].op.id = 0 /\ ~IsCorrection(store'[r].request)
    OBVIOUS
  <2>1. Next
    BY <1>1 DEF vars
  <2>2. PICK c \in Calls : /\ SendCreate(c)
                           /\ \/ calls[c].at = "probing"
                              \/ /\ calls[c].at = "recovering" /\ calls[c].op.id = 0
                                 /\ Existing(c)
    BY <1>1, <2>1, CreatesSent
  <2>3. PICK s : s = calls[c].sub
    OBVIOUS
  <2>4. /\ store[s.id].op.id = 0 /\ ~IsCorrection(s) /\ store'[s.id].request = s
        /\ \A y \in inflight' \ inflight : y.id = s.id
    BY <1>1, <2>2, <2>3, SendCreateKeeps
  <2>. QED BY <2>4
<1>. QED
  BY <1>1, CustodyInvariant, PTL DEF Spec, NoCreateAfterAcknowledgement

(* The settings of a repository of others are changed only by a call whose *)
(* own repository has lost the name.                                       *)
THEOREM SettingsOfOthersAreKept == Spec => OthersKeepTheirSettings
<1>1. ASSUME IInv, [Next]_vars
      PROVE  \A i \in Ids :
                repos[i].by = "others" /\ repos'[i].settings \notin {repos[i].settings, "partial"}
                => \E c \in Calls : /\ calls[c].op.id # 0
                                    /\ repos[calls[c].op.id].by \in Requests
                                    /\ repos[calls[c].op.id].place # "name"
  <2>. SUFFICES ASSUME NEW i \in Ids, repos[i].by = "others",
                       repos'[i].settings \notin {repos[i].settings, "partial"}
                PROVE  \E c \in Calls : /\ calls[c].op.id # 0
                                        /\ repos[calls[c].op.id].by \in Requests
                                        /\ repos[calls[c].op.id].place # "name"
    OBVIOUS
  <2>1. Next /\ repos' # repos
    BY <1>1 DEF vars
  <2>2. \A create \in inflight : ~CreateLands(create)
    BY <1>1, CreateLandsKeeps
  <2>3. ~OthersCreate /\ \A j \in Ids : ~OthersChange(j)
    BY <1>1, OthersCreateKeeps, OthersChangeKeeps
  <2>4. PICK c \in Calls : Step(c)
    BY <2>1, <2>2, <2>3 DEF Next, JournalFails, Begin, Crash
  <2>5. Probe(c) => UNCHANGED repos
    BY DEF Probe, SendCreate
  <2>6. Recover(c) => UNCHANGED repos
    BY DEF Recover, SendCreate
  <2>7. ApplySettings(c)
    BY <2>1, <2>4, <2>5, <2>6
    DEF Step, ReadinessFails, ReadinessDenies, ReadinessAllowsLink, ReadinessAllowsRecovery,
        ReadinessAllowsProbe, Link, CreateAcknowledged, CreateUnknown, CreateRefused,
        ReadCreated, Reread
  <2>8. calls[c].at = "patching" /\ Settle(calls[c].sub)
    BY <2>1, <2>7 DEF ApplySettings
  <2>9. i \in Named
    BY <2>8 DEF Settle
  <2>10. calls[c].op.id # 0 /\ calls[c].op.id \in Ids /\ repos[calls[c].op.id].by \in Requests
    BY <1>1, <2>8, WorkingFacts DEF IInv, CallOk, WorkInv, Working
  <2>11. calls[c].op.id \notin Named
    BY <1>1, <2>9, <2>10, NamesApart DEF IInv, ProviderInv
  <2>. QED BY <2>10, <2>11 DEF Named
<1>. QED
  BY <1>1, CustodyInvariant, PTL DEF Spec, OthersKeepTheirSettings

-----------------------------------------------------------------------------
(* Reviews in an owner's repository.  What the six workflows share is      *)
(* proved of OwnerReview; each of them is then shown to make its steps.    *)

(* Statuses before anything is prepared, and those of a request that goes  *)
(* on; the others are ends.                                                *)
Early == {"none", "accepted", "evaluating", "decision-required", "reconciling"}
Live == {"accepted", "evaluating", "decision-required", "reconciling", "preparing",
         "review-required", "cancelling", "pending-readback",
         "pending-runtime-disposition"}

Ends == CASE kind = "intake" -> Intake!Terminal
          [] kind = "inventory" -> Inventory!Terminal
          [] kind = "landing" -> Landing!Terminal
          [] kind = "maturity" -> Maturity!Terminal
          [] kind = "closure" -> Closure!Terminal
          [] kind = "target" -> Target!Terminal

(* An expired readiness, or a decision not to promote, ends a landing or a *)
(* maturity request and leaves its review as it is.                        *)
NothingOpenAt ==
    {"succeeded", "cancelled", "rejected", "denied", "failed", "stale"}
      \cup IF kind \in {"landing", "maturity"} THEN {}
           ELSE {"requires-action", "blocked"}

ReviewRecord(r) ==
    /\ DOMAIN r = {"status", "prepared", "review", "failed", "choice"}
    /\ r.prepared \in BOOLEAN
    /\ r.status \in {"none"} \cup Live \cup Ends
    /\ r.status \in {"succeeded", "pending-runtime-disposition"} => Review!MergedIsProven

(* What a record says of the review while no call has lost its lock.       *)
TellsTheReview(r) ==
    /\ r.status \in Early => ~r.prepared
    /\ ~r.prepared => source.review = "none"
    /\ r.status \in NothingOpenAt => source.review # "open"

ReviewCall(c) ==
    /\ DOMAIN call[c] = {"at", "action", "record", "then"}
    /\ ReviewRecord(call[c].record)
    /\ call[c].at \notin {"idle", "save"} => call[c].record.status \in Live
    /\ call[c].at = "save" /\ call[c].then = "run" => call[c].record.status \in Live
    /\ call[c].at = "publish" => call[c].record.status = "preparing"
    /\ call[c].at \in {"publish", "close"} => call[c].record.prepared
    /\ call[c].at = "acknowledged" => Review!MergedIsProven

(* The one call that works has the record as it is, until it writes.       *)
ReviewAlone(c) ==
    /\ call[c].at # "idle" => lock = c
    /\ call[c].at \notin {"idle", "save"} => call[c].record = journal
    /\ call[c].at = "save" =>
          /\ TellsTheReview(call[c].record)
          /\ call[c].record.status \in {"cancelled", "denied"} => source.review # "merged"

ReviewTypes ==
    /\ DOMAIN source = {"moved", "branch", "review", "proven", "acknowledged"}
    /\ DOMAIN faults = {"stops", "lost"} /\ faults.lost \in BOOLEAN
    /\ DOMAIN call = Calls

ReviewInv ==
    /\ ReviewTypes /\ ReviewRecord(journal)
    /\ \A c \in Calls : ReviewCall(c)
    /\ ~faults.lost => TellsTheReview(journal) /\ \A c \in Calls : ReviewAlone(c)


(* No call has begun.                                                      *)
LEMMA ReviewInit == kind \in Reviews /\ Review!Init => ReviewInv
  <1> SUFFICES ASSUME kind \in Reviews, Review!Init PROVE ReviewInv
    OBVIOUS
  <1>1. ReviewRecord(journal)
    BY DEF Review!Init, Review!NoRecord, Review!NewRecord, Review!None, ReviewRecord
  <1>2. ReviewTypes /\ source.review = "none"
    BY DEF Review!Init, Review!NoSource, Review!None, ReviewTypes
  <1>3. ASSUME NEW c \in Calls
        PROVE  call[c].at = "idle" /\ ReviewCall(c)
    <2>1. call[c] = Review!Idle
      BY DEF Review!Init
    <2>2. call[c].record = journal
      BY <2>1 DEF Review!Init, Review!Idle
    <2> QED
      BY <1>1, <2>1, <2>2 DEF Review!Idle, Review!None, ReviewCall
  <1>4. TellsTheReview(journal)
    BY <1>2 DEF Review!Init, Review!NoRecord, Review!NewRecord, Review!None, TellsTheReview,
                NothingOpenAt
  <1> QED
    BY <1>1, <1>2, <1>3, <1>4 DEF ReviewInv, ReviewAlone

(* The places of a call, and what a step changes of one.                   *)
LEMMA CallGoes ==
    ASSUME DOMAIN call = Calls, NEW c \in Calls, NEW next, Review!Go(c, next)
    PROVE  /\ DOMAIN call' = Calls /\ call'[c] = next
           /\ \A b \in Calls : b # c => call'[b] = call[b]
  BY DEF Review!Go

(* A step of one call keeps the invariant if it keeps it for that call and *)
(* undoes no merge.                                                        *)
LEMMA ReviewKept ==
    ASSUME kind \in Reviews, ReviewInv, NEW c \in Calls, UNCHANGED kind,
           ReviewTypes', ReviewRecord(journal)', ReviewCall(c)',
           \A b \in Calls : b # c => call'[b] = call[b],
           Review!MergedIsProven => Review!MergedIsProven',
           ~faults'.lost => /\ ~faults.lost
                            /\ \A b \in Calls : b # c => call[b].at = "idle"
                            /\ TellsTheReview(journal)' /\ ReviewAlone(c)'
    PROVE  ReviewInv'
  <1>1. \A r : ReviewRecord(r) => ReviewRecord(r)'
    BY DEF ReviewRecord, Ends
  <1>2. ASSUME NEW b \in Calls PROVE ReviewCall(b)'
    <2>1. CASE b = c
      BY <2>1
    <2>2. CASE b # c
      <3>1. call'[b] = call[b] /\ ReviewCall(b)
        BY <2>2 DEF ReviewInv
      <3> QED
        BY <1>1, <3>1 DEF ReviewCall
    <2> QED
      BY <2>1, <2>2
  <1>3. ASSUME ~faults'.lost, NEW b \in Calls PROVE ReviewAlone(b)'
    <2>1. CASE b = c
      BY <1>3, <2>1
    <2>2. CASE b # c
      BY <1>3, <2>2 DEF ReviewAlone
    <2> QED
      BY <2>1, <2>2
  <1> QED
    BY <1>2, <1>3 DEF ReviewInv

(* While no lock is lost, nobody else is at work beside a call at work, or *)
(* when a call finds the lock free.                                        *)
LEMMA OthersIdle ==
    ASSUME ReviewInv, ~faults.lost, NEW c \in Calls, call[c].at # "idle" \/ lock = Review!None
    PROVE  \A b \in Calls : b # c => call[b].at = "idle"
  BY CallsAssumption DEF ReviewInv, ReviewAlone, Review!None

(* A step of one call that leaves the repository alone.                    *)
LEMMA CallKeeps ==
    ASSUME kind \in Reviews, ReviewInv, NEW c \in Calls, NEW next, Review!Go(c, next),
           UNCHANGED <<kind, source, faults>>,
           DOMAIN next = {"at", "action", "record", "then"},
           ReviewRecord(next.record), ReviewRecord(journal'),
           next.at \notin {"idle", "save"} => next.record.status \in Live,
           next.at = "save" /\ next.then = "run" => next.record.status \in Live,
           next.at = "publish" => next.record.status = "preparing",
           next.at \in {"publish", "close"} => next.record.prepared,
           next.at = "acknowledged" => Review!MergedIsProven,
           call[c].at # "idle" \/ lock = Review!None,
           ~faults.lost =>
              /\ TellsTheReview(journal')
              /\ next.at # "idle" => lock' = c
              /\ next.at \notin {"idle", "save"} => next.record = journal'
              /\ next.at = "save" =>
                    /\ TellsTheReview(next.record)
                    /\ next.record.status \in {"cancelled", "denied"}
                          => source.review # "merged"
    PROVE  ReviewInv'
  <1>1. /\ DOMAIN call' = Calls /\ call'[c] = next
        /\ \A b \in Calls : b # c => call'[b] = call[b]
    BY CallGoes DEF ReviewInv, ReviewTypes
  <1>2. Review!MergedIsProven <=> Review!MergedIsProven'
    BY DEF Review!MergedIsProven, Review!HeadIsPrepared
  <1>3. /\ \A r : ReviewRecord(r) => ReviewRecord(r)'
        /\ \A r : TellsTheReview(r) => TellsTheReview(r)'
    BY <1>2 DEF ReviewRecord, Ends, TellsTheReview, NothingOpenAt
  <1>4. ReviewTypes'
    BY <1>1 DEF ReviewInv, ReviewTypes
  <1>5. ReviewCall(c)'
    BY <1>1, <1>2, <1>3 DEF ReviewCall
  <1>6. ReviewRecord(journal)'
    BY <1>3
  <1>7. ~faults'.lost => /\ ~faults.lost
                         /\ \A b \in Calls : b # c => call[b].at = "idle"
                         /\ TellsTheReview(journal)' /\ ReviewAlone(c)'
    <2> SUFFICES ASSUME ~faults'.lost PROVE ~faults.lost
                         /\ (\A b \in Calls : b # c => call[b].at = "idle")
                         /\ TellsTheReview(journal)' /\ ReviewAlone(c)'
      OBVIOUS
    <2>1. \A b \in Calls : b # c => call[b].at = "idle"
      BY OthersIdle
    <2> QED
      BY <1>1, <1>3, <2>1 DEF ReviewAlone
  <1> QED
    BY <1>1, <1>2, <1>4, <1>5, <1>6, <1>7, ReviewKept

(* What a call comes to write, from its work on the record.                *)
Fits(r, then) ==
    /\ ReviewRecord(r)
    /\ then = "run" => r.status \in Live
    /\ ~faults.lost => /\ TellsTheReview(r)
                       /\ r.status \in {"cancelled", "denied"} => source.review # "merged"

(* What a call knows of its copy while it works.                           *)
LEMMA AtWork ==
    ASSUME ReviewInv, NEW c \in Calls, call[c].at \notin {"idle", "save"}
    PROVE  /\ ReviewRecord(Review!Copy(c)) /\ Review!Copy(c).status \in Live
           /\ DOMAIN call[c] = {"at", "action", "record", "then"}
           /\ ~faults.lost => /\ TellsTheReview(Review!Copy(c)) /\ TellsTheReview(journal)
                              /\ lock = c /\ Review!Copy(c) = journal
  BY DEF ReviewInv, ReviewCall, ReviewAlone, Review!Copy

(* It goes on to write what fits.                                          *)
LEMMA SavingKeeps ==
    ASSUME kind \in Reviews, ReviewInv, NEW c \in Calls, NEW r, NEW then,
           call[c].at \notin {"idle", "save"}, Fits(r, then), Review!Saving(c, r, then),
           UNCHANGED <<kind, source, journal, lock, faults>>
    PROVE  ReviewInv'
  <1> DEFINE next == [at |-> "save", record |-> r, then |-> then,
                      action |-> IF then = "end" THEN Review!None ELSE call[c].action]
  <1>1. Review!Go(c, next)
    BY DEF Review!Saving
  <1>2. DOMAIN next = {"at", "action", "record", "then"} /\ next.at = "save"
        /\ next.record = r /\ next.then = then
    OBVIOUS
  <1> HIDE DEF next
  <1>3. ReviewRecord(journal') /\ (~faults.lost => TellsTheReview(journal') /\ lock' = c)
    BY AtWork DEF ReviewInv
  <1> QED
    BY <1>1, <1>2, <1>3, CallKeeps DEF Fits

(* A call that enters its next save, with a copy that fits it.             *)
LEMMA StepKeeps ==
    ASSUME kind \in Reviews, ReviewInv, UNCHANGED kind, NEW c \in Calls,
           NEW r, NEW then, NEW status, Review!Step(c, status, r, then), Fits(r, then)
    PROVE  ReviewInv'
  BY SavingKeeps DEF Review!Step, Review!Running

(* A copy that has moved to another status, or failed.                     *)
LEMMA MovedTo ==
    ASSUME NEW r, ReviewRecord(r), NEW status, status \in Live \cup Ends,
           status \in {"succeeded", "pending-runtime-disposition"} => Review!MergedIsProven
    PROVE  /\ ReviewRecord(Review!Moved(r, status))
           /\ Review!Moved(r, status).status = status
           /\ Review!Moved(r, status).prepared = r.prepared
           /\ ReviewRecord([Review!Moved(r, status) EXCEPT !.review = TRUE])
           /\ [Review!Moved(r, status) EXCEPT !.review = TRUE].status = status
           /\ [Review!Moved(r, status) EXCEPT !.review = TRUE].prepared = r.prepared
  BY DEF ReviewRecord, Review!Moved

(* A copy that has failed, or whose source is prepared.                    *)
LEMMA Changed ==
    ASSUME NEW r, ReviewRecord(r)
    PROVE  /\ ReviewRecord([r EXCEPT !.failed = TRUE])
           /\ [r EXCEPT !.failed = TRUE].status = r.status
           /\ [r EXCEPT !.failed = TRUE].prepared = r.prepared
           /\ ReviewRecord([r EXCEPT !.prepared = TRUE])
           /\ [r EXCEPT !.prepared = TRUE].status = r.status
           /\ [r EXCEPT !.prepared = TRUE].prepared
  BY DEF ReviewRecord

(* A call begins, with a record that goes on or with a new one.            *)
LEMMA BeginsKeep ==
    ASSUME kind \in Reviews, ReviewInv, UNCHANGED kind, NEW c \in Calls
    PROVE  /\ \A action : journal.status \in Live /\ Review!Begin(c, action) => ReviewInv'
           /\ \A choice : ~journal.prepared /\ Review!Accept(c, choice) => ReviewInv'
  <1>1. ASSUME NEW action, journal.status \in Live, Review!Begin(c, action)
        PROVE  ReviewInv'
    <2> DEFINE next == [at |-> "run", action |-> action, record |-> journal,
                        then |-> Review!None]
    <2>1. DOMAIN next = {"at", "action", "record", "then"} /\ next.at = "run"
          /\ next.record = journal
      OBVIOUS
    <2>2. Review!Go(c, next) /\ lock = Review!None /\ lock' = c
          /\ UNCHANGED <<source, journal, faults>>
      BY <1>1 DEF Review!Begin
    <2> HIDE DEF next
    <2> QED
      BY <1>1, <2>1, <2>2, CallKeeps DEF ReviewInv
  <1>2. ASSUME NEW choice, ~journal.prepared, Review!Accept(c, choice)
        PROVE  ReviewInv'
    <2> DEFINE new == Review!NewRecord(choice)
               next == [at |-> "save", action |-> Review!None, record |-> new, then |-> "end"]
    <2>1. ReviewRecord(new) /\ new.status = "accepted" /\ ~new.prepared
      BY DEF Review!NewRecord, ReviewRecord, Live
    <2>2. TellsTheReview(journal) => TellsTheReview(new)
      BY <1>2, <2>1 DEF TellsTheReview, NothingOpenAt
    <2> HIDE DEF new
    <2>3. DOMAIN next = {"at", "action", "record", "then"} /\ next.at = "save"
          /\ next.record = new /\ next.then = "end"
      OBVIOUS
    <2>4. Review!Go(c, next) /\ lock = Review!None /\ lock' = c
          /\ UNCHANGED <<source, journal, faults>>
      BY <1>2 DEF Review!Accept, new
    <2> HIDE DEF next
    <2> QED
      BY <2>1, <2>2, <2>3, <2>4, CallKeeps DEF ReviewInv
  <1> QED
    BY <1>1, <1>2

(* A call that ends, whatever it has written or met.                       *)
LEMMA EndKeeps ==
    ASSUME kind \in Reviews, ReviewInv, NEW c \in Calls, call[c].at # "idle", Review!End(c),
           UNCHANGED <<kind, source, faults>>, ReviewRecord(journal'),
           ~faults.lost => TellsTheReview(journal')
    PROVE  ReviewInv'
  <1>1. /\ DOMAIN Review!Idle = {"at", "action", "record", "then"} /\ Review!Idle.at = "idle"
        /\ ReviewRecord(Review!Idle.record)
    BY DEF Review!Idle, Review!NoRecord, Review!NewRecord, Review!None, ReviewRecord
  <1>2. Review!Go(c, Review!Idle)
    BY DEF Review!End
  <1> QED
    BY <1>1, <1>2, CallKeeps

(* put writes the copy, and the call ends or goes on with what it wrote.   *)
LEMMA SaveKeeps ==
    ASSUME kind \in Reviews, ReviewInv, UNCHANGED kind, NEW c \in Calls, Review!Save(c)
    PROVE  ReviewInv'
  <1>1. /\ call[c].at = "save" /\ ReviewCall(c) /\ ReviewRecord(journal)
        /\ ~faults.lost => ReviewAlone(c) /\ TellsTheReview(journal)
        /\ UNCHANGED <<source, faults>>
    BY DEF Review!Save, Review!Running, ReviewInv
  <1>2. /\ ReviewRecord(journal')
        /\ ~faults.lost => TellsTheReview(journal') /\ journal' = call[c].record
        /\ lock = c => journal' = call[c].record
    BY <1>1 DEF Review!Save, Review!Copy, ReviewCall, ReviewAlone
  <1>3. CASE lock = c /\ call[c].then = "run"
    <2> DEFINE next == [call[c] EXCEPT !.at = "run"]
    <2>1. DOMAIN next = {"at", "action", "record", "then"} /\ next.at = "run"
          /\ next.record = call[c].record /\ next.then = "run"
      BY <1>1, <1>3 DEF ReviewCall
    <2>2. Review!Go(c, next) /\ lock' = c
      BY <1>3 DEF Review!Save
    <2> HIDE DEF next
    <2>3. next.record.status \in Live /\ ReviewRecord(next.record)
      BY <1>1, <1>3, <2>1 DEF ReviewCall
    <2> QED
      BY <1>1, <1>2, <1>3, <2>1, <2>2, <2>3, CallKeeps
  <1>4. CASE ~(lock = c /\ call[c].then = "run")
    <2>1. Review!End(c)
      BY <1>4 DEF Review!Save
    <2> QED
      BY <1>1, <1>2, <2>1, EndKeeps
  <1> QED
    BY <1>3, <1>4

(* A dependency fails, or the call stops.                                  *)
LEMMA InterruptedKeeps ==
    ASSUME kind \in Reviews, ReviewInv, UNCHANGED kind, NEW c \in Calls,
           Review!Interrupted(c)
    PROVE  ReviewInv'
  <1>1. CASE Review!DependencyFails(c)
    <2>1. call[c].at \notin {"idle", "save"}
      BY <1>1 DEF Review!DependencyFails
    <2> DEFINE r == [Review!Copy(c) EXCEPT !.failed = TRUE]
    <2>2. r.status = Review!Copy(c).status /\ r.prepared = Review!Copy(c).prepared
          /\ ReviewRecord(r)
      BY <2>1, AtWork DEF ReviewRecord
    <2>3. Fits(r, "end")
      BY <2>1, <2>2, AtWork DEF Fits, TellsTheReview, Live
    <2>4. Review!Saving(c, r, "end") /\ UNCHANGED <<source, journal, lock, faults>>
      BY <1>1 DEF Review!DependencyFails, Review!Failing
    <2> HIDE DEF r
    <2> QED
      BY <2>1, <2>3, <2>4, SavingKeeps
  <1>2. CASE Review!CallStops(c)
    <2>1. /\ call[c].at # "idle" /\ Review!Go(c, Review!Idle)
          /\ UNCHANGED <<source, journal>> /\ faults' = [faults EXCEPT !.stops = @ + 1]
      BY <1>2 DEF Review!CallStops, Review!Running, Review!End
    <2>2. DOMAIN faults' = {"stops", "lost"} /\ faults'.lost = faults.lost
      BY <2>1 DEF ReviewInv, ReviewTypes
    <2>3. /\ DOMAIN call' = Calls /\ call'[c] = Review!Idle
          /\ \A b \in Calls : b # c => call'[b] = call[b]
      BY <2>1, CallGoes DEF ReviewInv, ReviewTypes
    <2>4. Review!MergedIsProven <=> Review!MergedIsProven'
      BY <2>1 DEF Review!MergedIsProven, Review!HeadIsPrepared
    <2>5. \A r : (ReviewRecord(r) <=> ReviewRecord(r)') /\ (TellsTheReview(r) <=> TellsTheReview(r)')
      BY <2>1, <2>4 DEF ReviewRecord, Ends, TellsTheReview, NothingOpenAt
    <2>6. ReviewRecord(Review!Idle.record)
      BY DEF Review!Idle, Review!NoRecord, Review!NewRecord, Review!None, ReviewRecord
    <2>7. ReviewCall(c)'
      BY <2>3, <2>5, <2>6 DEF ReviewCall, Review!Idle
    <2>8. ReviewTypes' /\ ReviewRecord(journal)'
      BY <2>1, <2>2, <2>3, <2>5 DEF ReviewInv, ReviewTypes
    <2>9. ~faults'.lost => TellsTheReview(journal)' /\ ReviewAlone(c)'
      BY <2>1, <2>2, <2>3, <2>5 DEF ReviewInv, ReviewAlone, Review!Idle
    <2>10. ~faults.lost => \A b \in Calls : b # c => call[b].at = "idle"
      BY <2>1, OthersIdle
    <2> QED
      BY <2>2, <2>3, <2>4, <2>7, <2>8, <2>9, <2>10, ReviewKept
  <1> QED
    BY <1>1, <1>2 DEF Review!Interrupted

(* Others: main moves, a branch is pushed to, a person ends the review, a  *)
(* lock is lost.                                                           *)
LEMMA OutsideKeeps ==
    ASSUME kind \in Reviews, ReviewInv, UNCHANGED kind, Review!Outside
    PROVE  ReviewInv'
  <1>1. CASE Review!LockIsLost
    <2>1. faults'.lost /\ DOMAIN faults' = {"stops", "lost"} /\ faults'.lost \in BOOLEAN
          /\ UNCHANGED <<source, journal, call>>
      BY <1>1 DEF Review!LockIsLost, ReviewInv, ReviewTypes
    <2>2. Review!MergedIsProven <=> Review!MergedIsProven'
      BY <2>1 DEF Review!MergedIsProven, Review!HeadIsPrepared
    <2>3. \A r : ReviewRecord(r) <=> ReviewRecord(r)'
      BY <2>1, <2>2 DEF ReviewRecord, Ends
    <2> QED
      BY <2>1, <2>2, <2>3 DEF ReviewInv, ReviewTypes, ReviewCall
  <1>2. CASE Review!MainMoves \/ Review!BranchChanges \/ Review!ReviewEnds
    <2>1. UNCHANGED <<journal, lock, call, faults>>
      BY <1>2 DEF Review!MainMoves, Review!BranchChanges, Review!ReviewEnds
    <2>2. DOMAIN source' = DOMAIN source
      BY <1>2 DEF Review!MainMoves, Review!BranchChanges, Review!ReviewEnds
    <2>3. \/ source'.review = source.review
          \/ source.review = "open" /\ source'.review \in {"merged", "closed"}
      BY <1>2 DEF Review!MainMoves, Review!BranchChanges, Review!ReviewEnds, ReviewInv,
                  ReviewTypes
    <2>4. Review!MergedIsProven => Review!MergedIsProven'
      BY <1>2 DEF Review!MainMoves, Review!BranchChanges, Review!ReviewEnds, ReviewInv,
                  ReviewTypes, Review!MergedIsProven, Review!HeadIsPrepared, Review!None
    <2>5. \A r : ReviewRecord(r) => ReviewRecord(r)'
      BY <2>4 DEF ReviewRecord, Ends
    <2>6. \A r : TellsTheReview(r) => TellsTheReview(r)'
      BY <2>3 DEF TellsTheReview, NothingOpenAt
    <2>7. ASSUME NEW c \in Calls, ReviewAlone(c), ~faults.lost PROVE ReviewAlone(c)'
      <3>1. call[c].at = "save" /\ call[c].record.status \in {"cancelled", "denied"}
               => source.review # "open"
        BY <2>7 DEF ReviewAlone, TellsTheReview, NothingOpenAt
      <3> QED
        BY <2>1, <2>3, <2>6, <2>7, <3>1 DEF ReviewAlone
    <2>8. ASSUME NEW c \in Calls, ReviewCall(c) PROVE ReviewCall(c)'
      BY <2>1, <2>4, <2>5, <2>8 DEF ReviewCall
    <2> QED
      BY <2>1, <2>2, <2>5, <2>6, <2>7, <2>8 DEF ReviewInv, ReviewTypes
  <1> QED
    BY <1>1, <1>2 DEF Review!Outside

(* A step in the call's work that leaves the record as it is.              *)
LEMMA GoesOn ==
    ASSUME kind \in Reviews, ReviewInv, NEW c \in Calls,
           call[c].at \notin {"idle", "save"}, NEW at \in {"publish", "close"},
           at = "publish" => call[c].record.status = "preparing", call[c].record.prepared,
           Review!Go(c, [call[c] EXCEPT !.at = at]),
           UNCHANGED <<kind, source, journal, lock, faults>>
    PROVE  ReviewInv'
  <1> DEFINE next == [call[c] EXCEPT !.at = at]
  <1>1. DOMAIN next = {"at", "action", "record", "then"} /\ next.at = at
        /\ next.record = call[c].record
    BY AtWork
  <1> HIDE DEF next
  <1>2. ReviewRecord(next.record) /\ next.record.status \in Live /\ ReviewRecord(journal')
        /\ (~faults.lost => TellsTheReview(journal') /\ lock' = c /\ next.record = journal')
    BY <1>1, AtWork DEF ReviewInv, Review!Copy
  <1> QED
    BY <1>1, <1>2, CallKeeps DEF next

(* The source is prepared, and its change is published.                    *)
LEMMA PublishKeeps ==
    ASSUME kind \in Reviews, ReviewInv, UNCHANGED kind, NEW c \in Calls,
           Review!PrepareSource(c) \/ Review!Publishing(c)
    PROVE  ReviewInv'
  <1> DEFINE copy == Review!Copy(c)
             taken == [Review!Moved(copy, "review-required") EXCEPT !.review = TRUE]
             failed == [copy EXCEPT !.failed = TRUE]
  <1>1. ASSUME call[c].at \notin {"idle", "save"}, copy.prepared
        PROVE  Fits(taken, "end") /\ Fits(failed, "end")
               /\ taken.status = "review-required" /\ taken.prepared
               /\ failed.status = copy.status /\ failed.prepared
    <2>1. /\ ReviewRecord(taken) /\ taken.status = "review-required" /\ taken.prepared
          /\ ReviewRecord(failed) /\ failed.status = copy.status /\ failed.prepared
      <3>1. ReviewRecord(copy) /\ "review-required" \in Live \cup Ends
        BY <1>1, AtWork DEF Live
      <3> HIDE DEF copy
      <3>2. ReviewRecord(taken) /\ taken.status = "review-required" /\ taken.prepared = copy.prepared
        BY <3>1, MovedTo
      <3>3. ReviewRecord(failed) /\ failed.status = copy.status /\ failed.prepared = copy.prepared
        BY <3>1, Changed
      <3> QED
        BY <1>1, <3>2, <3>3
    <2> HIDE DEF taken, failed
    <2> QED
      BY <1>1, <2>1, AtWork DEF Fits, TellsTheReview, Early, NothingOpenAt, Live
  <1>2. CASE Review!PrepareSource(c)
    <2> DEFINE r == [copy EXCEPT !.prepared = TRUE]
    <2>1. Review!Step(c, "preparing", r, "run") /\ call[c].at \notin {"idle", "save"}
          /\ copy.status = "preparing"
      BY <1>2 DEF Review!PrepareSource, Review!Step, Review!Running
    <2>2. ReviewRecord(r) /\ r.status = "preparing" /\ r.prepared
      BY <2>1, AtWork, Changed
    <2> HIDE DEF r, copy
    <2>3. Fits(r, "run")
      BY <2>2 DEF Fits, TellsTheReview, Early, Live, NothingOpenAt
    <2> QED
      BY <2>1, <2>3, StepKeeps
  <1>3. CASE Review!TakeReview(c)
    <2>1. call[c].at = "run" /\ copy.prepared /\ Review!Saving(c, taken, "end")
          /\ UNCHANGED <<source, journal, lock, faults>>
      BY <1>3 DEF Review!TakeReview, Review!Prepared, Review!Running
    <2> HIDE DEF taken, failed
    <2> QED
      BY <1>1, <2>1, SavingKeeps
  <1>4. CASE Review!MakeBranch(c)
    <2>1. /\ call[c].at = "run" /\ copy.prepared /\ copy.status = "preparing"
          /\ Review!Go(c, [call[c] EXCEPT !.at = "publish"])
          /\ UNCHANGED <<journal, lock, faults>>
          /\ ~Review!Found
      BY <1>4 DEF Review!MakeBranch, Review!Prepared, Review!Running
    <2>2. CASE UNCHANGED source
      BY <2>1, <2>2, GoesOn DEF Review!Copy
    <2>3. CASE source' = [source EXCEPT !.branch = "prepared"]
      <3>1. ReviewTypes' /\ source'.review = source.review
        BY <2>1, <2>3, CallGoes DEF ReviewInv, ReviewTypes
      <3>2. ~Review!MergedIsProven
        BY <2>1 DEF Review!Found, Review!MergedIsProven, Review!None
      <3>3. \A r : /\ ReviewRecord(r) => ReviewRecord(r)'
                   /\ TellsTheReview(r) => TellsTheReview(r)'
        BY <3>1, <3>2 DEF ReviewRecord, Ends, TellsTheReview, NothingOpenAt
      <3> DEFINE next == [call[c] EXCEPT !.at = "publish"]
      <3>4. DOMAIN next = {"at", "action", "record", "then"} /\ next.at = "publish"
            /\ next.record = copy
        BY <2>1, AtWork DEF Review!Copy
      <3>5. /\ call'[c] = next /\ \A b \in Calls : b # c => call'[b] = call[b]
        BY <2>1, CallGoes DEF ReviewInv, ReviewTypes
      <3> HIDE DEF next
      <3>6. ReviewCall(c)'
        BY <2>1, <3>3, <3>4, <3>5, AtWork DEF ReviewCall
      <3>7. ~faults'.lost => /\ ~faults.lost
                             /\ \A b \in Calls : b # c => call[b].at = "idle"
                             /\ TellsTheReview(journal)' /\ ReviewAlone(c)'
        <4> SUFFICES ASSUME ~faults'.lost
                     PROVE  /\ ~faults.lost
                            /\ \A b \in Calls : b # c => call[b].at = "idle"
                            /\ TellsTheReview(journal)' /\ ReviewAlone(c)'
          OBVIOUS
        <4>1. ~faults.lost /\ lock' = c /\ journal' = copy /\ TellsTheReview(journal)
          BY <2>1, AtWork
        <4>2. \A b \in Calls : b # c => call[b].at = "idle"
          BY <2>1, <4>1, OthersIdle
        <4>3. TellsTheReview(journal)'
          BY <2>1, <3>3, <4>1
        <4> QED
          BY <3>4, <3>5, <4>1, <4>2, <4>3 DEF ReviewAlone
      <3>8. ReviewRecord(journal)'
        BY <2>1, <3>3 DEF ReviewInv
      <3> QED
        BY <3>1, <3>2, <3>5, <3>6, <3>7, <3>8, ReviewKept
    <2> QED
      BY <1>4, <2>2, <2>3 DEF Review!MakeBranch
  <1>5. CASE Review!OpenReview(c)
    <2>1. /\ call[c].at = "publish" /\ source.review \in {"none", "closed"}
          /\ source' = [source EXCEPT !.review = "open"]
          /\ UNCHANGED <<journal, lock, faults>>
          /\ Review!Saving(c, taken, "end") \/ Review!Saving(c, failed, "end")
      BY <1>5 DEF Review!OpenReview, Review!Running, Review!None, Review!Failing
    <2>2. copy.status = "preparing" /\ copy.prepared /\ call[c].at \notin {"idle", "save"}
      BY <2>1 DEF ReviewInv, ReviewCall, Review!Copy
    <2>3. PICK r : Review!Saving(c, r, "end") /\ Fits(r, "end") /\ r.prepared
                   /\ r.status \in {"review-required", "preparing"}
      <3> HIDE DEF taken, failed
      <3> QED
        BY <1>1, <2>1, <2>2
    <2>4. ReviewTypes' /\ source'.review = "open"
      BY <2>1, CallGoes DEF ReviewInv, ReviewTypes, Review!Saving
    <2>5. ~Review!MergedIsProven
      BY <2>1 DEF Review!MergedIsProven
    <2>6. \A x : /\ ReviewRecord(x) => ReviewRecord(x)'
                 /\ x.prepared /\ x.status \in {"preparing", "review-required"}
                       => TellsTheReview(x)'
      BY <2>4, <2>5 DEF ReviewRecord, Ends, TellsTheReview, Early, NothingOpenAt
    <2> DEFINE next == [at |-> "save", record |-> r, then |-> "end", action |-> Review!None]
    <2>7. DOMAIN next = {"at", "action", "record", "then"} /\ next.at = "save"
          /\ next.record = r /\ next.then = "end"
      OBVIOUS
    <2>8. Review!Go(c, next)
      BY <2>3 DEF Review!Saving
    <2>9. /\ call'[c] = next /\ \A b \in Calls : b # c => call'[b] = call[b]
      BY <2>8, CallGoes DEF ReviewInv, ReviewTypes
    <2> HIDE DEF next
    <2>10. ReviewCall(c)'
      BY <2>3, <2>6, <2>7, <2>9 DEF ReviewCall, Fits
    <2>11. ~faults'.lost => /\ ~faults.lost
                            /\ \A b \in Calls : b # c => call[b].at = "idle"
                            /\ TellsTheReview(journal)' /\ ReviewAlone(c)'
      <3> SUFFICES ASSUME ~faults'.lost
                   PROVE  /\ ~faults.lost
                          /\ \A b \in Calls : b # c => call[b].at = "idle"
                          /\ TellsTheReview(journal)' /\ ReviewAlone(c)'
        OBVIOUS
      <3>1. ~faults.lost /\ lock' = c /\ journal' = copy
        BY <2>1, <2>2, AtWork
      <3>2. \A b \in Calls : b # c => call[b].at = "idle"
        BY <2>2, <3>1, OthersIdle
      <3>3. TellsTheReview(journal)'
        BY <2>2, <2>6, <3>1
      <3>4. TellsTheReview(r)'
        BY <2>3, <2>6
      <3> QED
        BY <2>3, <2>7, <2>9, <3>1, <3>2, <3>3, <3>4 DEF ReviewAlone
    <2>12. ReviewRecord(journal)'
      BY <2>1, <2>6 DEF ReviewInv
    <2> QED
      BY <2>4, <2>5, <2>9, <2>10, <2>11, <2>12, ReviewKept
  <1> QED
    BY <1>2, <1>3, <1>4, <1>5 DEF Review!Publishing

(* A copy moves to a status that the review allows.                        *)
LEMMA MovesKeep ==
    ASSUME kind \in Reviews, ReviewInv, UNCHANGED kind, NEW c \in Calls,
           NEW status, NEW next \in Live \cup Ends, NEW then,
           Review!Step(c, status, Review!Moved(Review!Copy(c), next), then),
           then = "run" => next \in Live,
           next \in Early => status \in Early,
           next \in {"succeeded", "pending-runtime-disposition"} => Review!MergedIsProven,
           next \in NothingOpenAt => status \in Early \/ source.review # "open",
           next \in {"cancelled", "denied"} => status \in Early \/ source.review # "merged"
    PROVE  ReviewInv'
  <1> DEFINE copy == Review!Copy(c)
             r == Review!Moved(copy, next)
  <1>1. call[c].at = "run" /\ copy.status = status
    BY DEF Review!Step, Review!Running
  <1>2. /\ ReviewRecord(copy)
        /\ ~faults.lost => TellsTheReview(copy)
    BY <1>1, AtWork
  <1>3. ReviewRecord(r) /\ r.status = next /\ r.prepared = copy.prepared
    <2> HIDE DEF copy
    <2> QED
      BY <1>2, MovedTo
  <1> HIDE DEF r, copy
  <1>4. Fits(r, then)
    BY <1>1, <1>2, <1>3 DEF Fits, TellsTheReview
  <1> QED
    BY <1>4, StepKeeps DEF r, copy

(* A copy moves to an end that a look at the review has found, and takes   *)
(* the review for its own or does not.                                     *)
LEMMA EndsKeep ==
    ASSUME kind \in Reviews, ReviewInv, UNCHANGED kind, NEW c \in Calls,
           call[c].at \notin {"idle", "save"},
           NEW next \in Live \cup Ends, next \notin Early, NEW r,
           r \in {Review!Moved(Review!Copy(c), next),
                  [Review!Moved(Review!Copy(c), next) EXCEPT !.review = TRUE]},
           Review!Saving(c, r, "end"), UNCHANGED <<source, journal, lock, faults>>,
           next \in {"succeeded", "pending-runtime-disposition"} => Review!MergedIsProven,
           next \in NothingOpenAt => source.review # "open",
           next \in {"cancelled", "denied"} => source.review # "merged"
    PROVE  ReviewInv'
  <1> DEFINE copy == Review!Copy(c)
  <1>1. /\ ReviewRecord(copy)
        /\ ~faults.lost => TellsTheReview(copy)
    BY AtWork
  <1> HIDE DEF copy
  <1>2. ReviewRecord(r) /\ r.status = next /\ r.prepared = copy.prepared
    <2>1. \/ r = Review!Moved(copy, next)
          \/ r = [Review!Moved(copy, next) EXCEPT !.review = TRUE]
      BY DEF copy
    <2>2. LET moved == Review!Moved(copy, next)
              taken == [moved EXCEPT !.review = TRUE]
          IN  /\ ReviewRecord(moved) /\ moved.status = next /\ moved.prepared = copy.prepared
              /\ ReviewRecord(taken) /\ taken.status = next /\ taken.prepared = copy.prepared
      BY <1>1, MovedTo
    <2> QED
      BY <2>1, <2>2
  <1>3. Fits(r, "end")
    BY <1>1, <1>2 DEF Fits, TellsTheReview
  <1> QED
    BY <1>3, SavingKeeps

(* A cancel is written down, and closes the review or finds none.          *)
LEMMA CancelKeeps ==
    ASSUME kind \in Reviews, ReviewInv, UNCHANGED kind, NEW c \in Calls,
           NEW next \in {"cancelled", "denied"} \cap Ends,
           (\E keeping : Review!Cancelling(c, keeping)) \/ Review!Closing(c, next)
    PROVE  ReviewInv'
  <1> DEFINE copy == Review!Copy(c)
  <1>1. ASSUME NEW keeping, Review!Cancelling(c, keeping) PROVE ReviewInv'
    <2>1. Review!Step(c, copy.status, Review!Moved(copy, "cancelling"), "run")
      BY <1>1 DEF Review!Cancelling
    <2> QED
      BY <2>1, MovesKeep DEF Live, Early, NothingOpenAt
  <1>2. CASE Review!CancelUnpublished(c, next)
    <2>1. Review!Step(c, "cancelling", Review!Moved(copy, next), "end") /\ source.review = "none"
      BY <1>2 DEF Review!CancelUnpublished, Review!ReviewToCancel, Review!Found, Review!None
    <2> QED
      BY <2>1, MovesKeep DEF Early
  <1>3. CASE Review!BeginClose(c)
    <2>1. call[c].at = "run" /\ copy.prepared
          /\ Review!Go(c, [call[c] EXCEPT !.at = "close"])
          /\ UNCHANGED <<source, journal, lock, faults>>
      BY <1>3 DEF Review!BeginClose, Review!Running
    <2> QED
      BY <2>1, GoesOn DEF Review!Copy
  <1>4. CASE Review!CloseReview(c)
    <2>1. /\ call[c].at = "close" /\ source.review # "merged"
          /\ source' = [source EXCEPT !.review = "closed"]
          /\ Review!Go(c, [call[c] EXCEPT !.at = "observe-closed"])
          /\ UNCHANGED <<journal, lock, faults>>
      BY <1>4 DEF Review!CloseReview, Review!Running
    <2>2. ReviewTypes' /\ source'.review = "closed"
      BY <2>1, CallGoes DEF ReviewInv, ReviewTypes
    <2>3. ~Review!MergedIsProven
      BY <2>1 DEF Review!MergedIsProven
    <2>4. \A x : /\ ReviewRecord(x) => ReviewRecord(x)'
                 /\ x.prepared /\ TellsTheReview(x) => TellsTheReview(x)'
      BY <2>2, <2>3 DEF ReviewRecord, Ends, TellsTheReview, NothingOpenAt
    <2> DEFINE go == [call[c] EXCEPT !.at = "observe-closed"]
    <2>5. DOMAIN go = {"at", "action", "record", "then"} /\ go.at = "observe-closed"
          /\ go.record = copy
      BY <2>1, AtWork DEF Review!Copy
    <2>6. /\ call'[c] = go /\ \A b \in Calls : b # c => call'[b] = call[b]
      BY <2>1, CallGoes DEF ReviewInv, ReviewTypes
    <2> HIDE DEF go
    <2>7. copy.prepared
      BY <2>1 DEF ReviewInv, ReviewCall, Review!Copy
    <2>8. ReviewCall(c)'
      BY <2>1, <2>4, <2>5, <2>6, AtWork DEF ReviewCall
    <2>9. ~faults'.lost => /\ ~faults.lost
                           /\ \A b \in Calls : b # c => call[b].at = "idle"
                           /\ TellsTheReview(journal)' /\ ReviewAlone(c)'
      <3> SUFFICES ASSUME ~faults'.lost
                   PROVE  /\ ~faults.lost
                          /\ \A b \in Calls : b # c => call[b].at = "idle"
                          /\ TellsTheReview(journal)' /\ ReviewAlone(c)'
        OBVIOUS
      <3>1. ~faults.lost /\ lock' = c /\ journal = copy /\ journal' = copy
            /\ TellsTheReview(journal)
        BY <2>1, AtWork
      <3>2. \A b \in Calls : b # c => call[b].at = "idle"
        BY <2>1, <3>1, OthersIdle
      <3>3. TellsTheReview(journal)'
        BY <2>4, <2>7, <3>1
      <3> QED
        BY <2>5, <2>6, <3>1, <3>2, <3>3 DEF ReviewAlone
    <2>10. ReviewRecord(journal)'
      BY <2>1, <2>4 DEF ReviewInv
    <2> QED
      BY <2>2, <2>3, <2>6, <2>8, <2>9, <2>10, ReviewKept
  <1>5. CASE Review!ConfirmClosed(c, next)
    <2>1. /\ call[c].at = "observe-closed" /\ source.review = "closed"
          /\ Review!Saving(c, Review!Moved(copy, next), "end")
          /\ UNCHANGED <<source, journal, lock, faults>>
      BY <1>5 DEF Review!ConfirmClosed, Review!Running
    <2> QED
      BY <2>1, EndsKeep DEF Early
  <1> QED
    BY <1>1, <1>2, <1>3, <1>4, <1>5 DEF Review!Closing

(* A review is found open, closed or merged.                               *)
LEMMA FoundKeeps ==
    ASSUME kind \in Reviews, ReviewInv, UNCHANGED kind, NEW c \in Calls
    PROVE  /\ \A next \in {"rejected", "failed"} \cap Ends :
                 Review!ObserveClosed(c, next) => ReviewInv'
           /\ \A clears : Review!ObserveOpen(c, clears) => ReviewInv'
           /\ "succeeded" \in Ends /\ Review!FinishMerged(c, "succeeded") => ReviewInv'
  <1> DEFINE copy == Review!Copy(c)
  <1>1. ASSUME NEW next \in {"rejected", "failed"} \cap Ends, Review!ObserveClosed(c, next)
        PROVE  ReviewInv'
    <2>1. /\ Review!Step(c, "review-required", Review!Moved(copy, next), "end")
          /\ source.review = "closed"
      BY <1>1 DEF Review!ObserveClosed
    <2> QED
      BY <2>1, MovesKeep DEF Early
  <1>2. ASSUME NEW clears, Review!ObserveOpen(c, clears) PROVE ReviewInv'
    <2>1. /\ call[c].at = "run"
          /\ UNCHANGED <<source, journal, faults>>
          /\ \/ Review!Saving(c, Review!Moved(copy, "review-required"), "end") /\ UNCHANGED lock
             \/ Review!End(c)
      BY <1>2 DEF Review!ObserveOpen, Review!Running
    <2>2. ReviewRecord(journal') /\ (~faults.lost => TellsTheReview(journal'))
      BY <2>1, AtWork DEF ReviewInv
    <2>3. CASE Review!End(c)
      BY <2>1, <2>2, <2>3, EndKeeps
    <2>4. CASE Review!Saving(c, Review!Moved(copy, "review-required"), "end") /\ UNCHANGED lock
      BY <2>1, <2>4, EndsKeep DEF Live, Early, NothingOpenAt
    <2> QED
      BY <2>1, <2>3, <2>4
  <1>3. ASSUME "succeeded" \in Ends, Review!FinishMerged(c, "succeeded") PROVE ReviewInv'
    <2>1. /\ call[c].at \notin {"idle", "save"} /\ Review!MergedIsProven
          /\ Review!Saving(c, [Review!Moved(copy, "succeeded") EXCEPT !.review = TRUE], "end")
          /\ UNCHANGED <<source, journal, lock, faults>>
      BY <1>3 DEF Review!FinishMerged, Review!FindsMerge, Review!Running
    <2> QED
      BY <1>3, <2>1, EndsKeep DEF Early, Review!MergedIsProven
  <1> QED
    BY <1>1, <1>2, <1>3

(* What the workflows have of OwnerReview is the same in each.             *)
LEMMA IntakeIsReview ==
    /\ Intake!Outside <=> Review!Outside
    /\ Intake!NoRecord = Review!NoRecord /\ (Intake!MergedIsProven <=> Review!MergedIsProven)
    /\ \A c :
       /\ Intake!Copy(c) = Review!Copy(c)
       /\ \A x : /\ Intake!Accept(c, x) <=> Review!Accept(c, x)
                 /\ Intake!Begin(c, x) <=> Review!Begin(c, x)
                 /\ Intake!Running(c, x) <=> Review!Running(c, x)
                 /\ Intake!Cancelling(c, x) <=> Review!Cancelling(c, x)
                 /\ Intake!Closing(c, x) <=> Review!Closing(c, x)
                 /\ Intake!FinishMerged(c, x) <=> Review!FinishMerged(c, x)
                 /\ Intake!ObserveClosed(c, x) <=> Review!ObserveClosed(c, x)
                 /\ Intake!ObserveOpen(c, x) <=> Review!ObserveOpen(c, x)
       /\ \A r, x : Intake!Moved(r, x) = Review!Moved(r, x)
       /\ \A r, x : Intake!Saving(c, r, x) <=> Review!Saving(c, r, x)
       /\ \A s, r, x : Intake!Step(c, s, r, x) <=> Review!Step(c, s, r, x)
       /\ Intake!PrepareSource(c) <=> Review!PrepareSource(c)
       /\ Intake!Publishing(c) <=> Review!Publishing(c)
       /\ (Intake!Save(c) <=> Review!Save(c)) /\ (Intake!Interrupted(c) <=> Review!Interrupted(c))
  BY DEF Intake!MainMoves, Review!MainMoves, Intake!BranchChanges,
         Review!BranchChanges, Intake!ReviewEnds, Review!ReviewEnds,
         Intake!LockIsLost, Review!LockIsLost, Intake!Outside,
         Review!Outside, Intake!None, Review!None, Intake!NewRecord,
         Review!NewRecord, Intake!NoRecord, Review!NoRecord, Intake!Idle,
         Review!Idle, Intake!Go, Review!Go, Intake!Running, Review!Running,
         Intake!Copy, Review!Copy, Intake!Going, Review!Going,
         Intake!Saving, Review!Saving, Intake!Moved, Review!Moved,
         Intake!Step, Review!Step, Intake!Begin, Review!Begin,
         Intake!Accept, Review!Accept, Intake!End, Review!End, Intake!Save,
         Review!Save, Intake!Failing, Review!Failing,
         Intake!DependencyFails, Review!DependencyFails, Intake!CallStops,
         Review!CallStops, Intake!Interrupted, Review!Interrupted,
         Intake!HeadIsPrepared, Review!HeadIsPrepared,
         Intake!MergedIsProven, Review!MergedIsProven, Intake!Found,
         Review!Found, Intake!PrepareSource, Review!PrepareSource,
         Intake!Prepared, Review!Prepared, Intake!TakeReview,
         Review!TakeReview, Intake!MakeBranch, Review!MakeBranch,
         Intake!OpenReview, Review!OpenReview, Intake!Publishing,
         Review!Publishing, Intake!ReviewToCancel, Review!ReviewToCancel,
         Intake!Cancelling, Review!Cancelling, Intake!CancelUnpublished,
         Review!CancelUnpublished, Intake!BeginClose, Review!BeginClose,
         Intake!CloseReview, Review!CloseReview, Intake!ConfirmClosed,
         Review!ConfirmClosed, Intake!Closing, Review!Closing,
         Intake!FindsMerge, Review!FindsMerge, Intake!FinishMerged,
         Review!FinishMerged, Intake!ObserveClosed, Review!ObserveClosed,
         Intake!ObserveOpen, Review!ObserveOpen

(* An intake takes steps of a review, and those of its own.                *)
LEMMA IntakeKeeps ==
    ASSUME kind = "intake", ReviewInv, UNCHANGED kind, Intake!Next
    PROVE  ReviewInv'
  <1> USE DEF Reviews
  <1>1. Ends = Intake!Terminal
    BY DEF Ends
  <1>2. CASE Intake!Outside
    BY <1>2, OutsideKeeps, IntakeIsReview
  <1>3. ASSUME NEW c \in Calls,
               Intake!PrepareSource(c) \/ Intake!Publishing(c) \/ Intake!Save(c) \/ Intake!Interrupted(c)
        PROVE  ReviewInv'
    BY <1>3, PublishKeeps, SaveKeeps, InterruptedKeeps, IntakeIsReview
  <1>4. ASSUME NEW c \in Calls, Intake!Advance(c) PROVE ReviewInv'
    <2>1. journal.status \in Live
      BY <1>1, <1>4 DEF Intake!Advance, Intake!None, ReviewInv, ReviewRecord
    <2> QED
      BY <1>4, <2>1, BeginsKeep, IntakeIsReview DEF Intake!Advance
  <1>5. ASSUME NEW c \in Calls, Intake!Submit(c) PROVE ReviewInv'
    BY <1>5, BeginsKeep, IntakeIsReview DEF Intake!Submit, Review!NoRecord, Review!NewRecord
  <1>6. ASSUME NEW c \in Calls, Intake!Observe(c) \/ Intake!Cancel(c) PROVE ReviewInv'
    <2>1. {"cancelled", "rejected", "succeeded"} \subseteq Ends
      BY <1>1 DEF Intake!Terminal
    <2> QED
      BY <1>6, <2>1, FoundKeeps, CancelKeeps, IntakeIsReview DEF Intake!Observe, Intake!Cancel
  <1>7. ASSUME NEW c \in Calls, Intake!Finish(c) PROVE ReviewInv'
    BY <1>1, <1>7, FoundKeeps, IntakeIsReview DEF Intake!Finish, Intake!Terminal
  <1>8. ASSUME NEW c \in Calls, Intake!Evaluate(c) PROVE ReviewInv'
    <2>1. \/ Review!Step(c, "accepted", Review!Moved(Review!Copy(c), "evaluating"), "run")
          \/ Review!Step(c, "evaluating", Review!Moved(Review!Copy(c), "preparing"), "run")
          \/ \E outcome \in {"rejected", "requires-action"} :
                Review!Step(c, "evaluating", Review!Moved(Review!Copy(c), outcome), "end")
      BY <1>8, IntakeIsReview DEF Intake!Evaluate
    <2>2. {"rejected", "requires-action"} \subseteq Ends
      BY <1>1 DEF Intake!Terminal
    <2> QED
      BY <2>1, <2>2, MovesKeep DEF Early, Live, NothingOpenAt
  <1> QED
    BY <1>2, <1>3, <1>4, <1>5, <1>6, <1>7, <1>8
    DEF Intake!Next, Intake!Prepare, Intake!Publish, Intake!Keep

(* The same for changes of the inventory.                                  *)
LEMMA InventoryIsReview ==
    /\ Inventory!Outside <=> Review!Outside
    /\ Inventory!NoRecord = Review!NoRecord /\ (Inventory!MergedIsProven <=> Review!MergedIsProven)
    /\ \A c :
       /\ Inventory!Copy(c) = Review!Copy(c)
       /\ \A x : /\ Inventory!Accept(c, x) <=> Review!Accept(c, x)
                 /\ Inventory!Begin(c, x) <=> Review!Begin(c, x)
                 /\ Inventory!Running(c, x) <=> Review!Running(c, x)
                 /\ Inventory!Cancelling(c, x) <=> Review!Cancelling(c, x)
                 /\ Inventory!Closing(c, x) <=> Review!Closing(c, x)
                 /\ Inventory!FinishMerged(c, x) <=> Review!FinishMerged(c, x)
                 /\ Inventory!ObserveClosed(c, x) <=> Review!ObserveClosed(c, x)
                 /\ Inventory!ObserveOpen(c, x) <=> Review!ObserveOpen(c, x)
       /\ \A r, x : Inventory!Moved(r, x) = Review!Moved(r, x)
       /\ \A r, x : Inventory!Saving(c, r, x) <=> Review!Saving(c, r, x)
       /\ \A s, r, x : Inventory!Step(c, s, r, x) <=> Review!Step(c, s, r, x)
       /\ Inventory!PrepareSource(c) <=> Review!PrepareSource(c)
       /\ Inventory!Publishing(c) <=> Review!Publishing(c)
       /\ (Inventory!Save(c) <=> Review!Save(c)) /\ (Inventory!Interrupted(c) <=> Review!Interrupted(c))
  BY DEF Inventory!MainMoves, Review!MainMoves, Inventory!BranchChanges,
         Review!BranchChanges, Inventory!ReviewEnds, Review!ReviewEnds,
         Inventory!LockIsLost, Review!LockIsLost, Inventory!Outside,
         Review!Outside, Inventory!None, Review!None, Inventory!NewRecord,
         Review!NewRecord, Inventory!NoRecord, Review!NoRecord,
         Inventory!Idle, Review!Idle, Inventory!Go, Review!Go,
         Inventory!Running, Review!Running, Inventory!Copy, Review!Copy,
         Inventory!Going, Review!Going, Inventory!Saving, Review!Saving,
         Inventory!Moved, Review!Moved, Inventory!Step, Review!Step,
         Inventory!Begin, Review!Begin, Inventory!Accept, Review!Accept,
         Inventory!End, Review!End, Inventory!Save, Review!Save,
         Inventory!Failing, Review!Failing, Inventory!DependencyFails,
         Review!DependencyFails, Inventory!CallStops, Review!CallStops,
         Inventory!Interrupted, Review!Interrupted,
         Inventory!HeadIsPrepared, Review!HeadIsPrepared,
         Inventory!MergedIsProven, Review!MergedIsProven, Inventory!Found,
         Review!Found, Inventory!PrepareSource, Review!PrepareSource,
         Inventory!Prepared, Review!Prepared, Inventory!TakeReview,
         Review!TakeReview, Inventory!MakeBranch, Review!MakeBranch,
         Inventory!OpenReview, Review!OpenReview, Inventory!Publishing,
         Review!Publishing, Inventory!ReviewToCancel, Review!ReviewToCancel,
         Inventory!Cancelling, Review!Cancelling,
         Inventory!CancelUnpublished, Review!CancelUnpublished,
         Inventory!BeginClose, Review!BeginClose, Inventory!CloseReview,
         Review!CloseReview, Inventory!ConfirmClosed, Review!ConfirmClosed,
         Inventory!Closing, Review!Closing, Inventory!FindsMerge,
         Review!FindsMerge, Inventory!FinishMerged, Review!FinishMerged,
         Inventory!ObserveClosed, Review!ObserveClosed,
         Inventory!ObserveOpen, Review!ObserveOpen

(* An inventory change takes steps of a review, and those of its own.      *)
LEMMA InventoryKeeps ==
    ASSUME kind = "inventory", ReviewInv, UNCHANGED kind, Inventory!Next
    PROVE  ReviewInv'
  <1> USE DEF Reviews
  <1>1. Ends = Inventory!Terminal
    BY DEF Ends
  <1>2. CASE Inventory!Outside
    BY <1>2, OutsideKeeps, InventoryIsReview
  <1>3. ASSUME NEW c \in Calls,
               Inventory!PrepareSource(c) \/ Inventory!Publishing(c) \/ Inventory!Save(c) \/ Inventory!Interrupted(c)
        PROVE  ReviewInv'
    BY <1>3, PublishKeeps, SaveKeeps, InterruptedKeeps, InventoryIsReview
  <1>4. ASSUME NEW c \in Calls, Inventory!Advance(c) PROVE ReviewInv'
    <2>1. journal.status \in Live
      BY <1>1, <1>4 DEF Inventory!Advance, Inventory!None, ReviewInv, ReviewRecord
    <2> QED
      BY <1>4, <2>1, BeginsKeep, InventoryIsReview DEF Inventory!Advance
  <1>5. ASSUME NEW c \in Calls, Inventory!SubmitPromotion(c) \/ Inventory!SubmitLifecycle(c)
        PROVE  ReviewInv'
    BY <1>5, BeginsKeep, InventoryIsReview
    DEF Inventory!SubmitPromotion, Inventory!SubmitLifecycle, Review!NoRecord, Review!NewRecord
  <1>6. ASSUME NEW c \in Calls, Inventory!Observe(c) \/ Inventory!Cancel(c) PROVE ReviewInv'
    <2>1. {"cancelled", "rejected", "succeeded"} \subseteq Ends
      BY <1>1 DEF Inventory!Terminal
    <2> QED
      BY <1>6, <2>1, FoundKeeps, CancelKeeps, InventoryIsReview DEF Inventory!Observe, Inventory!Cancel
  <1>7. ASSUME NEW c \in Calls, Inventory!FinishPromotion(c) \/ Inventory!FinishLifecycle(c)
        PROVE  ReviewInv'
    BY <1>1, <1>7, FoundKeeps, InventoryIsReview
    DEF Inventory!FinishPromotion, Inventory!FinishLifecycle, Inventory!Terminal
  <1>9. ASSUME NEW c \in Calls, Inventory!Stale(c) PROVE ReviewInv'
    <2>1. /\ Review!Step(c, "preparing", Review!Moved(Review!Copy(c), "stale"), "end")
          /\ Review!Copy(c).prepared => source.review = "none"
      BY <1>9, InventoryIsReview DEF Inventory!Stale, Inventory!Found, Inventory!None
    <2>2. call[c].at \notin {"idle", "save"}
      BY <2>1 DEF Review!Step, Review!Running
    <2>3. ReviewRecord(Review!Copy(c)) /\ (~faults.lost => TellsTheReview(Review!Copy(c)))
      BY <2>2, AtWork
    <2> DEFINE r == Review!Moved(Review!Copy(c), "stale")
    <2>4. ReviewRecord(r) /\ r.status = "stale" /\ r.prepared = Review!Copy(c).prepared
      BY <1>1, <2>3, MovedTo DEF Inventory!Terminal
    <2> HIDE DEF r
    <2>5. Fits(r, "end")
      BY <2>1, <2>3, <2>4 DEF Fits, TellsTheReview, Early, ReviewRecord
    <2> QED
      BY <2>1, <2>5, StepKeeps DEF r
  <1>8. ASSUME NEW c \in Calls, Inventory!Evaluate(c) PROVE ReviewInv'
    <2>1. \/ Review!Step(c, "accepted", Review!Moved(Review!Copy(c), "evaluating"), "run")
          \/ Review!Step(c, "evaluating", Review!Moved(Review!Copy(c), "preparing"), "run")
          \/ \E outcome \in {"blocked", "stale"} :
                Review!Step(c, "evaluating", Review!Moved(Review!Copy(c), outcome), "end")
      BY <1>8, InventoryIsReview DEF Inventory!Evaluate, Inventory!Outcomes
    <2>2. {"blocked", "stale"} \subseteq Ends
      BY <1>1 DEF Inventory!Terminal
    <2> QED
      BY <2>1, <2>2, MovesKeep DEF Early, Live, NothingOpenAt
  <1> QED
    BY <1>2, <1>3, <1>4, <1>5, <1>6, <1>7, <1>8, <1>9
    DEF Inventory!Next, Inventory!Publish, Inventory!Keep, Inventory!PreparePromotion,
        Inventory!PrepareLifecycle

(* The same for a landing.                                                 *)
LEMMA LandingIsReview ==
    /\ Landing!Outside <=> Review!Outside
    /\ Landing!NoRecord = Review!NoRecord /\ (Landing!MergedIsProven <=> Review!MergedIsProven)
    /\ \A c :
       /\ Landing!Copy(c) = Review!Copy(c)
       /\ \A x : /\ Landing!Accept(c, x) <=> Review!Accept(c, x)
                 /\ Landing!Begin(c, x) <=> Review!Begin(c, x)
                 /\ Landing!Running(c, x) <=> Review!Running(c, x)
                 /\ Landing!Cancelling(c, x) <=> Review!Cancelling(c, x)
                 /\ Landing!Closing(c, x) <=> Review!Closing(c, x)
                 /\ Landing!FinishMerged(c, x) <=> Review!FinishMerged(c, x)
                 /\ Landing!ObserveClosed(c, x) <=> Review!ObserveClosed(c, x)
                 /\ Landing!ObserveOpen(c, x) <=> Review!ObserveOpen(c, x)
       /\ \A r, x : Landing!Moved(r, x) = Review!Moved(r, x)
       /\ \A r, x : Landing!Saving(c, r, x) <=> Review!Saving(c, r, x)
       /\ \A s, r, x : Landing!Step(c, s, r, x) <=> Review!Step(c, s, r, x)
       /\ Landing!PrepareSource(c) <=> Review!PrepareSource(c)
       /\ Landing!Publishing(c) <=> Review!Publishing(c)
       /\ (Landing!Save(c) <=> Review!Save(c)) /\ (Landing!Interrupted(c) <=> Review!Interrupted(c))
  BY DEF Landing!MainMoves, Review!MainMoves, Landing!BranchChanges,
         Review!BranchChanges, Landing!ReviewEnds, Review!ReviewEnds,
         Landing!LockIsLost, Review!LockIsLost, Landing!Outside,
         Review!Outside, Landing!None, Review!None, Landing!NewRecord,
         Review!NewRecord, Landing!NoRecord, Review!NoRecord, Landing!Idle,
         Review!Idle, Landing!Go, Review!Go, Landing!Running,
         Review!Running, Landing!Copy, Review!Copy, Landing!Going,
         Review!Going, Landing!Saving, Review!Saving, Landing!Moved,
         Review!Moved, Landing!Step, Review!Step, Landing!Begin,
         Review!Begin, Landing!Accept, Review!Accept, Landing!End,
         Review!End, Landing!Save, Review!Save, Landing!Failing,
         Review!Failing, Landing!DependencyFails, Review!DependencyFails,
         Landing!CallStops, Review!CallStops, Landing!Interrupted,
         Review!Interrupted, Landing!HeadIsPrepared, Review!HeadIsPrepared,
         Landing!MergedIsProven, Review!MergedIsProven, Landing!Found,
         Review!Found, Landing!PrepareSource, Review!PrepareSource,
         Landing!Prepared, Review!Prepared, Landing!TakeReview,
         Review!TakeReview, Landing!MakeBranch, Review!MakeBranch,
         Landing!OpenReview, Review!OpenReview, Landing!Publishing,
         Review!Publishing, Landing!ReviewToCancel, Review!ReviewToCancel,
         Landing!Cancelling, Review!Cancelling, Landing!CancelUnpublished,
         Review!CancelUnpublished, Landing!BeginClose, Review!BeginClose,
         Landing!CloseReview, Review!CloseReview, Landing!ConfirmClosed,
         Review!ConfirmClosed, Landing!Closing, Review!Closing,
         Landing!FindsMerge, Review!FindsMerge, Landing!FinishMerged,
         Review!FinishMerged, Landing!ObserveClosed, Review!ObserveClosed,
         Landing!ObserveOpen, Review!ObserveOpen

(* A landing takes steps of a review, and those of its own.                *)
LEMMA LandingKeeps ==
    ASSUME kind = "landing", ReviewInv, UNCHANGED kind, Landing!Next
    PROVE  ReviewInv'
  <1> USE DEF Reviews
  <1>1. Ends = Landing!Terminal
    BY DEF Ends
  <1>2. CASE Landing!Outside
    BY <1>2, OutsideKeeps, LandingIsReview
  <1>3. ASSUME NEW c \in Calls,
               Landing!PrepareSource(c) \/ Landing!Publishing(c) \/ Landing!Save(c) \/ Landing!Interrupted(c)
        PROVE  ReviewInv'
    BY <1>3, PublishKeeps, SaveKeeps, InterruptedKeeps, LandingIsReview
  <1>4. ASSUME NEW c \in Calls, Landing!Advance(c) PROVE ReviewInv'
    <2>1. journal.status \in Live
      BY <1>1, <1>4 DEF Landing!Advance, Landing!None, ReviewInv, ReviewRecord
    <2> QED
      BY <1>4, <2>1, BeginsKeep, LandingIsReview DEF Landing!Advance
  <1>5. ASSUME NEW c \in Calls, Landing!Submit(c) PROVE ReviewInv'
    BY <1>5, BeginsKeep, LandingIsReview DEF Landing!Submit, Review!NoRecord, Review!NewRecord
  <1>6. ASSUME NEW c \in Calls, Landing!Observe(c) \/ Landing!Cancel(c) PROVE ReviewInv'
    <2>1. {"cancelled", "rejected", "succeeded"} \subseteq Ends
      BY <1>1 DEF Landing!Terminal
    <2> QED
      BY <1>6, <2>1, FoundKeeps, CancelKeeps, LandingIsReview DEF Landing!Observe, Landing!Cancel
  <1>7. ASSUME NEW c \in Calls, Landing!Finish(c) PROVE ReviewInv'
    BY <1>1, <1>7, FoundKeeps, LandingIsReview DEF Landing!Finish, Landing!Terminal
  <1>8. ASSUME NEW c \in Calls, Landing!Evaluate(c) PROVE ReviewInv'
    <2>1. \/ Review!Step(c, "accepted", Review!Moved(Review!Copy(c), "evaluating"), "run")
          \/ Review!Step(c, "evaluating", Review!Moved(Review!Copy(c), "preparing"), "run")
          \/ Review!Step(c, "evaluating", Review!Moved(Review!Copy(c), "requires-action"), "end")
      BY <1>8, LandingIsReview DEF Landing!Evaluate
    <2>2. {"requires-action"} \subseteq Ends
      BY <1>1 DEF Landing!Terminal
    <2> QED
      BY <2>1, <2>2, MovesKeep DEF Early, Live, NothingOpenAt
  <1>9. ASSUME NEW c \in Calls, Landing!ReadinessExpires(c) PROVE ReviewInv'
    <2>1. Review!Step(c, "preparing", Review!Moved(Review!Copy(c), "requires-action"), "end")
      BY <1>9, LandingIsReview DEF Landing!ReadinessExpires
    <2>2. "requires-action" \in Ends
      BY <1>1 DEF Landing!Terminal
    <2> QED
      BY <2>1, <2>2, MovesKeep DEF Early, Live, NothingOpenAt
  <1> QED
    BY <1>2, <1>3, <1>4, <1>5, <1>6, <1>7, <1>8, <1>9
    DEF Landing!Next, Landing!Prepare, Landing!Publish, Landing!Keep

(* The same for a maturity request.                                        *)
LEMMA MaturityIsReview ==
    /\ Maturity!Outside <=> Review!Outside
    /\ Maturity!NoRecord = Review!NoRecord /\ (Maturity!MergedIsProven <=> Review!MergedIsProven)
    /\ \A c :
       /\ Maturity!Copy(c) = Review!Copy(c)
       /\ \A x : /\ Maturity!Accept(c, x) <=> Review!Accept(c, x)
                 /\ Maturity!Begin(c, x) <=> Review!Begin(c, x)
                 /\ Maturity!Running(c, x) <=> Review!Running(c, x)
                 /\ Maturity!Cancelling(c, x) <=> Review!Cancelling(c, x)
                 /\ Maturity!Closing(c, x) <=> Review!Closing(c, x)
                 /\ Maturity!FinishMerged(c, x) <=> Review!FinishMerged(c, x)
                 /\ Maturity!ObserveClosed(c, x) <=> Review!ObserveClosed(c, x)
                 /\ Maturity!ObserveOpen(c, x) <=> Review!ObserveOpen(c, x)
       /\ \A r, x : Maturity!Moved(r, x) = Review!Moved(r, x)
       /\ \A r, x : Maturity!Saving(c, r, x) <=> Review!Saving(c, r, x)
       /\ \A s, r, x : Maturity!Step(c, s, r, x) <=> Review!Step(c, s, r, x)
       /\ Maturity!PrepareSource(c) <=> Review!PrepareSource(c)
       /\ Maturity!Publishing(c) <=> Review!Publishing(c)
       /\ (Maturity!Save(c) <=> Review!Save(c)) /\ (Maturity!Interrupted(c) <=> Review!Interrupted(c))
  BY DEF Maturity!MainMoves, Review!MainMoves, Maturity!BranchChanges,
         Review!BranchChanges, Maturity!ReviewEnds, Review!ReviewEnds,
         Maturity!LockIsLost, Review!LockIsLost, Maturity!Outside,
         Review!Outside, Maturity!None, Review!None, Maturity!NewRecord,
         Review!NewRecord, Maturity!NoRecord, Review!NoRecord,
         Maturity!Idle, Review!Idle, Maturity!Go, Review!Go,
         Maturity!Running, Review!Running, Maturity!Copy, Review!Copy,
         Maturity!Going, Review!Going, Maturity!Saving, Review!Saving,
         Maturity!Moved, Review!Moved, Maturity!Step, Review!Step,
         Maturity!Begin, Review!Begin, Maturity!Accept, Review!Accept,
         Maturity!End, Review!End, Maturity!Save, Review!Save,
         Maturity!Failing, Review!Failing, Maturity!DependencyFails,
         Review!DependencyFails, Maturity!CallStops, Review!CallStops,
         Maturity!Interrupted, Review!Interrupted, Maturity!HeadIsPrepared,
         Review!HeadIsPrepared, Maturity!MergedIsProven,
         Review!MergedIsProven, Maturity!Found, Review!Found,
         Maturity!PrepareSource, Review!PrepareSource, Maturity!Prepared,
         Review!Prepared, Maturity!TakeReview, Review!TakeReview,
         Maturity!MakeBranch, Review!MakeBranch, Maturity!OpenReview,
         Review!OpenReview, Maturity!Publishing, Review!Publishing,
         Maturity!ReviewToCancel, Review!ReviewToCancel,
         Maturity!Cancelling, Review!Cancelling, Maturity!CancelUnpublished,
         Review!CancelUnpublished, Maturity!BeginClose, Review!BeginClose,
         Maturity!CloseReview, Review!CloseReview, Maturity!ConfirmClosed,
         Review!ConfirmClosed, Maturity!Closing, Review!Closing,
         Maturity!FindsMerge, Review!FindsMerge, Maturity!FinishMerged,
         Review!FinishMerged, Maturity!ObserveClosed, Review!ObserveClosed,
         Maturity!ObserveOpen, Review!ObserveOpen

(* A maturity request takes steps of a review, and those of its own.       *)
LEMMA MaturityKeeps ==
    ASSUME kind = "maturity", ReviewInv, UNCHANGED kind, Maturity!Next
    PROVE  ReviewInv'
  <1> USE DEF Reviews
  <1>1. Ends = Maturity!Terminal
    BY DEF Ends
  <1>2. CASE Maturity!Outside
    BY <1>2, OutsideKeeps, MaturityIsReview
  <1>3. ASSUME NEW c \in Calls,
               Maturity!PrepareSource(c) \/ Maturity!Publishing(c) \/ Maturity!Save(c) \/ Maturity!Interrupted(c)
        PROVE  ReviewInv'
    BY <1>3, PublishKeeps, SaveKeeps, InterruptedKeeps, MaturityIsReview
  <1>4. ASSUME NEW c \in Calls, Maturity!Advance(c) PROVE ReviewInv'
    <2>1. journal.status \in Live
      BY <1>1, <1>4 DEF Maturity!Advance, Maturity!None, ReviewInv, ReviewRecord
    <2> QED
      BY <1>4, <2>1, BeginsKeep, MaturityIsReview DEF Maturity!Advance
  <1>5. ASSUME NEW c \in Calls, Maturity!Submit(c) PROVE ReviewInv'
    BY <1>5, BeginsKeep, MaturityIsReview DEF Maturity!Submit, Review!NoRecord, Review!NewRecord
  <1>6. ASSUME NEW c \in Calls, Maturity!Observe(c) \/ Maturity!Cancel(c) PROVE ReviewInv'
    <2>1. {"cancelled", "rejected", "succeeded"} \subseteq Ends
      BY <1>1 DEF Maturity!Terminal
    <2> QED
      BY <1>6, <2>1, FoundKeeps, CancelKeeps, MaturityIsReview DEF Maturity!Observe, Maturity!Cancel
  <1>7. ASSUME NEW c \in Calls, Maturity!Finish(c) PROVE ReviewInv'
    BY <1>1, <1>7, FoundKeeps, MaturityIsReview DEF Maturity!Finish, Maturity!Terminal
  <1>8. ASSUME NEW c \in Calls, Maturity!Evaluate(c) PROVE ReviewInv'
    <2>1. \/ Review!Step(c, "accepted", Review!Moved(Review!Copy(c), "evaluating"), "run")
          \/ Review!Step(c, "evaluating", Review!Moved(Review!Copy(c), "decision-required"), "end")
          \/ Review!Step(c, "evaluating", Review!Moved(Review!Copy(c), "requires-action"), "end")
      BY <1>8, MaturityIsReview DEF Maturity!Evaluate
    <2>2. {"requires-action"} \subseteq Ends
      BY <1>1 DEF Maturity!Terminal
    <2> QED
      BY <2>1, <2>2, MovesKeep DEF Early, Live, NothingOpenAt
  <1>9. ASSUME NEW c \in Calls, Maturity!ReadinessExpires(c) PROVE ReviewInv'
    <2>1. Review!Step(c, "preparing", Review!Moved(Review!Copy(c), "requires-action"), "end")
      BY <1>9, MaturityIsReview DEF Maturity!ReadinessExpires
    <2>2. "requires-action" \in Ends
      BY <1>1 DEF Maturity!Terminal
    <2> QED
      BY <2>1, <2>2, MovesKeep DEF Early, Live, NothingOpenAt
  <1>10. ASSUME NEW c \in Calls, Maturity!Decide(c) PROVE ReviewInv'
    <2>1. CASE journal.status = "decision-required" /\ Review!Begin(c, "decide")
      BY <2>1, BeginsKeep DEF Live
    <2>2. CASE Review!Step(c, "decision-required",
                           Review!Moved(Review!Copy(c), "requires-action"), "end")
      <3>1. "requires-action" \in Ends
        BY <1>1 DEF Maturity!Terminal
      <3> QED
        BY <2>2, <3>1, MovesKeep DEF Early, Live, NothingOpenAt
    <2>3. ASSUME NEW decision,
                 Review!Step(c, "decision-required",
                    [Review!Moved(Review!Copy(c), "preparing") EXCEPT !.choice = decision], "end")
          PROVE  ReviewInv'
      <3> DEFINE copy == Review!Copy(c)
                 moved == Review!Moved(copy, "preparing")
                 r == [moved EXCEPT !.choice = decision]
      <3>1. call[c].at = "run" /\ copy.status = "decision-required"
        BY <2>3 DEF Review!Step, Review!Running
      <3>2. ReviewRecord(copy) /\ (~faults.lost => TellsTheReview(copy))
        BY <3>1, AtWork
      <3> HIDE DEF copy
      <3>3. ReviewRecord(moved) /\ moved.status = "preparing" /\ moved.prepared = copy.prepared
        BY <3>2, MovedTo DEF Live
      <3> HIDE DEF moved
      <3>4. ReviewRecord(r) /\ r.status = "preparing" /\ r.prepared = copy.prepared
        BY <3>3 DEF ReviewRecord
      <3> HIDE DEF r
      <3>5. Fits(r, "end")
        BY <3>1, <3>2, <3>4 DEF Fits, TellsTheReview, Early, NothingOpenAt
      <3> QED
        BY <2>3, <3>5, StepKeeps DEF r, moved, copy
    <2> QED
      BY <1>10, <2>1, <2>2, <2>3, MaturityIsReview DEF Maturity!Decide
  <1>11. ASSUME NEW c \in Calls, Maturity!FinishUnchanged(c) PROVE ReviewInv'
    <2>1. \E next \in {"blocked", "routed-closeout"} :
             Review!Step(c, "preparing", Review!Moved(Review!Copy(c), next), "end")
      BY <1>11, MaturityIsReview DEF Maturity!FinishUnchanged
    <2>2. {"blocked", "routed-closeout"} \subseteq Ends
      BY <1>1 DEF Maturity!Terminal
    <2> QED
      BY <2>1, <2>2, MovesKeep DEF Early, Live, NothingOpenAt
  <1> QED
    BY <1>2, <1>3, <1>4, <1>5, <1>6, <1>7, <1>8, <1>9, <1>10, <1>11
    DEF Maturity!Next, Maturity!Prepare, Maturity!Publish, Maturity!Keep

(* The same for a closure.                                                 *)
LEMMA ClosureIsReview ==
    /\ Closure!Outside <=> Review!Outside
    /\ Closure!NoRecord = Review!NoRecord /\ (Closure!MergedIsProven <=> Review!MergedIsProven)
    /\ \A c :
       /\ Closure!Copy(c) = Review!Copy(c)
       /\ \A x : /\ Closure!Accept(c, x) <=> Review!Accept(c, x)
                 /\ Closure!Begin(c, x) <=> Review!Begin(c, x)
                 /\ Closure!Running(c, x) <=> Review!Running(c, x)
                 /\ Closure!Cancelling(c, x) <=> Review!Cancelling(c, x)
                 /\ Closure!Closing(c, x) <=> Review!Closing(c, x)
                 /\ Closure!ObserveClosed(c, x) <=> Review!ObserveClosed(c, x)
                 /\ Closure!ObserveOpen(c, x) <=> Review!ObserveOpen(c, x)
       /\ \A r, x : Closure!Moved(r, x) = Review!Moved(r, x)
       /\ \A r, x : Closure!Saving(c, r, x) <=> Review!Saving(c, r, x)
       /\ \A s, r, x : Closure!Step(c, s, r, x) <=> Review!Step(c, s, r, x)
       /\ Closure!PrepareSource(c) <=> Review!PrepareSource(c)
       /\ Closure!TakeReview(c) <=> Review!TakeReview(c)
       /\ Closure!MakeBranch(c) <=> Review!MakeBranch(c)
       /\ Closure!OpenReview(c) <=> Review!OpenReview(c)
       /\ Closure!FindsMerge(c) <=> Review!FindsMerge(c)
       /\ (Closure!Save(c) <=> Review!Save(c)) /\ (Closure!Interrupted(c) <=> Review!Interrupted(c))
  BY DEF Closure!MainMoves, Review!MainMoves, Closure!BranchChanges,
         Review!BranchChanges, Closure!ReviewEnds, Review!ReviewEnds,
         Closure!LockIsLost, Review!LockIsLost, Closure!Outside,
         Review!Outside, Closure!None, Review!None, Closure!NewRecord,
         Review!NewRecord, Closure!NoRecord, Review!NoRecord, Closure!Idle,
         Review!Idle, Closure!Go, Review!Go, Closure!Running,
         Review!Running, Closure!Copy, Review!Copy, Closure!Going,
         Review!Going, Closure!Saving, Review!Saving, Closure!Moved,
         Review!Moved, Closure!Step, Review!Step, Closure!Begin,
         Review!Begin, Closure!Accept, Review!Accept, Closure!End,
         Review!End, Closure!Save, Review!Save, Closure!Failing,
         Review!Failing, Closure!DependencyFails, Review!DependencyFails,
         Closure!CallStops, Review!CallStops, Closure!Interrupted,
         Review!Interrupted, Closure!HeadIsPrepared, Review!HeadIsPrepared,
         Closure!MergedIsAsPrepared, Review!MergedIsAsPrepared,
         Closure!MergedIsProven, Review!MergedIsProven, Closure!Found,
         Review!Found, Closure!PrepareSource, Review!PrepareSource,
         Closure!Prepared, Review!Prepared, Closure!TakeReview,
         Review!TakeReview, Closure!MakeBranch, Review!MakeBranch,
         Closure!OpenReview, Review!OpenReview, Closure!ReviewToCancel,
         Review!ReviewToCancel, Closure!Cancelling, Review!Cancelling,
         Closure!CancelUnpublished, Review!CancelUnpublished,
         Closure!BeginClose, Review!BeginClose, Closure!CloseReview,
         Review!CloseReview, Closure!ConfirmClosed, Review!ConfirmClosed,
         Closure!Closing, Review!Closing, Closure!FindsMerge,
         Review!FindsMerge, Closure!ObserveClosed, Review!ObserveClosed,
         Closure!ObserveOpen, Review!ObserveOpen

(* A closure takes steps of a review, and those of its own.                *)
LEMMA ClosureKeeps ==
    ASSUME kind = "closure", ReviewInv, UNCHANGED kind, Closure!Next
    PROVE  ReviewInv'
  <1> USE DEF Reviews
  <1>1. Ends = Closure!Terminal
    BY DEF Ends
  <1>2. CASE Closure!Outside
    BY <1>2, OutsideKeeps, ClosureIsReview
  <1>3. ASSUME NEW c \in Calls,
               Closure!PrepareSource(c) \/ Closure!Publish(c) \/ Closure!Save(c) \/ Closure!Interrupted(c)
        PROVE  ReviewInv'
    BY <1>3, PublishKeeps, SaveKeeps, InterruptedKeeps, ClosureIsReview
    DEF Closure!Publish, Review!Publishing
  <1>4. ASSUME NEW c \in Calls, Closure!Advance(c) PROVE ReviewInv'
    <2>1. journal.status \in Live
      BY <1>1, <1>4 DEF Closure!Advance, Closure!None, ReviewInv, ReviewRecord
    <2> QED
      BY <1>4, <2>1, BeginsKeep, ClosureIsReview DEF Closure!Advance
  <1>5. ASSUME NEW c \in Calls, Closure!Submit(c) PROVE ReviewInv'
    BY <1>5, BeginsKeep, ClosureIsReview DEF Closure!Submit, Review!NoRecord, Review!NewRecord
  <1>6. ASSUME NEW c \in Calls, Closure!Observe(c) \/ Closure!Cancel(c) PROVE ReviewInv'
    <2>1. {"denied", "failed", "succeeded"} \subseteq Ends
      BY <1>1 DEF Closure!Terminal
    <2> QED
      BY <1>6, <2>1, FoundKeeps, CancelKeeps, ClosureIsReview DEF Closure!Observe, Closure!Cancel
  <1>7. ASSUME NEW c \in Calls, Closure!FindMerge(c) PROVE ReviewInv'
    <2>1. /\ call[c].at \notin {"idle", "save"}
          /\ Review!Saving(c, [Review!Moved(Review!Copy(c), "pending-readback")
                                  EXCEPT !.review = TRUE], "end")
          /\ UNCHANGED <<source, journal, lock, faults>>
      BY <1>7, ClosureIsReview DEF Closure!FindMerge, Closure!FindsMerge, Closure!Running
    <2> QED
      BY <2>1, EndsKeep DEF Live, Early, NothingOpenAt
  <1>9. ASSUME NEW c \in Calls, Closure!Readback(c) \/ Closure!AcceptDisposition(c) PROVE ReviewInv'
    <2>1. Review!MergedIsProven
          /\ \E next \in {"pending-runtime-disposition", "succeeded"} : \E status :
                Review!Step(c, status, Review!Moved(Review!Copy(c), next), "end")
      <3>1. CASE Closure!Readback(c)
        <4> DEFINE next == IF Review!Copy(c).choice = "graduate-source"
                           THEN "pending-runtime-disposition" ELSE "succeeded"
        <4>1. Review!MergedIsProven
              /\ Review!Step(c, "pending-readback", Review!Moved(Review!Copy(c), next), "end")
          BY <3>1, ClosureIsReview DEF Closure!Readback
        <4>2. next \in {"pending-runtime-disposition", "succeeded"}
          OBVIOUS
        <4> HIDE DEF next
        <4> QED
          BY <4>1, <4>2
      <3>2. CASE Closure!AcceptDisposition(c)
        <4>1. Review!Step(c, "pending-runtime-disposition",
                          Review!Moved(Review!Copy(c), "succeeded"), "end")
          BY <3>2, ClosureIsReview DEF Closure!AcceptDisposition
        <4>2. call[c].at = "run" /\ Review!Copy(c).status = "pending-runtime-disposition"
          BY <4>1 DEF Review!Step, Review!Running
        <4> QED
          BY <4>1, <4>2, AtWork DEF ReviewRecord
      <3> QED
        BY <1>9, <3>1, <3>2
    <2>2. {"pending-runtime-disposition", "succeeded"} \subseteq Live \cup Ends
      BY <1>1 DEF Closure!Terminal, Live
    <2> QED
      BY <2>1, <2>2, MovesKeep DEF Early, Live, NothingOpenAt, Review!MergedIsProven
  <1>10. ASSUME NEW c \in Calls, Closure!Decide(c) \/ Closure!Reconcile(c) PROVE ReviewInv'
    <2>1. CASE journal.status = "decision-required" /\ Review!Begin(c, "decide")
      BY <2>1, BeginsKeep DEF Live
    <2>2. CASE \/ \E next \in {"reconciling", "denied"} :
                     Review!Step(c, "decision-required", Review!Moved(Review!Copy(c), next), "end")
               \/ Review!Step(c, "reconciling", Review!Moved(Review!Copy(c), "preparing"), "run")
      <3>1. "denied" \in Ends
        BY <1>1 DEF Closure!Terminal
      <3> QED
        BY <2>2, <3>1, MovesKeep DEF Early, Live, NothingOpenAt
    <2> QED
      BY <1>10, <2>1, <2>2, ClosureIsReview DEF Closure!Decide, Closure!Reconcile
  <1>8. ASSUME NEW c \in Calls, Closure!Evaluate(c) PROVE ReviewInv'
    <2>1. \/ Review!Step(c, "accepted", Review!Moved(Review!Copy(c), "evaluating"), "run")
          \/ Review!Step(c, "evaluating", Review!Moved(Review!Copy(c), "decision-required"), "end")
          \/ Review!Step(c, "evaluating", Review!Moved(Review!Copy(c), "denied"), "end")
      BY <1>8, ClosureIsReview DEF Closure!Evaluate
    <2>2. {"denied"} \subseteq Ends
      BY <1>1 DEF Closure!Terminal
    <2> QED
      BY <2>1, <2>2, MovesKeep DEF Early, Live, NothingOpenAt
  <1> QED
    BY <1>2, <1>3, <1>4, <1>5, <1>6, <1>7, <1>8, <1>9, <1>10
    DEF Closure!Next, Closure!Prepare, Closure!Keep

(* The same for an application to a target.                                *)
LEMMA TargetIsReview ==
    /\ Target!Outside <=> Review!Outside
    /\ Target!NoRecord = Review!NoRecord /\ (Target!MergedIsProven <=> Review!MergedIsProven)
    /\ \A c :
       /\ Target!Copy(c) = Review!Copy(c)
       /\ \A x : /\ Target!Accept(c, x) <=> Review!Accept(c, x)
                 /\ Target!Begin(c, x) <=> Review!Begin(c, x)
                 /\ Target!Running(c, x) <=> Review!Running(c, x)
                 /\ Target!Cancelling(c, x) <=> Review!Cancelling(c, x)
                 /\ Target!Closing(c, x) <=> Review!Closing(c, x)
                 /\ Target!ObserveClosed(c, x) <=> Review!ObserveClosed(c, x)
                 /\ Target!ObserveOpen(c, x) <=> Review!ObserveOpen(c, x)
       /\ \A r, x : Target!Moved(r, x) = Review!Moved(r, x)
       /\ \A r, x : Target!Saving(c, r, x) <=> Review!Saving(c, r, x)
       /\ \A s, r, x : Target!Step(c, s, r, x) <=> Review!Step(c, s, r, x)
       /\ \A x : Target!Go(c, x) <=> Review!Go(c, x)
       /\ Target!PrepareSource(c) <=> Review!PrepareSource(c)
       /\ Target!Publishing(c) <=> Review!Publishing(c)
       /\ Target!FindsMerge(c) <=> Review!FindsMerge(c)
       /\ (Target!Save(c) <=> Review!Save(c)) /\ (Target!Interrupted(c) <=> Review!Interrupted(c))
  BY DEF Target!MainMoves, Review!MainMoves, Target!BranchChanges,
         Review!BranchChanges, Target!ReviewEnds, Review!ReviewEnds,
         Target!LockIsLost, Review!LockIsLost, Target!Outside,
         Review!Outside, Target!None, Review!None, Target!NewRecord,
         Review!NewRecord, Target!NoRecord, Review!NoRecord, Target!Idle,
         Review!Idle, Target!Go, Review!Go, Target!Running, Review!Running,
         Target!Copy, Review!Copy, Target!Going, Review!Going,
         Target!Saving, Review!Saving, Target!Moved, Review!Moved,
         Target!Step, Review!Step, Target!Begin, Review!Begin,
         Target!Accept, Review!Accept, Target!End, Review!End, Target!Save,
         Review!Save, Target!Failing, Review!Failing,
         Target!DependencyFails, Review!DependencyFails, Target!CallStops,
         Review!CallStops, Target!Interrupted, Review!Interrupted,
         Target!HeadIsPrepared, Review!HeadIsPrepared,
         Target!MergedIsProven, Review!MergedIsProven, Target!Found,
         Review!Found, Target!PrepareSource, Review!PrepareSource,
         Target!Prepared, Review!Prepared, Target!TakeReview,
         Review!TakeReview, Target!MakeBranch, Review!MakeBranch,
         Target!OpenReview, Review!OpenReview, Target!Publishing,
         Review!Publishing, Target!ReviewToCancel, Review!ReviewToCancel,
         Target!Cancelling, Review!Cancelling, Target!CancelUnpublished,
         Review!CancelUnpublished, Target!BeginClose, Review!BeginClose,
         Target!CloseReview, Review!CloseReview, Target!ConfirmClosed,
         Review!ConfirmClosed, Target!Closing, Review!Closing,
         Target!FindsMerge, Review!FindsMerge, Target!ObserveClosed,
         Review!ObserveClosed, Target!ObserveOpen, Review!ObserveOpen

(* An application to a target takes steps of a review, and those of its own.*)
LEMMA TargetKeeps ==
    ASSUME kind = "target", ReviewInv, UNCHANGED kind, Target!Next
    PROVE  ReviewInv'
  <1> USE DEF Reviews
  <1>1. Ends = Target!Terminal
    BY DEF Ends
  <1>2. CASE Target!Outside
    BY <1>2, OutsideKeeps, TargetIsReview
  <1>3. ASSUME NEW c \in Calls,
               Target!PrepareSource(c) \/ Target!Publishing(c) \/ Target!Save(c) \/ Target!Interrupted(c)
        PROVE  ReviewInv'
    BY <1>3, PublishKeeps, SaveKeeps, InterruptedKeeps, TargetIsReview
  <1>4. ASSUME NEW c \in Calls, Target!Advance(c) PROVE ReviewInv'
    <2>1. journal.status \in Live
      BY <1>1, <1>4 DEF Target!Advance, Target!None, ReviewInv, ReviewRecord
    <2> QED
      BY <1>4, <2>1, BeginsKeep, TargetIsReview DEF Target!Advance
  <1>5. ASSUME NEW c \in Calls, Target!Submit(c) PROVE ReviewInv'
    BY <1>5, BeginsKeep, TargetIsReview
    DEF Target!Submit, Target!Restartable, Review!NoRecord, Review!NewRecord
  <1>6. ASSUME NEW c \in Calls, Target!Observe(c) \/ Target!Cancel(c) PROVE ReviewInv'
    <2>1. {"cancelled", "rejected", "succeeded"} \subseteq Ends
      BY <1>1 DEF Target!Terminal
    <2> QED
      BY <1>6, <2>1, FoundKeeps, CancelKeeps, TargetIsReview DEF Target!Observe, Target!Cancel
  <1>7. ASSUME NEW c \in Calls, Target!Start(c) PROVE ReviewInv'
    <2>1. Review!Step(c, "accepted", Review!Moved(Review!Copy(c), "preparing"), "run")
      BY <1>7, TargetIsReview DEF Target!Start
    <2> QED
      BY <2>1, MovesKeep DEF Early, Live, NothingOpenAt
  <1>8. ASSUME NEW c \in Calls, Review!Running(c, "acknowledged"),
               Review!Saving(c, Review!Moved(Review!Copy(c), "succeeded"), "end"),
               UNCHANGED <<source, journal, lock, faults>>
        PROVE  ReviewInv'
    <2>1. Review!MergedIsProven /\ call[c].at \notin {"idle", "save"}
      BY <1>8 DEF ReviewInv, ReviewCall, Review!Running
    <2>2. "succeeded" \in Ends
      BY <1>1 DEF Target!Terminal
    <2> QED
      BY <1>8, <2>1, <2>2, EndsKeep DEF Early, Review!MergedIsProven
  <1>9. ASSUME NEW c \in Calls, Review!FindsMerge(c), Review!MergedIsProven,
               source' = [source EXCEPT !.acknowledged = TRUE],
               Review!Go(c, [call[c] EXCEPT !.at = "acknowledged"]),
               UNCHANGED <<journal, lock, faults>>
        PROVE  ReviewInv'
    <2> DEFINE copy == Review!Copy(c)
               go == [call[c] EXCEPT !.at = "acknowledged"]
    <2>1. call[c].at \notin {"idle", "save"}
      BY <1>9 DEF Review!FindsMerge, Review!Running
    <2>2. ReviewTypes' /\ source'.review = source.review /\ Review!MergedIsProven'
      BY <1>9, CallGoes DEF ReviewInv, ReviewTypes, Review!MergedIsProven, Review!HeadIsPrepared
    <2>3. \A x : /\ ReviewRecord(x) => ReviewRecord(x)'
                 /\ TellsTheReview(x) => TellsTheReview(x)'
      BY <2>2 DEF ReviewRecord, Ends, TellsTheReview, NothingOpenAt
    <2>4. DOMAIN go = {"at", "action", "record", "then"} /\ go.at = "acknowledged"
          /\ go.record = copy
      BY <2>1, AtWork DEF Review!Copy
    <2>5. call'[c] = go /\ \A b \in Calls : b # c => call'[b] = call[b]
      BY <1>9, CallGoes DEF ReviewInv, ReviewTypes
    <2> HIDE DEF go
    <2>6. ReviewCall(c)'
      BY <2>1, <2>2, <2>3, <2>4, <2>5, AtWork DEF ReviewCall
    <2>7. ~faults'.lost => /\ ~faults.lost
                           /\ \A b \in Calls : b # c => call[b].at = "idle"
                           /\ TellsTheReview(journal)' /\ ReviewAlone(c)'
      <3> SUFFICES ASSUME ~faults'.lost
                   PROVE  /\ ~faults.lost
                          /\ \A b \in Calls : b # c => call[b].at = "idle"
                          /\ TellsTheReview(journal)' /\ ReviewAlone(c)'
        OBVIOUS
      <3>1. ~faults.lost /\ lock' = c /\ journal = copy /\ journal' = copy
            /\ TellsTheReview(journal)
        BY <1>9, <2>1, AtWork
      <3>2. \A b \in Calls : b # c => call[b].at = "idle"
        BY <2>1, <3>1, OthersIdle
      <3>3. TellsTheReview(journal)'
        BY <2>3, <3>1
      <3> QED
        BY <2>4, <2>5, <3>1, <3>2, <3>3 DEF ReviewAlone
    <2>8. ReviewRecord(journal)'
      BY <1>9, <2>3 DEF ReviewInv
    <2> QED
      BY <1>9, <2>2, <2>5, <2>6, <2>7, <2>8, ReviewKept
  <1>10. ASSUME NEW c \in Calls, Target!Finish(c) PROVE ReviewInv'
    BY <1>8, <1>9, <1>10, TargetIsReview DEF Target!Finish
  <1> QED
    BY <1>2, <1>3, <1>4, <1>5, <1>6, <1>7, <1>10
    DEF Target!Next, Target!Prepare, Target!Publish, Target!Keep

(* Only what a call has come to write changes the record.                  *)
LEMMA OnlySaves ==
    ASSUME kind \in Reviews,
           kind = "intake" => Intake!Next,
           kind = "inventory" => Inventory!Next,
           kind = "landing" => Landing!Next,
           kind = "maturity" => Maturity!Next,
           kind = "closure" => Closure!Next,
           kind = "target" => Target!Next
    PROVE  UNCHANGED journal \/ \E c \in Calls : Review!Save(c)
  <1>1. CASE kind = "intake"
    BY <1>1, IntakeIsReview DEF Intake!Next, Intake!Submit, Intake!Advance,
       Intake!Evaluate, Intake!Prepare, Intake!Observe, Intake!Cancel,
       Intake!Finish, Intake!Publish, Intake!Keep, Intake!Publishing,
       Intake!FinishMerged, Intake!Outside, Intake!MainMoves,
       Intake!BranchChanges, Intake!ReviewEnds, Intake!LockIsLost,
       Intake!Begin, Intake!Accept, Intake!Step, Intake!PrepareSource,
       Intake!Cancelling, Intake!Closing, Intake!CancelUnpublished,
       Intake!BeginClose, Intake!CloseReview, Intake!ConfirmClosed,
       Intake!ObserveClosed, Intake!ObserveOpen, Intake!Interrupted,
       Intake!DependencyFails, Intake!CallStops, Intake!TakeReview,
       Intake!MakeBranch, Intake!OpenReview
  <1>2. CASE kind = "inventory"
    BY <1>2, InventoryIsReview DEF Inventory!Next,
       Inventory!SubmitPromotion, Inventory!SubmitLifecycle,
       Inventory!Advance, Inventory!Evaluate, Inventory!PreparePromotion,
       Inventory!PrepareLifecycle, Inventory!Stale, Inventory!Observe,
       Inventory!Cancel, Inventory!FinishPromotion,
       Inventory!FinishLifecycle, Inventory!Publish, Inventory!Keep,
       Inventory!Publishing, Inventory!FinishMerged, Inventory!Outside,
       Inventory!MainMoves, Inventory!BranchChanges, Inventory!ReviewEnds,
       Inventory!LockIsLost, Inventory!Begin, Inventory!Accept,
       Inventory!Step, Inventory!PrepareSource, Inventory!Cancelling,
       Inventory!Closing, Inventory!CancelUnpublished, Inventory!BeginClose,
       Inventory!CloseReview, Inventory!ConfirmClosed,
       Inventory!ObserveClosed, Inventory!ObserveOpen,
       Inventory!Interrupted, Inventory!DependencyFails,
       Inventory!CallStops, Inventory!TakeReview, Inventory!MakeBranch,
       Inventory!OpenReview
  <1>3. CASE kind = "landing"
    BY <1>3, LandingIsReview DEF Landing!Next, Landing!Submit,
       Landing!Advance, Landing!Evaluate, Landing!ReadinessExpires,
       Landing!Prepare, Landing!Observe, Landing!Cancel, Landing!Finish,
       Landing!Publish, Landing!Keep, Landing!Publishing,
       Landing!FinishMerged, Landing!Outside, Landing!MainMoves,
       Landing!BranchChanges, Landing!ReviewEnds, Landing!LockIsLost,
       Landing!Begin, Landing!Accept, Landing!Step, Landing!PrepareSource,
       Landing!Cancelling, Landing!Closing, Landing!CancelUnpublished,
       Landing!BeginClose, Landing!CloseReview, Landing!ConfirmClosed,
       Landing!ObserveClosed, Landing!ObserveOpen, Landing!Interrupted,
       Landing!DependencyFails, Landing!CallStops, Landing!TakeReview,
       Landing!MakeBranch, Landing!OpenReview
  <1>4. CASE kind = "maturity"
    BY <1>4, MaturityIsReview DEF Maturity!Next, Maturity!Submit,
       Maturity!Advance, Maturity!Evaluate, Maturity!Decide,
       Maturity!ReadinessExpires, Maturity!Prepare,
       Maturity!FinishUnchanged, Maturity!Observe, Maturity!Cancel,
       Maturity!Finish, Maturity!Publish, Maturity!Keep,
       Maturity!Publishing, Maturity!FinishMerged, Maturity!Outside,
       Maturity!MainMoves, Maturity!BranchChanges, Maturity!ReviewEnds,
       Maturity!LockIsLost, Maturity!Begin, Maturity!Accept, Maturity!Step,
       Maturity!PrepareSource, Maturity!Cancelling, Maturity!Closing,
       Maturity!CancelUnpublished, Maturity!BeginClose,
       Maturity!CloseReview, Maturity!ConfirmClosed, Maturity!ObserveClosed,
       Maturity!ObserveOpen, Maturity!Interrupted, Maturity!DependencyFails,
       Maturity!CallStops, Maturity!TakeReview, Maturity!MakeBranch,
       Maturity!OpenReview
  <1>5. CASE kind = "closure"
    BY <1>5, ClosureIsReview DEF Closure!Next, Closure!Submit,
       Closure!Advance, Closure!Evaluate, Closure!Decide, Closure!Reconcile,
       Closure!Prepare, Closure!Publish, Closure!Observe, Closure!FindMerge,
       Closure!Readback, Closure!AcceptDisposition, Closure!Cancel,
       Closure!Keep, Closure!Outside, Closure!MainMoves,
       Closure!BranchChanges, Closure!ReviewEnds, Closure!LockIsLost,
       Closure!Begin, Closure!Accept, Closure!Step, Closure!PrepareSource,
       Closure!Cancelling, Closure!Closing, Closure!CancelUnpublished,
       Closure!BeginClose, Closure!CloseReview, Closure!ConfirmClosed,
       Closure!ObserveClosed, Closure!ObserveOpen, Closure!Interrupted,
       Closure!DependencyFails, Closure!CallStops, Closure!TakeReview,
       Closure!MakeBranch, Closure!OpenReview
  <1>6. CASE kind = "target"
    BY <1>6, TargetIsReview DEF Target!Next, Target!Submit, Target!Advance,
       Target!Start, Target!Prepare, Target!Observe, Target!Cancel,
       Target!Finish, Target!Publish, Target!Keep, Target!Publishing,
       Target!Outside, Target!MainMoves, Target!BranchChanges,
       Target!ReviewEnds, Target!LockIsLost, Target!Begin, Target!Accept,
       Target!Step, Target!PrepareSource, Target!Cancelling, Target!Closing,
       Target!CancelUnpublished, Target!BeginClose, Target!CloseReview,
       Target!ConfirmClosed, Target!ObserveClosed, Target!ObserveOpen,
       Target!Interrupted, Target!DependencyFails, Target!CallStops,
       Target!TakeReview, Target!MakeBranch, Target!OpenReview
  <1> QED
    BY <1>1, <1>2, <1>3, <1>4, <1>5, <1>6 DEF Reviews

(* No kind leaves the invariant.                                           *)
LEMMA ReviewStep ==
    ASSUME kind \in Reviews, ReviewInv, [MCNext]_MCVars
    PROVE  ReviewInv' /\ kind' = kind
  <1>1. CASE MCNext
    BY <1>1, IntakeKeeps, InventoryKeeps, LandingKeeps, MaturityKeeps, ClosureKeeps, TargetKeeps
    DEF MCNext, Reviews
  <1>2. CASE UNCHANGED MCVars
    BY <1>2 DEF MCVars, ownerVars, ReviewInv, ReviewTypes, ReviewRecord, Ends, ReviewCall,
                ReviewAlone, TellsTheReview, NothingOpenAt, Review!MergedIsProven,
                Review!HeadIsPrepared
  <1> QED
    BY <1>1, <1>2

(* What the invariant says of a request that ended.                        *)
LEMMA ReviewEnd ==
    ASSUME kind \in Reviews, ReviewInv
    PROVE  /\ Review!SucceededIsReviewed
           /\ kind \in {"intake", "inventory", "closure", "target"} /\ ~faults.lost =>
                 (journal.status \in {"succeeded", "cancelled", "rejected", "requires-action",
                                      "denied", "failed", "blocked", "stale"}
                     => source.review # "open")
  BY DEF ReviewInv, ReviewRecord, TellsTheReview, NothingOpenAt, Review!SucceededIsReviewed,
         Review!MergedIsProven, Review!HeadIsPrepared

(* A call that writes a cancel found no merge, while its lock was its own. *)
LEMMA CancelIsRight ==
    ASSUME kind \in Reviews, ReviewInv, [MCNext]_MCVars
    PROVE  Review!CancelStep
  <1>1. UNCHANGED journal \/ \E c \in Calls : Review!Save(c)
    <2>1. CASE UNCHANGED MCVars
      BY <2>1 DEF MCVars, ownerVars
    <2>2. CASE MCNext
      <3>1. /\ kind = "intake" => Intake!Next
            /\ kind = "inventory" => Inventory!Next
            /\ kind = "landing" => Landing!Next
            /\ kind = "maturity" => Maturity!Next
            /\ kind = "closure" => Closure!Next
            /\ kind = "target" => Target!Next
        BY <2>2 DEF MCNext, Reviews
      <3> QED
        BY <3>1, OnlySaves
    <2> QED
      BY <2>1, <2>2
  <1>2. ASSUME NEW c \in Calls, Review!Save(c) PROVE Review!CancelStep
    <2>1. /\ call[c].at = "save"
          /\ journal' = call[c].record \/ UNCHANGED journal
          /\ ~faults.lost => ReviewAlone(c)
      BY <1>2 DEF Review!Save, Review!Running, Review!Copy, ReviewInv
    <2> QED
      BY <2>1 DEF ReviewAlone, Review!CancelStep
  <1> QED
    BY <1>1, <1>2 DEF Review!CancelStep

-----------------------------------------------------------------------------
(* The credential of a source intent.  What was stopped as never issued    *)
(* was never approved, and nothing is dispatched without an approval; a    *)
(* call that is about to make its effect holds the lock that a stop needs. *)
CredentialTypes ==
    /\ DOMAIN journal = {"prep", "op"} /\ DOMAIN call = Calls
    /\ DOMAIN journal.prep = {"approved", "stopped", "unissued", "receipt"}
    /\ DOMAIN lock = Credential!Commands \cup {Credential!Preparation}
    /\ DOMAIN source = Credential!Commands

CredentialCall(c) ==
    /\ DOMAIN call[c] = {"at", "what", "command", "asked", "retried"}
    /\ call[c].command # Credential!Preparation
    /\ call[c].at \in {"retain", "dispatch"} => journal.prep.approved
    /\ call[c].at \in {"submit", "read", "authorize"} /\ call[c].command = Credential!Revoke
          => journal.prep.approved
    /\ call[c].at = "effect" => lock[Credential!Preparation] = c /\ ~journal.prep.stopped

CredentialInv ==
    /\ CredentialTypes /\ \A c \in Calls : CredentialCall(c)
    /\ journal.prep.unissued => journal.prep.stopped /\ ~journal.prep.approved
    /\ \A m \in Credential!Commands : source[m] # "none" => journal.prep.approved

(* Names of locks and commands.                                            *)
LEMMA CommandsApart ==
    /\ Credential!Preparation \notin Credential!Commands
    /\ Credential!NoCommand # Credential!Preparation
    /\ Credential!NoCommand # Credential!Revoke
    /\ Credential!Issue # Credential!Revoke
    /\ Credential!Issue \in Credential!Commands /\ Credential!Revoke \in Credential!Commands
  BY DEF Credential!Preparation, Credential!Commands, Credential!NoCommand,
         Credential!Issue, Credential!Revoke, Credential!Renew, Credential!None

(* Nothing is approved, and no call has begun.                             *)
LEMMA CredentialInit == Credential!Init => CredentialInv
  BY CommandsApart
  DEF Credential!Init, Credential!NoPreparation, Credential!Idle, Credential!None,
      CredentialInv, CredentialTypes, CredentialCall

(* A step of one call keeps the invariant of the others, unless it takes   *)
(* their lock or stops what they hold.                                     *)
LEMMA CredentialKept ==
    ASSUME CredentialInv, NEW c \in Calls, CredentialTypes', CredentialCall(c)',
           \A b \in Calls : b # c => call'[b] = call[b],
           journal.prep.approved => journal'.prep.approved,
           \A b \in Calls : b # c /\ lock[Credential!Preparation] = b
               => /\ lock'[Credential!Preparation] = b
                  /\ journal'.prep.stopped => journal.prep.stopped,
           journal'.prep.unissued => journal'.prep.stopped /\ ~journal'.prep.approved,
           \A m \in Credential!Commands : source'[m] # "none" => journal'.prep.approved
    PROVE  CredentialInv'
  <1>1. ASSUME NEW b \in Calls PROVE CredentialCall(b)'
    <2>1. CASE b = c
      BY <2>1
    <2>2. CASE b # c
      BY <2>2 DEF CredentialInv, CredentialCall
    <2> QED
      BY <2>1, <2>2
  <1> QED
    BY <1>1 DEF CredentialInv

(* A step that only moves its call, or ends it and frees its locks.        *)
LEMMA CallMoves ==
    ASSUME CredentialInv, NEW c \in Calls, UNCHANGED <<journal, source>>
    PROVE  /\ \A at : /\ Credential!Go(c, at) /\ UNCHANGED lock
                      /\ at \in {"retain", "dispatch"} => journal.prep.approved
                      /\ at \in {"submit", "read", "authorize"}
                            => call[c].at \in {"submit", "read", "authorize"}
                      /\ at # "effect"
                      => CredentialInv'
           /\ Credential!End(c) => CredentialInv'
           /\ \A x : /\ call' = [call EXCEPT ![c] = x] /\ UNCHANGED lock
                     /\ DOMAIN x = {"at", "what", "command", "asked", "retried"}
                     /\ x.command # Credential!Preparation
                     /\ x.at \notin {"retain", "dispatch", "effect"}
                     /\ x.at \in {"submit", "read", "authorize"} /\ x.command = Credential!Revoke
                           => journal.prep.approved
                     => CredentialInv'
  <1>1. CredentialTypes /\ CredentialCall(c)
    BY DEF CredentialInv
  <1>2. /\ journal.prep.unissued => journal.prep.stopped /\ ~journal.prep.approved
        /\ \A m \in Credential!Commands : source[m] # "none" => journal.prep.approved
    BY DEF CredentialInv
  <1>3. ASSUME NEW at, Credential!Go(c, at), UNCHANGED lock,
               at \in {"retain", "dispatch"} => journal.prep.approved,
               at \in {"submit", "read", "authorize"}
                  => call[c].at \in {"submit", "read", "authorize"},
               at # "effect"
        PROVE  CredentialInv'
    <2>1. /\ CredentialTypes' /\ \A b \in Calls : b # c => call'[b] = call[b]
          /\ DOMAIN call'[c] = DOMAIN call[c] /\ call'[c].at = at
          /\ call'[c].command = call[c].command
      BY <1>1, <1>3 DEF Credential!Go, CredentialTypes, CredentialCall
    <2>2. CredentialCall(c)'
      BY <1>1, <1>3, <2>1 DEF CredentialCall
    <2> QED
      BY <1>2, <1>3, <2>1, <2>2, CredentialKept
  <1>4. ASSUME Credential!End(c) PROVE CredentialInv'
    <2>1. /\ CredentialTypes' /\ \A b \in Calls : b # c => call'[b] = call[b]
          /\ call'[c] = Credential!Idle
      BY <1>1, <1>4 DEF Credential!End, CredentialTypes
    <2>2. CredentialCall(c)'
      BY <2>1, CommandsApart DEF CredentialCall, Credential!Idle
    <2>3. \A b \in Calls : b # c /\ lock[Credential!Preparation] = b
             => lock'[Credential!Preparation] = b
      BY <1>1, <1>4 DEF Credential!End, CredentialTypes
    <2> QED
      BY <1>2, <2>1, <2>2, <2>3, CredentialKept
  <1>5. ASSUME NEW x, call' = [call EXCEPT ![c] = x], UNCHANGED lock,
               DOMAIN x = {"at", "what", "command", "asked", "retried"},
               x.command # Credential!Preparation,
               x.at \notin {"retain", "dispatch", "effect"},
               x.at \in {"submit", "read", "authorize"} /\ x.command = Credential!Revoke
                  => journal.prep.approved
        PROVE  CredentialInv'
    <2>1. /\ CredentialTypes' /\ \A b \in Calls : b # c => call'[b] = call[b]
          /\ call'[c] = x
      BY <1>1, <1>5 DEF CredentialTypes
    <2>2. CredentialCall(c)'
      BY <1>5, <2>1 DEF CredentialCall
    <2> QED
      BY <1>2, <1>5, <2>1, <2>2, CredentialKept
  <1> QED
    BY <1>3, <1>4, <1>5

(* What a record keeps of an operation says nothing of the preparation.    *)
LEMMA KeepsPreparation ==
    ASSUME CredentialTypes, NEW m, NEW state, Credential!Keep(m, state)
    PROVE  /\ DOMAIN journal' = {"prep", "op"} /\ journal'.prep = journal.prep
  BY DEF Credential!Keep, CredentialTypes

(* A call works on the operation of its command.                           *)
LEMMA CommandKeeps ==
    ASSUME CredentialInv, NEW c \in Calls
    PROVE  /\ Credential!Submit(c) \/ Credential!Get(c) \/ Credential!Retry(c) => CredentialInv'
           /\ Credential!ReadPreparation(c) \/ Credential!Authorize(c) => CredentialInv'
           /\ Credential!Retain(c) \/ Credential!Blocked(c) => CredentialInv'
           /\ Credential!Dispatch(c) \/ Credential!DispatchUnanswered(c) \/ Credential!Redispatch(c)
                => CredentialInv'
           /\ Credential!Ask(c) \/ Credential!Observe(c) \/ Credential!Submitted(c)
                => CredentialInv'
  <1>1. /\ CredentialTypes /\ CredentialCall(c)
        /\ journal.prep.unissued => journal.prep.stopped /\ ~journal.prep.approved
        /\ \A m \in Credential!Commands : source[m] # "none" => journal.prep.approved
    BY DEF CredentialInv
  <1>2. ASSUME NEW at, at # "effect", Credential!Go(c, at)
        PROVE  /\ DOMAIN call' = Calls
               /\ \A b \in Calls : b # c => call'[b] = call[b]
               /\ DOMAIN call'[c] = DOMAIN call[c] /\ call'[c].at = at
               /\ call'[c].command = call[c].command
    BY <1>1, <1>2 DEF Credential!Go, CredentialTypes, CredentialCall
  <1>3. ASSUME Credential!Refused(c) PROVE CredentialInv'
    BY <1>3, CallMoves DEF Credential!Refused
  <1>4. ASSUME Credential!Submit(c) PROVE CredentialInv'
    <2>1. ASSUME NEW at \in {"read", "submitted"}, call[c].at = "submit", Credential!Go(c, at),
                 lock' = [lock EXCEPT ![call[c].command] = c], UNCHANGED <<source, journal>>
          PROVE  CredentialInv'
      <3>1. CredentialTypes' /\ lock'[Credential!Preparation] = lock[Credential!Preparation]
        BY <1>1, <1>2, <2>1 DEF CredentialTypes, CredentialCall
      <3>2. CredentialCall(c)'
        BY <1>1, <1>2, <2>1 DEF CredentialCall
      <3> QED
        BY <1>1, <1>2, <2>1, <3>1, <3>2, CredentialKept
    <2> QED
      BY <1>3, <1>4, <2>1 DEF Credential!Submit
  <1>5. ASSUME Credential!Get(c) PROVE CredentialInv'
    <2>1. ASSUME NEW at \in {"submitted", "ask"},
                 call' = [call EXCEPT ![c].asked = TRUE, ![c].at = at],
                 lock' = [lock EXCEPT ![call[c].command] = c], UNCHANGED <<source, journal>>
          PROVE  CredentialInv'
      <3>1. CredentialTypes' /\ lock'[Credential!Preparation] = lock[Credential!Preparation]
        BY <1>1, <2>1 DEF CredentialTypes, CredentialCall
      <3>2. CredentialCall(c)' /\ \A b \in Calls : b # c => call'[b] = call[b]
        BY <1>1, <2>1 DEF CredentialCall, CredentialTypes
      <3> QED
        BY <1>1, <2>1, <3>1, <3>2, CredentialKept
    <2> QED
      BY <1>3, <1>5, <2>1 DEF Credential!Get
  <1>6. ASSUME Credential!Retry(c) PROVE CredentialInv'
    <2>1. ASSUME Credential!Open, Credential!Go(c, "redispatch"),
                 lock' = [lock EXCEPT ![call[c].command] = c], UNCHANGED source,
                 journal' = [journal EXCEPT !.prep.approved = TRUE]
          PROVE  CredentialInv'
      <3>1. /\ CredentialTypes' /\ lock'[Credential!Preparation] = lock[Credential!Preparation]
            /\ journal'.prep.approved /\ journal'.prep.stopped = journal.prep.stopped
            /\ journal'.prep.unissued = journal.prep.unissued
        BY <1>1, <1>2, <2>1 DEF CredentialTypes, CredentialCall
      <3>2. CredentialCall(c)'
        BY <1>1, <1>2, <2>1, <3>1 DEF CredentialCall
      <3>3. ~journal.prep.unissued
        BY <1>1, <2>1 DEF Credential!Open, Credential!Prep
      <3> QED
        BY <1>1, <1>2, <2>1, <3>1, <3>2, <3>3, CredentialKept
    <2> QED
      BY <1>3, <1>6, <2>1 DEF Credential!Retry, Credential!Authorized
  <1>7. ASSUME Credential!ReadPreparation(c) PROVE CredentialInv'
    <2>1. CASE call[c].at = "read" /\ Credential!Go(c, "authorize")
               /\ UNCHANGED <<source, journal, lock>>
      BY <2>1, CallMoves
    <2> QED
      BY <1>3, <1>7, <2>1 DEF Credential!ReadPreparation
  <1>8. ASSUME Credential!Authorize(c) PROVE CredentialInv'
    <2>1. ASSUME call[c].at = "authorize", lock[Credential!Preparation] = "none",
                 Credential!Go(c, "retain"), UNCHANGED <<source, lock>>,
                 \/ call[c].command = Credential!Revoke
                    /\ journal' = [journal EXCEPT !.prep.stopped = TRUE]
                 \/ Credential!Open /\ journal' = [journal EXCEPT !.prep.approved = TRUE]
          PROVE  CredentialInv'
      <3>1. /\ CredentialTypes'
            /\ journal'.prep.approved /\ ~journal'.prep.unissued
        BY <1>1, <1>2, <2>1 DEF CredentialTypes, CredentialCall, Credential!Open, Credential!Prep
      <3>2. CredentialCall(c)'
        BY <1>1, <1>2, <2>1, <3>1 DEF CredentialCall
      <3> QED
        BY <1>1, <1>2, <2>1, <3>1, <3>2, CredentialKept, CallsAssumption
    <2> QED
      BY <1>3, <1>8, <2>1 DEF Credential!Authorize, Credential!Authorized, Credential!Unlocked,
                              Credential!None
  <1>9. ASSUME NEW at \in {"dispatch", "submitted", "observe"},
               at = "dispatch" => journal.prep.approved,
               Credential!Go(c, at), UNCHANGED lock,
               DOMAIN source' = DOMAIN source,
               UNCHANGED source \/ journal.prep.approved,
               \/ UNCHANGED journal
               \/ \E m, state : Credential!Keep(m, state)
        PROVE  CredentialInv'
    <2>1. /\ DOMAIN journal' = {"prep", "op"} /\ journal'.prep = journal.prep
      BY <1>1, <1>9, KeepsPreparation DEF CredentialTypes
    <2>2. CredentialTypes'
      BY <1>1, <1>2, <1>9, <2>1 DEF CredentialTypes
    <2>3. CredentialCall(c)'
      BY <1>1, <1>2, <1>9, <2>1 DEF CredentialCall
    <2> QED
      BY <1>1, <1>2, <1>9, <2>1, <2>2, <2>3, CredentialKept
  <1>10. ASSUME Credential!Retain(c) \/ Credential!Blocked(c) PROVE CredentialInv'
    BY <1>1, <1>9, <1>10 DEF Credential!Retain, Credential!Blocked, CredentialCall
  <1>11. ASSUME Credential!Dispatch(c) \/ Credential!DispatchUnanswered(c) PROVE CredentialInv'
    <2>1. journal.prep.approved
      BY <1>1, <1>11 DEF Credential!Dispatch, Credential!DispatchUnanswered, CredentialCall
    <2> QED
      BY <1>9, <1>11, <2>1 DEF Credential!Dispatch, Credential!DispatchUnanswered, Credential!Started
  <1>12. ASSUME Credential!Redispatch(c) PROVE CredentialInv'
    <2>1. /\ source' = [source EXCEPT ![call[c].command] = IF @ = "failed" THEN "running" ELSE @]
          /\ UNCHANGED lock
          /\ \/ Credential!Go(c, "observe") /\ UNCHANGED journal
             \/ Credential!Keep(call[c].command, "blocked") /\ Credential!Go(c, "submitted")
      BY <1>12 DEF Credential!Redispatch
    <2>2. CASE \E m \in Credential!Commands : source[m] # "none"
      BY <1>1, <1>9, <2>1, <2>2
    <2>3. CASE ~\E m \in Credential!Commands : source[m] # "none"
      <3>1. \A m \in Credential!Commands : source'[m] = source[m]
        BY <1>1, <2>1, <2>3 DEF CredentialTypes
      <3>2. DOMAIN source' = DOMAIN source /\ DOMAIN journal' = {"prep", "op"}
            /\ journal'.prep = journal.prep
        BY <1>1, <2>1, KeepsPreparation DEF CredentialTypes
      <3>3. CredentialTypes' /\ CredentialCall(c)'
        BY <1>1, <1>2, <2>1, <3>2 DEF CredentialTypes, CredentialCall
      <3> QED
        BY <1>1, <1>2, <2>1, <3>1, <3>2, <3>3, CredentialKept
    <2> QED
      BY <2>2, <2>3
  <1>13. ASSUME Credential!Ask(c) PROVE CredentialInv'
    BY <1>9, <1>13 DEF Credential!Ask
  <1>14. ASSUME Credential!Observe(c) PROVE CredentialInv'
    <2>1. /\ Credential!Go(c, "submitted") /\ UNCHANGED <<source, lock>>
          /\ \/ journal'.prep = journal.prep
             \/ /\ lock[Credential!Preparation] = "none"
                /\ journal'.prep = Credential!Observed(call[c].command)
          /\ DOMAIN journal' = {"prep", "op"}
      BY <1>1, <1>14 DEF Credential!Observe, Credential!Unlocked, Credential!Prep,
                         Credential!None, CredentialTypes
    <2>2. /\ DOMAIN journal'.prep = {"approved", "stopped", "unissued", "receipt"}
          /\ journal'.prep.approved = journal.prep.approved
          /\ journal'.prep.unissued = journal.prep.unissued
          /\ journal.prep.stopped => journal'.prep.stopped
      BY <1>1, <2>1 DEF Credential!Observed, Credential!Prep, CredentialTypes
    <2>3. CredentialTypes' /\ CredentialCall(c)'
      BY <1>1, <1>2, <2>1, <2>2 DEF CredentialTypes, CredentialCall
    <2>4. \A b \in Calls : b # c /\ lock[Credential!Preparation] = b
             => lock'[Credential!Preparation] = b
                /\ (journal'.prep.stopped => journal.prep.stopped)
      BY <2>1, CallsAssumption
    <2> QED
      BY <1>1, <1>2, <2>1, <2>2, <2>3, <2>4, CredentialKept
  <1>15. ASSUME Credential!Submitted(c) PROVE CredentialInv'
    <2>1. /\ lock' = [lock EXCEPT ![call[c].command] = "none"]
          /\ \/ \E at \in {"confirm", "get"} : Credential!Go(c, at)
             \/ call' = [call EXCEPT ![c] = Credential!Idle]
          /\ UNCHANGED <<source, journal>>
      BY <1>15 DEF Credential!Submitted, Credential!None
    <2>2. CredentialTypes' /\ CredentialCall(c)' /\ \A b \in Calls : b # c => call'[b] = call[b]
      <3>1. CASE \E at \in {"confirm", "get"} : Credential!Go(c, at)
        BY <1>1, <1>2, <2>1, <3>1 DEF CredentialTypes, CredentialCall
      <3>2. CASE call' = [call EXCEPT ![c] = Credential!Idle]
        BY <1>1, <2>1, <3>2, CommandsApart DEF CredentialTypes, CredentialCall, Credential!Idle
      <3> QED
        BY <2>1, <3>1, <3>2
    <2>3. lock'[Credential!Preparation] = lock[Credential!Preparation]
      BY <1>1, <2>1 DEF CredentialTypes, CredentialCall
    <2> QED
      BY <1>1, <2>1, <2>2, <2>3, CredentialKept
  <1> QED
    BY <1>4, <1>5, <1>6, <1>7, <1>8, <1>10, <1>11, <1>12, <1>13, <1>14, <1>15

(* A source action looks for its credential, holds the lock of its         *)
(* preparation and makes its effect; the operator begins and stops.        *)
LEMMA ActionKeeps ==
    ASSUME CredentialInv, NEW c \in Calls
    PROVE  /\ Credential!Approve(c) \/ Credential!ReadOperation(c) \/ Credential!Ensure(c)
                => CredentialInv'
           /\ Credential!Stop(c) \/ Credential!StopUnissued(c) => CredentialInv'
           /\ Credential!Confirm(c) \/ Credential!Lease(c) \/ Credential!SourceEffect(c)
                \/ Credential!Release(c) \/ Credential!CallStops(c)
                => CredentialInv'
  <1>1. /\ CredentialTypes /\ CredentialCall(c)
        /\ journal.prep.unissued => journal.prep.stopped /\ ~journal.prep.approved
        /\ \A m \in Credential!Commands : source[m] # "none" => journal.prep.approved
    BY DEF CredentialInv
  <1>2. ASSUME NEW x, call' = [call EXCEPT ![c] = x]
        PROVE  DOMAIN call' = Calls /\ call'[c] = x /\ \A b \in Calls : b # c => call'[b] = call[b]
    BY <1>1, <1>2 DEF CredentialTypes
  <1>3. ASSUME Credential!Approve(c) \/ Credential!ReadOperation(c) \/ Credential!Ensure(c)
        PROVE  CredentialInv'
    <2>1. UNCHANGED <<journal, source, lock>>
      BY <1>3 DEF Credential!Approve, Credential!ReadOperation, Credential!Ensure
    <2>2. \/ \E what : \E m \in Credential!Commands :
                /\ call' = [call EXCEPT ![c] = [Credential!Idle EXCEPT
                                !.at = "submit", !.what = what, !.command = m]]
                /\ m = Credential!Revoke => journal.prep.approved
          \/ \E what : \E m \in Credential!Commands :
                call' = [call EXCEPT ![c] = [Credential!Idle EXCEPT
                                !.at = "get", !.what = what, !.command = m]]
          \/ \E what : call' = [call EXCEPT ![c] = [Credential!Idle EXCEPT
                                !.at = "lease", !.what = what]]
      BY <1>3, CommandsApart
      DEF Credential!Approve, Credential!ReadOperation, Credential!Ensure, Credential!LeaseContext,
          Credential!Prep
    <2>3. ASSUME NEW what, NEW m \in Credential!Commands, NEW at \in {"submit", "get"},
                 at = "submit" /\ m = Credential!Revoke => journal.prep.approved,
                 call' = [call EXCEPT ![c] = [Credential!Idle EXCEPT
                                !.at = at, !.what = what, !.command = m]]
          PROVE  CredentialInv'
      <3> DEFINE x == [Credential!Idle EXCEPT !.at = at, !.what = what, !.command = m]
      <3>1. /\ DOMAIN x = {"at", "what", "command", "asked", "retried"}
            /\ x.at = at /\ x.command = m
        BY DEF Credential!Idle
      <3>2. call' = [call EXCEPT ![c] = x]
        BY <2>3
      <3> HIDE DEF x
      <3> QED
        BY <2>1, <2>3, <3>1, <3>2, CallMoves, CommandsApart
    <2>4. ASSUME NEW what, call' = [call EXCEPT ![c] = [Credential!Idle EXCEPT
                                !.at = "lease", !.what = what]]
          PROVE  CredentialInv'
      <3> DEFINE x == [Credential!Idle EXCEPT !.at = "lease", !.what = what]
      <3>1. /\ DOMAIN x = {"at", "what", "command", "asked", "retried"}
            /\ x.at = "lease" /\ x.command = Credential!NoCommand
        BY DEF Credential!Idle
      <3>2. call' = [call EXCEPT ![c] = x]
        BY <2>4
      <3> HIDE DEF x
      <3> QED
        BY <2>1, <3>1, <3>2, CallMoves, CommandsApart
    <2> QED
      BY <2>2, <2>3, <2>4
  <1>4. ASSUME Credential!Stop(c) PROVE CredentialInv'
    <2>1. /\ journal.prep.approved /\ lock[Credential!Preparation] = "none"
          /\ journal' = [journal EXCEPT !.prep.stopped = TRUE]
          /\ call' = [call EXCEPT ![c] = [Credential!Idle EXCEPT
                         !.at = "submit", !.what = "stop", !.command = Credential!Revoke]]
          /\ UNCHANGED <<source, lock>>
      BY <1>4 DEF Credential!Stop, Credential!Unlocked, Credential!Prep, Credential!None
    <2>2. /\ CredentialTypes' /\ journal'.prep.approved /\ ~journal'.prep.unissued
      BY <1>1, <1>2, <2>1 DEF CredentialTypes
    <2>3. CredentialCall(c)'
      BY <1>2, <2>1, <2>2, CommandsApart DEF CredentialCall, Credential!Idle
    <2> QED
      BY <1>1, <1>2, <2>1, <2>2, <2>3, CredentialKept, CallsAssumption
  <1>5. ASSUME Credential!StopUnissued(c) PROVE CredentialInv'
    <2>1. /\ ~journal.prep.approved /\ lock[Credential!Preparation] = "none"
          /\ journal' = [journal EXCEPT !.prep.stopped = TRUE, !.prep.unissued = TRUE]
          /\ call[c].at = "idle"
          /\ UNCHANGED <<source, lock, call>>
      BY <1>5 DEF Credential!StopUnissued, Credential!Unlocked, Credential!Prep, Credential!None
    <2>2. /\ CredentialTypes' /\ ~journal'.prep.approved /\ journal'.prep.stopped
      BY <1>1, <2>1 DEF CredentialTypes
    <2>3. CredentialCall(c)'
      BY <1>1, <2>1, <2>2 DEF CredentialCall
    <2> QED
      BY <1>1, <2>1, <2>2, <2>3, CredentialKept, CallsAssumption
  <1>6. ASSUME Credential!Refused(c) PROVE CredentialInv'
    BY <1>6, CallMoves DEF Credential!Refused
  <1>7. ASSUME Credential!Confirm(c) PROVE CredentialInv'
    <2>1. CASE call' = [call EXCEPT ![c].at = "retry", ![c].retried = TRUE]
               /\ UNCHANGED <<journal, source, lock>>
      <3> DEFINE x == [call[c] EXCEPT !.at = "retry", !.retried = TRUE]
      <3>1. call' = [call EXCEPT ![c] = x]
        BY <1>1, <2>1 DEF CredentialTypes
      <3>2. /\ DOMAIN x = {"at", "what", "command", "asked", "retried"}
            /\ x.at = "retry" /\ x.command # Credential!Preparation
        BY <1>1 DEF CredentialCall
      <3> HIDE DEF x
      <3> QED
        BY <2>1, <3>1, <3>2, CallMoves
    <2>2. CASE Credential!Go(c, "lease") /\ UNCHANGED <<journal, source, lock>>
      BY <2>2, CallMoves
    <2> QED
      BY <1>6, <1>7, <2>1, <2>2 DEF Credential!Confirm
  <1>8. ASSUME Credential!Lease(c) PROVE CredentialInv'
    <2>1. CASE /\ Credential!Leased /\ Credential!Go(c, "effect")
               /\ lock' = [lock EXCEPT ![Credential!Preparation] = c]
               /\ UNCHANGED <<source, journal>>
      <3>1. /\ CredentialTypes' /\ lock'[Credential!Preparation] = c
            /\ DOMAIN call'[c] = DOMAIN call[c] /\ call'[c].at = "effect"
            /\ call'[c].command = call[c].command
            /\ \A b \in Calls : b # c => call'[b] = call[b]
        BY <1>1, <2>1 DEF CredentialTypes, CredentialCall, Credential!Go
      <3>2. lock[Credential!Preparation] = "none" /\ ~journal.prep.stopped
        BY <2>1 DEF Credential!Leased, Credential!Unlocked, Credential!Open, Credential!Prep,
                    Credential!None
      <3>3. CredentialCall(c)'
        BY <1>1, <2>1, <3>1, <3>2 DEF CredentialCall
      <3> QED
        BY <1>1, <2>1, <3>1, <3>2, <3>3, CredentialKept, CallsAssumption
    <2> QED
      BY <1>6, <1>8, <2>1 DEF Credential!Lease
  <1>9. ASSUME Credential!SourceEffect(c) PROVE CredentialInv'
    BY <1>9, CallMoves DEF Credential!SourceEffect
  <1>10. ASSUME Credential!Release(c) \/ Credential!CallStops(c) PROVE CredentialInv'
    BY <1>6, <1>10, CallMoves DEF Credential!Release, Credential!CallStops
  <1> QED
    BY <1>3, <1>4, <1>5, <1>7, <1>8, <1>9, <1>10

(* Every step of a credential keeps its invariant.                         *)
LEMMA CredentialStep ==
    ASSUME kind = "credential", CredentialInv, [MCNext]_MCVars
    PROVE  CredentialInv' /\ kind' = kind
  <1>1. CASE UNCHANGED MCVars
    BY <1>1 DEF MCVars, ownerVars, CredentialInv, CredentialTypes, CredentialCall
  <1>2. CASE Credential!OwnerEnds \/ Credential!Expires
    <2>1. UNCHANGED <<journal, lock, call>>
      BY <1>2 DEF Credential!OwnerEnds, Credential!Expires
    <2>2. /\ DOMAIN source' = DOMAIN source
          /\ \A m \in Credential!Commands : source'[m] # "none" => source[m] # "none"
      BY <1>2 DEF Credential!OwnerEnds, Credential!Expires, CredentialInv, CredentialTypes
    <2>3. CredentialInv'
      BY <2>1, <2>2 DEF CredentialInv, CredentialTypes, CredentialCall
    <2>4. kind' = kind
      BY DEF MCNext, MCVars
    <2> QED
      BY <2>3, <2>4
  <1>3. CASE Credential!Next
    <2>1. kind' = kind
      BY DEF MCNext, MCVars
    <2> QED
      BY <1>2, <1>3, <2>1, CommandKeeps, ActionKeeps DEF Credential!Next
  <1> QED
    BY <1>1, <1>3 DEF MCNext, Reviews

(* The receipt of a revocation stays, and an effect is made in time.       *)
LEMMA CredentialSteps ==
    ASSUME kind = "credential", CredentialInv, [MCNext]_MCVars
    PROVE  Credential!EffectStep /\ Credential!RevokedStep
  <1>1. Credential!EffectStep
    <2>1. ASSUME NEW c \in Calls, call[c].at = "effect" PROVE ~journal.prep.stopped
      BY <2>1 DEF CredentialInv, CredentialCall
    <2> QED
      BY <2>1 DEF Credential!EffectStep, Credential!Prep
  <1>2. CASE UNCHANGED MCVars
    BY <1>1, <1>2 DEF MCVars, ownerVars, Credential!RevokedStep, Credential!Prep
  <1>3. CASE Credential!Next
    <2>1. DOMAIN journal = {"prep", "op"}
          /\ DOMAIN journal.prep = {"approved", "stopped", "unissued", "receipt"}
      BY DEF CredentialInv, CredentialTypes
    <2>2. ASSUME NEW c \in Calls, Credential!Observe(c) PROVE Credential!RevokedStep
      <3>1. \/ journal'.prep = journal.prep
            \/ journal'.prep = Credential!Observed(call[c].command)
        BY <2>1, <2>2 DEF Credential!Observe, Credential!Prep
      <3>2. Credential!Observed(call[c].command).receipt =
               IF Credential!Replaces(call[c].command) THEN call[c].command ELSE journal.prep.receipt
        BY <2>1 DEF Credential!Observed, Credential!Prep
      <3>3. journal.prep.receipt = Credential!Revoke /\ Credential!Replaces(call[c].command)
               => call[c].command = Credential!Revoke
        BY CommandsApart DEF Credential!Replaces, Credential!Prep
      <3> QED
        BY <3>1, <3>2, <3>3 DEF Credential!RevokedStep, Credential!Prep
    <2>3. ASSUME NEW m, NEW state, Credential!Keep(m, state) PROVE Credential!RevokedStep
      BY <2>1, <2>3 DEF Credential!Keep, Credential!RevokedStep, Credential!Prep
    <2>4. ASSUME \/ UNCHANGED journal
                 \/ journal' = [journal EXCEPT !.prep.stopped = TRUE]
                 \/ journal' = [journal EXCEPT !.prep.approved = TRUE]
                 \/ journal' = [journal EXCEPT !.prep.stopped = TRUE, !.prep.unissued = TRUE]
          PROVE  Credential!RevokedStep
      BY <2>1, <2>4 DEF Credential!RevokedStep, Credential!Prep
    <2>5. \/ \E c \in Calls : Credential!Observe(c)
          \/ \E m, state : Credential!Keep(m, state)
          \/ UNCHANGED journal
          \/ journal' = [journal EXCEPT !.prep.stopped = TRUE]
          \/ journal' = [journal EXCEPT !.prep.approved = TRUE]
          \/ journal' = [journal EXCEPT !.prep.stopped = TRUE, !.prep.unissued = TRUE]
      BY <1>3
      DEF Credential!Next, Credential!Approve, Credential!Stop, Credential!StopUnissued,
          Credential!ReadOperation, Credential!Submit, Credential!ReadPreparation,
          Credential!Authorize, Credential!Retain, Credential!Dispatch,
          Credential!DispatchUnanswered, Credential!Blocked, Credential!Ask, Credential!Get,
          Credential!Retry, Credential!Redispatch, Credential!Submitted, Credential!Ensure,
          Credential!Confirm, Credential!Lease, Credential!SourceEffect, Credential!Release,
          Credential!CallStops, Credential!OwnerEnds, Credential!Expires, Credential!Refused
    <2> QED
      BY <1>1, <2>2, <2>3, <2>4, <2>5, Zenon
  <1> QED
    BY <1>1, <1>2, <1>3 DEF MCNext, Reviews

-----------------------------------------------------------------------------
(* A model operation.  A change that the owner has made is of the attempt  *)
(* that the record is at, and the record then says that the owner may have *)
(* been called, until it has the receipt.                                  *)
ModelTypes ==
    /\ DOMAIN source = {"current", "applied", "login"}
    /\ DOMAIN journal = {"action", "state", "started", "receipt", "attempt", "cancels",
                         "login", "events"}
    /\ DOMAIN call = {"dispatcher", "reader"}
    /\ DOMAIN call["dispatcher"] =
          {"at", "prior", "receipt", "login", "attempt", "cancels"}

Applied == source.applied

ModelRecord ==
    /\ journal.action = "none" => journal.state = "none"
    /\ journal.state # "awaiting-account"
    /\ Applied \subseteq {journal.attempt}
    /\ ~journal.receipt /\ ~journal.started => Applied = {}
    /\ journal.receipt \/ journal.state = "completed" => Applied # {}
    /\ journal.state \in {"cancelled", "rejected"} => Applied = {}

ModelDispatcher ==
    LET d == call["dispatcher"] IN
    /\ d.at \in {"idle", "command", "retain", "readback", "finish"}
    /\ d.at # "idle" => /\ journal.started /\ journal.state = "running"
                        /\ d.attempt = journal.attempt
    /\ d.at = "command" => ~journal.receipt /\ (~d.prior => Applied = {})
    /\ d.at \in {"retain", "readback", "finish"} => Applied # {}
    /\ d.at \in {"readback", "finish"} => journal.receipt

ModelInv ==
    /\ ModelTypes
    /\ journal.action # "sign-in" =>
          ModelRecord /\ ModelDispatcher /\ call["reader"].at = "idle"

(* What an event changes of a record, and a step of one of the two calls   *)
(* of the other.                                                           *)
LEMMA ModelChanges ==
    ASSUME ModelTypes
    PROVE  /\ \A r, state :
                 DOMAIN r = DOMAIN journal
                 => /\ DOMAIN Model!Event(r, state) = DOMAIN journal
                    /\ Model!Event(r, state).state = state
                    /\ Model!Event(r, state).action = r.action
                    /\ Model!Event(r, state).attempt = r.attempt
                    /\ Model!Event(r, state).receipt = r.receipt
                    /\ Model!Event(r, state).started = r.started
           /\ \A r : Model!At("dispatcher", r)
                 => /\ DOMAIN call' = DOMAIN call /\ call'["dispatcher"] = r
                    /\ call'["reader"] = call["reader"]
           /\ \A r : Model!At("reader", r)
                 => /\ DOMAIN call' = DOMAIN call /\ call'["reader"] = r
                    /\ call'["dispatcher"] = call["dispatcher"]
  BY DEF ModelTypes, Model!Event, Model!At

(* A dispatcher that ends leaves nothing half done: what the record says   *)
(* of the owner is kept, whatever failed.                                  *)
LEMMA DispatcherEnds ==
    ASSUME ModelInv, Model!At("dispatcher", Model!Idle), DOMAIN source' = DOMAIN source,
           DOMAIN journal' = DOMAIN journal, journal'.action = journal.action,
           journal.action # "sign-in" =>
              /\ journal'.receipt = journal.receipt /\ journal'.attempt = journal.attempt
              /\ journal'.state \in {"running", "unknown", "retryable", "rejected", "blocked"}
              /\ source'.applied \subseteq {journal.attempt}
              /\ source.applied # {} => source'.applied # {}
              /\ ~journal'.receipt /\ ~journal'.started => source'.applied = {}
              /\ journal'.state = "rejected" => source'.applied = {},
           call["dispatcher"].at # "idle"
    PROVE  ModelInv'
  <1>1. /\ DOMAIN call' = DOMAIN call /\ call'["dispatcher"] = Model!Idle
        /\ call'["reader"] = call["reader"]
    BY ModelChanges DEF ModelInv
  <1>2. /\ DOMAIN Model!Idle = {"at", "prior", "receipt", "login", "attempt", "cancels"}
        /\ Model!Idle.at = "idle"
    BY DEF Model!Idle
  <1>3. ModelTypes'
    BY <1>1, <1>2 DEF ModelInv, ModelTypes
  <1>4. journal.action # "sign-in" => ModelRecord' /\ ModelDispatcher'
    BY <1>1, <1>2 DEF ModelInv, ModelRecord, ModelDispatcher, Applied
  <1> QED
    BY <1>1, <1>3, <1>4 DEF ModelInv

(* What the dispatcher writes of a failure.                                *)
LEMMA FailureIsSo ==
    ASSUME ModelInv, journal.action # "sign-in", call["dispatcher"].at # "idle",
           NEW f \in Model!Failures
    PROVE  /\ Model!StateOfFailure(f) \in {"unknown", "retryable", "rejected", "blocked"}
           /\ Model!StateOfFailure(f) = "rejected" => source.applied = {}
           /\ ~Model!StartedAfter(f) => journal.receipt \/ source.applied = {}
  BY DEF ModelInv, ModelRecord, ModelDispatcher, Applied, Model!Failures, Model!StateOfFailure,
         Model!StartedAfter, Model!EffectFree, Model!Knows, Model!Dispatcher, Model!SignIn

(* The owner changes its configuration, or keeps a sign-in.                *)
LEMMA OwnerAnswers ==
    ASSUME ModelInv, call["dispatcher"].at = "command",
           Model!OwnerChanges \/ Model!OwnerSignsIn
    PROVE  /\ DOMAIN source' = DOMAIN source
           /\ journal.action # "sign-in" =>
                 /\ source'.applied = {journal.attempt}
                 /\ ~Model!SignIn
  <1>1. Model!SignIn <=> journal.action = "sign-in"
    BY DEF Model!SignIn
  <1>2. DOMAIN source = {"current", "applied", "login"}
    BY DEF ModelInv, ModelTypes
  <1>3. CASE Model!OwnerSignsIn
    BY <1>1, <1>2, <1>3 DEF Model!OwnerSignsIn
  <1>4. CASE Model!OwnerChanges
    BY <1>1, <1>2, <1>4 DEF Model!OwnerChanges, Model!Dispatcher, ModelInv, ModelRecord,
                            ModelDispatcher, Applied
  <1> QED
    BY <1>3, <1>4

(* Every step keeps the invariant.                                         *)
LEMMA ModelNext ==
    ASSUME ModelInv, Model!Next
    PROVE  ModelInv'
  <1> DEFINE d == call["dispatcher"]
  <1>a. /\ DOMAIN journal = {"action", "state", "started", "receipt", "attempt", "cancels",
                             "login", "events"}
        /\ ModelTypes
    BY DEF ModelInv, ModelTypes
  <1>0. ASSUME NEW action \in {"configure", "sign-in"}, Model!Create(action) PROVE ModelInv'
    BY <1>0 DEF Model!Create, Model!Event, Model!NoRecord, ModelInv, ModelTypes, ModelRecord,
                ModelDispatcher, Applied, Model!None
  <1>1. CASE Model!CreateAgain
    BY <1>1 DEF ModelInv, ModelTypes, ModelRecord, ModelDispatcher, Applied,
       Model!CreateAgain, Model!None
  <1>2. CASE Model!RetainReceipt
    BY <1>2 DEF ModelInv, ModelTypes, ModelRecord, ModelDispatcher, Applied,
       Model!RetainReceipt, Model!Dispatcher, Model!At, Model!None
  <1>3. CASE Model!ReadBack
    BY <1>3 DEF ModelInv, ModelTypes, ModelRecord, ModelDispatcher, Applied,
       Model!ReadBack, Model!Dispatcher, Model!At, Model!None
  <1>4. CASE Model!Finish
    BY <1>4 DEF ModelInv, ModelTypes, ModelRecord, ModelDispatcher, Applied,
       Model!Finish, Model!Dispatcher, Model!At, Model!Event, Model!SignIn,
       Model!Idle, Model!None
  <1>5. CASE Model!ReadLogin
    BY <1>5 DEF ModelInv, ModelTypes, ModelRecord, ModelDispatcher, Applied,
       Model!ReadLogin, Model!Reader, Model!At, Model!Idle, Model!None
  <1>6. CASE Model!Cancel
    BY <1>6 DEF ModelInv, ModelTypes, ModelRecord, ModelDispatcher, Applied,
       Model!Cancel, Model!CancelsUndispatched, Model!Undispatched,
       Model!Event, Model!None
  <1>7. CASE Model!Retry
    BY <1>7 DEF ModelInv, ModelTypes, ModelRecord, ModelDispatcher, Applied,
       Model!Retry, Model!Undispatched, Model!Queue, Model!Event,
       Model!Dispatcher, Model!None
  <1>8. CASE Model!Reconcile
    BY <1>8 DEF ModelInv, ModelTypes, ModelRecord, ModelDispatcher, Applied,
       Model!Reconcile, Model!Queue, Model!Event, Model!Dispatcher,
       Model!None
  <1>9. CASE Model!Restart
    BY <1>9 DEF ModelInv, ModelTypes, ModelRecord, ModelDispatcher, Applied,
       Model!Restart, Model!Idle, Model!None
  <1>10. CASE Model!OthersEdit
    BY <1>10 DEF ModelInv, ModelTypes, ModelRecord, ModelDispatcher,
       Applied, Model!OthersEdit, Model!None
  <1>11. CASE Model!LoginEnds
    BY <1>11 DEF ModelInv, ModelTypes, ModelRecord, ModelDispatcher,
       Applied, Model!LoginEnds, Model!None
  <1>12. CASE Model!Dispatch
    <2>1. CASE UNCHANGED <<source, journal, call>>
      BY <2>1 DEF ModelInv, ModelTypes, ModelRecord, ModelDispatcher, Applied
    <2> DEFINE r == [journal EXCEPT !.started = TRUE]
               next == [Model!Idle EXCEPT !.prior = journal.started,
                   !.attempt = journal.attempt, !.cancels = journal.cancels,
                   !.receipt = journal.receipt,
                   !.at = IF journal.receipt THEN "readback" ELSE "command"]
    <2>2. CASE journal.state = "queued" /\ journal' = Model!Event(r, "running")
               /\ Model!At("dispatcher", next) /\ UNCHANGED source
      <3>1. /\ DOMAIN next = {"at", "prior", "receipt", "login", "attempt", "cancels"}
            /\ next.at = (IF journal.receipt THEN "readback" ELSE "command")
            /\ next.prior = journal.started /\ next.attempt = journal.attempt
        BY DEF Model!Idle
      <3>2. /\ DOMAIN r = DOMAIN journal /\ r.started /\ r.action = journal.action
            /\ r.attempt = journal.attempt /\ r.receipt = journal.receipt
        BY <1>a
      <3> HIDE DEF next, r
      <3>3. /\ DOMAIN journal' = DOMAIN journal /\ journal'.state = "running"
            /\ journal'.started /\ journal'.action = journal.action
            /\ journal'.attempt = journal.attempt /\ journal'.receipt = journal.receipt
            /\ DOMAIN call' = DOMAIN call /\ call'["dispatcher"] = next
            /\ call'["reader"] = call["reader"]
        BY <1>a, <2>2, <3>2, ModelChanges
      <3>4. ModelTypes'
        BY <1>a, <2>2, <3>1, <3>3 DEF ModelTypes
      <3>5. journal.action # "sign-in" => ModelRecord' /\ ModelDispatcher'
        BY <2>2, <3>1, <3>3 DEF ModelInv, ModelRecord, ModelDispatcher, Applied
      <3> QED
        BY <3>3, <3>4, <3>5 DEF ModelInv
    <2> QED
      BY <1>12, <2>1, <2>2 DEF Model!Dispatch
  <1>13. CASE Model!CommandAnswered
    <2> DEFINE next == [d EXCEPT !.receipt = ~Model!SignIn,
                                 !.at = IF Model!SignIn THEN "readback" ELSE "retain"]
    <2>1. /\ d.at = "command" /\ Model!At("dispatcher", next) /\ UNCHANGED journal
          /\ Model!OwnerChanges \/ Model!OwnerSignsIn
      BY <1>13 DEF Model!CommandAnswered, Model!Dispatcher
    <2>2. /\ DOMAIN next = {"at", "prior", "receipt", "login", "attempt", "cancels"}
          /\ ~Model!SignIn => next.at = "retain"
          /\ next.attempt = d.attempt
      BY <1>a DEF ModelTypes
    <2>3. /\ DOMAIN source' = DOMAIN source
          /\ journal.action # "sign-in" => source'.applied = {journal.attempt} /\ ~Model!SignIn
      BY <2>1, OwnerAnswers
    <2> HIDE DEF next
    <2>4. /\ DOMAIN call' = DOMAIN call /\ call'["dispatcher"] = next
          /\ call'["reader"] = call["reader"]
      BY <1>a, <2>1, ModelChanges
    <2>5. ModelTypes'
      BY <1>a, <2>1, <2>2, <2>3, <2>4 DEF ModelTypes
    <2>6. journal.action # "sign-in" => ModelRecord' /\ ModelDispatcher'
      BY <2>1, <2>2, <2>3, <2>4 DEF ModelInv, ModelRecord, ModelDispatcher, Applied
    <2> QED
      BY <2>1, <2>4, <2>5, <2>6 DEF ModelInv
  <1>14. CASE Model!DispatchFails
    <2>1. d.at # "idle" /\ Model!At("dispatcher", Model!Idle) /\ UNCHANGED source
      BY <1>14 DEF Model!DispatchFails, Model!Dispatcher
    <2>2. CASE UNCHANGED journal
      BY <1>a, <2>1, <2>2, DispatcherEnds DEF ModelInv, ModelRecord, ModelDispatcher, Applied
    <2>3. ASSUME NEW f \in Model!Failures,
                 journal' = Model!Event([journal EXCEPT !.started = Model!StartedAfter(f)],
                                        Model!StateOfFailure(f))
          PROVE  ModelInv'
      <3> DEFINE r == [journal EXCEPT !.started = Model!StartedAfter(f)]
      <3>1. /\ DOMAIN r = DOMAIN journal /\ r.started = Model!StartedAfter(f)
            /\ r.action = journal.action
            /\ r.attempt = journal.attempt /\ r.receipt = journal.receipt
        BY <1>a
      <3> HIDE DEF r
      <3>2. /\ DOMAIN journal' = DOMAIN journal /\ journal'.state = Model!StateOfFailure(f)
            /\ journal'.started = Model!StartedAfter(f) /\ journal'.action = journal.action
            /\ journal'.attempt = journal.attempt /\ journal'.receipt = journal.receipt
        BY <1>a, <2>3, <3>1, ModelChanges DEF r
      <3>3. source.applied \subseteq {journal.attempt} \/ journal.action = "sign-in"
        BY DEF ModelInv, ModelRecord, Applied
      <3> QED
        BY <2>1, <3>2, <3>3, FailureIsSo, DispatcherEnds
    <2> QED
      BY <1>14, <2>2, <2>3 DEF Model!DispatchFails
  <1>15. CASE Model!AnswerIsLost
    <2>1. /\ d.at = "command" /\ Model!At("dispatcher", Model!Idle)
          /\ Model!OwnerChanges \/ Model!OwnerSignsIn
          /\ \/ UNCHANGED journal
             \/ \E state \in {"unknown", "blocked"} : journal' = Model!Event(journal, state)
      BY <1>15 DEF Model!AnswerIsLost, Model!Dispatcher
    <2>2. /\ DOMAIN source' = DOMAIN source
          /\ journal.action # "sign-in" => source'.applied = {journal.attempt}
      BY <2>1, OwnerAnswers
    <2>3. /\ DOMAIN journal' = DOMAIN journal /\ journal'.action = journal.action
          /\ journal'.attempt = journal.attempt /\ journal'.receipt = journal.receipt
          /\ journal'.started = journal.started
          /\ journal'.state \in {journal.state, "unknown", "blocked"}
      BY <1>a, <2>1, ModelChanges
    <2>4. journal.action # "sign-in" => journal.state = "running" /\ journal.started
      BY <2>1 DEF ModelInv, ModelDispatcher
    <2> QED
      BY <2>1, <2>2, <2>3, <2>4, DispatcherEnds
  <1>16. CASE Model!Refresh \/ Model!RefreshFails
    <2>1. /\ call["reader"].at = "refresh" /\ Model!At("reader", Model!Idle)
          /\ UNCHANGED source
          /\ \/ UNCHANGED journal
             \/ \E login, state :
                   journal' = Model!Event([journal EXCEPT !.login = login], state)
             \/ journal' = Model!Event(journal, "unknown")
      BY <1>16 DEF Model!Refresh, Model!RefreshFails, Model!Reader
    <2>2. journal.action = "sign-in"
      BY <2>1 DEF ModelInv
    <2>3. DOMAIN journal' = DOMAIN journal /\ journal'.action = journal.action
      <3>1. ASSUME NEW login, NEW state,
                   journal' = Model!Event([journal EXCEPT !.login = login], state)
            PROVE  DOMAIN journal' = DOMAIN journal /\ journal'.action = journal.action
        <4> DEFINE r == [journal EXCEPT !.login = login]
        <4>1. DOMAIN r = DOMAIN journal /\ r.action = journal.action
          BY <1>a
        <4>2. journal' = Model!Event(r, state)
          BY <3>1
        <4> HIDE DEF r
        <4>3. /\ DOMAIN Model!Event(r, state) = DOMAIN journal
              /\ Model!Event(r, state).action = r.action
          BY <1>a, <4>1, ModelChanges
        <4> QED
          BY <4>1, <4>2, <4>3
      <3>2. CASE journal' = Model!Event(journal, "unknown")
        BY <1>a, <3>2, ModelChanges
      <3> QED
        BY <2>1, <3>1, <3>2
    <2>4. ModelTypes'
      BY <1>a, <2>1, <2>3, ModelChanges DEF ModelTypes
    <2> QED
      BY <2>2, <2>3, <2>4 DEF ModelInv
  <1>17. CASE Model!CancelSignIn
    <2>1. /\ journal.action = "sign-in" /\ UNCHANGED <<source, call>>
          /\ journal' = Model!Event([journal EXCEPT !.cancels = TRUE], "queued")
      BY <1>17 DEF Model!CancelSignIn, Model!Queue, Model!SignIn
    <2>2. /\ DOMAIN [journal EXCEPT !.cancels = TRUE] = DOMAIN journal
          /\ [journal EXCEPT !.cancels = TRUE].action = journal.action
      BY <1>a
    <2>3. DOMAIN journal' = DOMAIN journal /\ journal'.action = "sign-in"
      BY <1>a, <2>1, <2>2, ModelChanges
    <2> QED
      BY <2>1, <2>3 DEF ModelInv, ModelTypes
  <1> QED
    BY <1>0, <1>1, <1>2, <1>3, <1>4, <1>5, <1>6, <1>7, <1>8, <1>9, <1>10,
       <1>11, <1>12, <1>13, <1>14, <1>15, <1>16, <1>17 DEF Model!Next

(* Nothing is configured, and the dispatcher is idle.                      *)
LEMMA ModelInit == Model!Init => ModelInv
  BY DEF Model!Init, Model!NoRecord, Model!Idle, Model!None, ModelInv, ModelTypes, ModelRecord,
         ModelDispatcher, Applied

(* Every step of a model operation.                                        *)
LEMMA ModelStep ==
    ASSUME kind = "model", ModelInv, [MCNext]_MCVars
    PROVE  ModelInv'
  <1>1. CASE UNCHANGED MCVars
    BY <1>1 DEF MCVars, ownerVars, ModelInv, ModelTypes, ModelRecord, ModelDispatcher, Applied
  <1> QED
    BY <1>1, ModelNext DEF MCNext, Reviews

(* The promise of the run.                                                 *)
LEMMA ModelEnd == ModelInv => Model!OutcomeIsTheOwners
  BY DEF ModelInv, ModelRecord, Applied, Model!OutcomeIsTheOwners

-----------------------------------------------------------------------------
(* The lifecycle of a repository in custody.  A request that goes on has   *)
(* the baseline that it was composed for, and no baseline comes back: the  *)
(* custody of a repository names its last change, and what is archived     *)
(* stays so in the aggregate.                                              *)
StateFields == {"archived", "version", "custody"}

LifecycleTypes ==
    /\ DOMAIN source = {"archived", "version", "moves", "made"}
    /\ source.version \in Nat /\ source.archived \in BOOLEAN
    /\ DOMAIN source.made = Changes /\ \A r \in Changes : source.made[r] \in Nat
    /\ DOMAIN journal = {"state", "history", "request"}
    /\ journal.history \in Seq(Changes \X {"succeeded", "denied", "failed"})
    /\ DOMAIN journal.request = Changes
    /\ DOMAIN call = {"at", "request", "again", "outcome", "retryable", "after"}
    /\ faults \in Nat

(* A state of the repository, as the aggregate or a request has it.        *)
IsState(s) == /\ DOMAIN s = StateFields /\ s.archived \in BOOLEAN
              /\ s.version \in Nat /\ s.version <= source.version

Success(i, r) == i \in DOMAIN journal.history /\ journal.history[i] = <<r, "succeeded">>
CustodySuccess(i) == \E r \in Changes \ Archiving : Success(i, r)

Known == journal.history # << >>

(* The custody of a state is its last change, of those before the entry n. *)
LastChange(s, n) ==
    IF s.custody = "none" THEN ~\E i \in 1..n : CustodySuccess(i)
    ELSE \E j \in 1..n :
            /\ s.custody \in Changes \ Archiving /\ Success(j, s.custody)
            /\ \A i \in 1..n : CustodySuccess(i) => i <= j

LifecycleRequest(r) ==
    LET q == journal.request[r] IN
    /\ DOMAIN q = {"status", "before", "attempts", "retryable"}
    /\ q.status = "succeeded" => ~q.retryable /\ \E i \in DOMAIN journal.history : Success(i, r)
    /\ q.status = "none" => source.made[r] = 0 /\ ~\E i \in DOMAIN journal.history : Success(i, r)
    /\ q.status # "none" =>
          /\ IsState(q.before)
          /\ r \in Archiving => ~q.before.archived
          /\ q.before.custody # "none" =>
                \E j \in DOMAIN journal.history :
                   /\ Success(j, q.before.custody)
                   /\ \A i \in DOMAIN journal.history : Success(i, r) => j < i
          /\ ~Known => q.before.custody = "none"
    /\ source.made[r] <= 1
    /\ source.made[r] = 1 => q.before.version < source.version

Applies == \/ call.at \in {"apply", "archive", "readback"}
           \/ call.at \in {"aggregate", "request"} /\ call.outcome # "denied"

After(base) ==
    /\ IsState(call.after)
    /\ call.outcome # "succeeded" => call.after = base
    /\ call.outcome = "succeeded" =>
          IF call.request \in Archiving
          THEN call.after.archived /\ call.after.custody = base.custody
          ELSE call.after.archived = base.archived /\ call.after.custody = call.request

LifecycleCall ==
    call.at # "idle" =>
       /\ call.at \in {"decide", "apply", "archive", "readback", "aggregate", "request"}
       /\ call.request \in Changes /\ lock # "none"
       /\ journal.request[call.request].status \notin {"none", "succeeded"}
       /\ Applies => journal.request[call.request].status = "applying"
       /\ Applies /\ call.at # "request" =>
             Lifecycle!Baseline = journal.request[call.request].before
       /\ call.at \in {"aggregate", "request"} => call.outcome \in {"succeeded", "denied", "failed"}
       /\ call.at \in {"aggregate", "request"} /\ call.outcome = "succeeded" => ~call.retryable
       /\ call.at \in {"archive", "readback"} => call.request \in Archiving
       /\ call.at = "archive" => source.made[call.request] = 0
       /\ call.at = "aggregate" => After(Lifecycle!Baseline)
       /\ call.at = "request" =>
             /\ Known
             /\ journal.history[Len(journal.history)] = <<call.request, call.outcome>>

LifecycleHistory ==
    /\ Known => IsState(journal.state) /\ LastChange(journal.state, Len(journal.history))
    /\ \A i, j \in DOMAIN journal.history : \A r \in Changes :
          Success(i, r) /\ Success(j, r) => i = j
    /\ \A i \in DOMAIN journal.history : \A r \in Archiving :
          Success(i, r) => journal.state.archived
    /\ faults = 0 =>
          \A i \in DOMAIN journal.history : \A r \in Changes :
             Success(i, r) => \/ journal.request[r].status = "succeeded"
                              \/ /\ call.at = "request" /\ call.request = r
                                 /\ call.outcome = "succeeded"

LifecycleInv ==
    /\ LifecycleTypes /\ (\A r \in Changes : LifecycleRequest(r))
    /\ LifecycleCall /\ LifecycleHistory

(* Fields of what the actions write.                                       *)
LEMMA StateFacts ==
    ASSUME NEW s, DOMAIN s = StateFields
    PROVE  /\ \A m : LET t == [s EXCEPT !.custody = m] IN
                 /\ DOMAIN t = StateFields /\ t.custody = m /\ t.archived = s.archived
                 /\ t.version = s.version
           /\ \A a, v : LET t == [s EXCEPT !.archived = a, !.version = v] IN
                 /\ DOMAIN t = StateFields /\ t.custody = s.custody /\ t.archived = a
                 /\ t.version = v
  BY DEF StateFields

(* The baseline is a state of the repository, and where there is no        *)
(* aggregate it is what the request was composed for.                      *)
LEMMA BaselineFacts ==
    ASSUME LifecycleInv, call.at # "idle"
    PROVE  /\ IsState(Lifecycle!Baseline)
           /\ Known => Lifecycle!Baseline = journal.state
           /\ ~Known => /\ Lifecycle!Baseline = journal.request[call.request].before
                        /\ Lifecycle!Baseline.custody = "none"
           /\ call.request \in Changes
  BY DEF LifecycleInv, LifecycleCall, LifecycleRequest, LifecycleHistory, Lifecycle!Baseline,
         Known, Lifecycle!Known, Lifecycle!Request, Lifecycle!Mine

(* A step of the call alone.                                               *)
LEMMA LifecycleCallMoves ==
    ASSUME LifecycleInv, journal' = journal, source' = source,
           \/ faults' = faults /\ call.at # "request"
           \/ faults' \in Nat /\ faults' # 0,
           DOMAIN call' = DOMAIN call, LifecycleCall'
    PROVE  LifecycleInv'
  <1>1. LifecycleTypes'
    BY DEF LifecycleInv, LifecycleTypes
  <1>2. \A r \in Changes : LifecycleRequest(r)'
    BY DEF LifecycleInv, LifecycleRequest, IsState, Success, Known, StateFields
  <1>3. LifecycleHistory'
    BY DEF LifecycleInv, LifecycleHistory, IsState, Success, CustodySuccess, LastChange,
           Known, StateFields
  <1> QED
    BY <1>1, <1>2, <1>3 DEF LifecycleInv

(* The call ends, or its process stops.                                    *)
LEMMA LifecycleCallEnds ==
    ASSUME LifecycleInv, Lifecycle!Undecided \/ Lifecycle!Stops
    PROVE  LifecycleInv'
  <1>1. /\ journal' = journal /\ source' = source
        /\ \/ faults' = faults /\ call.at # "request"
           \/ faults' \in Nat /\ faults' # 0
        /\ call' = Lifecycle!Idle
    BY DEF Lifecycle!Undecided, Lifecycle!Stops, Lifecycle!End, LifecycleInv, LifecycleTypes
  <1>2. DOMAIN call' = DOMAIN call /\ call'.at = "idle"
    BY <1>1 DEF LifecycleInv, LifecycleTypes, Lifecycle!Idle
  <1>3. LifecycleCall'
    BY <1>2 DEF LifecycleCall
  <1> QED
    BY <1>1, <1>2, <1>3, LifecycleCallMoves

(* A call begins for a request that did not succeed.                       *)
LEMMA LifecycleBegins ==
    ASSUME LifecycleInv, NEW r \in Changes, Lifecycle!Begin(r)
    PROVE  LifecycleInv'
  <1>1. /\ journal' = journal /\ source' = source /\ faults' = faults /\ lock = "none"
        /\ lock' = r /\ journal.request[r].status # "none"
        /\ ~Lifecycle!Replayed(journal.request[r])
        /\ DOMAIN call' = {"at", "request", "again", "outcome", "retryable", "after"}
        /\ call'.at = "decide" /\ call'.request = r
    BY DEF Lifecycle!Begin, Lifecycle!Idle, Lifecycle!None, Lifecycle!Request
  <1>2. DOMAIN call' = DOMAIN call /\ call.at = "idle"
    BY <1>1 DEF LifecycleInv, LifecycleTypes, LifecycleCall
  <1>3. journal.request[r].status # "succeeded" /\ lock' # "none"
    BY <1>1, CallsAssumption DEF LifecycleInv, LifecycleRequest, Lifecycle!Replayed
  <1>4. LifecycleCall'
    BY <1>1, <1>3 DEF LifecycleCall, Applies
  <1> QED
    BY <1>1, <1>2, <1>4, LifecycleCallMoves

(* What the call ends with.                                                *)
LEMMA OutcomeIsKept ==
    ASSUME LifecycleInv, call.at \in {"decide", "apply", "archive", "readback"},
           NEW outcome \in {"succeeded", "denied", "failed"}, NEW again \in BOOLEAN, NEW after,
           Lifecycle!Ends(outcome, again, after),
           IsState(after), outcome # "succeeded" => after = Lifecycle!Baseline,
           outcome = "succeeded" =>
              /\ ~again
              /\ IF call.request \in Archiving
                 THEN after.archived /\ after.custody = Lifecycle!Baseline.custody
                 ELSE /\ after.archived = Lifecycle!Baseline.archived
                      /\ after.custody = call.request,
           call.at = "decide" => outcome = "denied",
           journal' = journal, source' = source, faults' = faults, lock' = lock
    PROVE  LifecycleInv'
  <1>1. /\ DOMAIN call' = DOMAIN call /\ call'.at = "aggregate" /\ call'.outcome = outcome
        /\ call'.retryable = again /\ call'.after = after /\ call'.request = call.request
    BY DEF Lifecycle!Ends, LifecycleInv, LifecycleTypes
  <1>2. Lifecycle!Baseline' = Lifecycle!Baseline
    BY <1>1 DEF Lifecycle!Baseline, Lifecycle!Known, Lifecycle!Request, Lifecycle!Mine
  <1>3. After(Lifecycle!Baseline)'
    BY <1>1, <1>2 DEF After, IsState, StateFields
  <1>4. /\ call.request \in Changes /\ lock # "none"
        /\ journal.request[call.request].status \notin {"none", "succeeded"}
        /\ outcome # "denied" /\ call.at # "decide" =>
              /\ journal.request[call.request].status = "applying"
              /\ Lifecycle!Baseline = journal.request[call.request].before
    BY DEF LifecycleInv, LifecycleCall, Applies
  <1>5. LifecycleCall'
    BY <1>1, <1>2, <1>3, <1>4 DEF LifecycleCall, Applies
  <1> QED
    BY <1>1, <1>5, LifecycleCallMoves

(* The call goes on at another place, while nothing else moves.            *)
LEMMA CallGoesOn ==
    ASSUME LifecycleInv, NEW at \in {"archive"}, Lifecycle!Go(at),
           call.at = "apply", call.request \in Archiving, source.made[call.request] = 0,
           journal' = journal, source' = source, faults' = faults, lock' = lock
    PROVE  LifecycleInv'
  <1>1. /\ DOMAIN call' = DOMAIN call /\ call'.at = "archive" /\ call'.request = call.request
    BY DEF Lifecycle!Go, LifecycleInv, LifecycleTypes
  <1>2. Lifecycle!Baseline' = Lifecycle!Baseline
    BY <1>1 DEF Lifecycle!Baseline, Lifecycle!Known, Lifecycle!Request, Lifecycle!Mine
  <1>3. LifecycleCall'
    BY <1>1, <1>2 DEF LifecycleInv, LifecycleCall, Applies
  <1> QED
    BY <1>1, <1>3, LifecycleCallMoves

(* The call decides, reads and changes its repository.                     *)
LEMMA LifecycleWorks ==
    ASSUME LifecycleInv,
           \/ Lifecycle!Denied \/ Lifecycle!ApplyWorkspace \/ Lifecycle!ReadProvider
           \/ Lifecycle!ReadBack \/ Lifecycle!ProviderFails
    PROVE  LifecycleInv'
  <1> DEFINE base == Lifecycle!Baseline
  <1>1. /\ journal' = journal /\ source' = source /\ faults' = faults /\ lock' = lock
        /\ call.at \in {"decide", "apply", "archive", "readback"}
    BY DEF Lifecycle!Denied, Lifecycle!ApplyWorkspace, Lifecycle!ReadProvider,
           Lifecycle!ReadBack, Lifecycle!ProviderFails
  <1>2. IsState(base) /\ call.request \in Changes
    BY <1>1, BaselineFacts
  <1>3. /\ source.version \in Nat /\ source.archived \in BOOLEAN
    BY DEF LifecycleInv, LifecycleTypes
  <1>4. /\ IsState(Lifecycle!AsRead) /\ Lifecycle!AsRead.custody = base.custody
        /\ Lifecycle!AsRead.archived = source.archived
    BY <1>2, <1>3, StateFacts DEF IsState, Lifecycle!AsRead
  <1>5. ASSUME call.at # "decide", NEW again \in BOOLEAN, Lifecycle!Fails(again)
        PROVE  LifecycleInv'
    <2>1. Lifecycle!Ends("failed", again, base)
      BY <1>5 DEF Lifecycle!Fails
    <2> QED
      BY <1>1, <1>2, <1>5, <2>1, OutcomeIsKept
  <1>6. ASSUME call.at # "decide", call.request \in Archiving, source.archived,
               Lifecycle!Ends("succeeded", FALSE, Lifecycle!AsRead)
        PROVE  LifecycleInv'
    BY <1>1, <1>3, <1>4, <1>6, OutcomeIsKept
  <1>7. CASE Lifecycle!Denied
    <2>1. Lifecycle!Ends("denied", FALSE, base) /\ call.at = "decide"
      BY <1>7 DEF Lifecycle!Denied
    <2> QED
      BY <1>1, <1>2, <2>1, OutcomeIsKept
  <1>8. CASE Lifecycle!ApplyWorkspace
    <2> DEFINE after == [base EXCEPT !.custody = call.request]
    <2>1. /\ Lifecycle!Ends("succeeded", FALSE, after) /\ call.at = "apply"
          /\ call.request \notin Archiving
      BY <1>8 DEF Lifecycle!ApplyWorkspace, Lifecycle!Mine
    <2>2. /\ IsState(after) /\ after.archived = base.archived
          /\ after.custody = call.request
      BY <1>2, StateFacts DEF IsState
    <2> HIDE DEF after, base
    <2>3. /\ after.archived = Lifecycle!Baseline.archived
      BY <2>2 DEF base
    <2> QED
      BY <1>1, <2>1, <2>2, <2>3, OutcomeIsKept
  <1>9. CASE Lifecycle!ReadProvider
    <2>1. /\ call.at = "apply" /\ call.request \in Archiving
          /\ \/ source.archived /\ Lifecycle!Ends("succeeded", FALSE, Lifecycle!AsRead)
             \/ source.version = base.version /\ Lifecycle!Go("archive")
             \/ Lifecycle!Fails(FALSE)
      BY <1>9 DEF Lifecycle!ReadProvider, Lifecycle!Mine
    <2>2. ASSUME source.version = base.version
          PROVE  source.made[call.request] = 0
      <3>1. base = journal.request[call.request].before
        BY <2>1 DEF LifecycleInv, LifecycleCall, Applies
      <3>2. /\ source.made[call.request] \in Nat /\ source.made[call.request] <= 1
            /\ source.made[call.request] = 1 => base.version < source.version
        BY <1>2, <3>1 DEF LifecycleInv, LifecycleRequest, LifecycleTypes
      <3> QED
        BY <1>3, <2>2, <3>2
    <2> QED
      BY <1>1, <1>5, <1>6, <2>1, <2>2, CallGoesOn
  <1>10. CASE Lifecycle!ReadBack
    <2>1. /\ call.at = "readback" /\ call.request \in Archiving
      BY <1>10 DEF Lifecycle!ReadBack, LifecycleInv, LifecycleCall
    <2>2. \/ source.archived /\ Lifecycle!Ends("succeeded", FALSE, Lifecycle!AsRead)
          \/ Lifecycle!Fails(FALSE)
      BY <1>10 DEF Lifecycle!ReadBack
    <2> QED
      BY <1>5, <1>6, <2>1, <2>2
  <1>11. CASE Lifecycle!ProviderFails
    <2>1. /\ call.at # "decide" /\ \E again \in BOOLEAN : Lifecycle!Fails(again)
      BY <1>11 DEF Lifecycle!ProviderFails
    <2> QED
      BY <1>5, <2>1
  <1> QED
    BY <1>7, <1>8, <1>9, <1>10, <1>11

(* The provider's repository changes, with the call or with others.        *)
LEMMA SourceMoves ==
    ASSUME LifecycleInv, journal' = journal, faults' = faults, lock' = lock,
           DOMAIN source' = DOMAIN source, source'.archived \in BOOLEAN,
           source'.version = source.version + 1, DOMAIN source'.made = Changes,
           \A r \in Changes :
              /\ source'.made[r] \in Nat /\ source'.made[r] <= 1
              /\ source'.made[r] # source.made[r] => journal.request[r].status = "applying",
           call.at # "request" \/ call' = call,
           DOMAIN call' = DOMAIN call, LifecycleCall'
    PROVE  LifecycleInv'
  <1>1. source.version \in Nat /\ source'.version \in Nat
    BY DEF LifecycleInv, LifecycleTypes
  <1>2. LifecycleTypes'
    <2>1. /\ DOMAIN source' = {"archived", "version", "moves", "made"}
          /\ DOMAIN call' = {"at", "request", "again", "outcome", "retryable", "after"}
          /\ faults' \in Nat
      BY DEF LifecycleInv, LifecycleTypes
    <2>2. /\ DOMAIN journal' = {"state", "history", "request"}
          /\ journal'.history \in Seq(Changes \X {"succeeded", "denied", "failed"})
          /\ DOMAIN journal'.request = Changes
      BY DEF LifecycleInv, LifecycleTypes
    <2> QED
      BY <1>1, <2>1, <2>2 DEF LifecycleTypes
  <1>3. ASSUME NEW r \in Changes PROVE LifecycleRequest(r)'
    <2>1. LifecycleRequest(r) /\ source.made[r] \in Nat
      BY DEF LifecycleInv, LifecycleTypes
    <2>2. source'.made[r] \in Nat /\ source'.made[r] <= 1
      OBVIOUS
    <2>3. source'.made[r] = 1 => journal.request[r].before.version < source'.version
      <3>1. CASE source'.made[r] = source.made[r]
        BY <1>1, <2>1, <3>1 DEF LifecycleRequest, IsState
      <3>2. CASE journal.request[r].status = "applying"
        BY <1>1, <2>1, <3>2 DEF LifecycleRequest, IsState
      <3> QED
        BY <3>1, <3>2
    <2>4. journal.request[r].status = "none" => source'.made[r] = 0
      BY <2>1 DEF LifecycleRequest
    <2>5. IsState(journal.request[r].before) => IsState(journal.request[r].before)'
      BY <1>1 DEF IsState, StateFields
    <2>6. \A i, x : Success(i, x)' <=> Success(i, x)
      BY DEF Success
    <2> QED
      BY <2>1, <2>2, <2>3, <2>4, <2>5, <2>6 DEF LifecycleRequest, Known
  <1>4. LifecycleHistory'
    <2>1. \A i, r : Success(i, r)' <=> Success(i, r)
      BY DEF Success
    <2>2. \A i : CustodySuccess(i)' <=> CustodySuccess(i)
      BY <2>1 DEF CustodySuccess
    <2>3. Known => IsState(journal.state)'
      BY <1>1 DEF LifecycleInv, LifecycleHistory, IsState, StateFields
    <2>4. Known => LastChange(journal.state, Len(journal.history))'
      BY <2>1, <2>2 DEF LifecycleInv, LifecycleHistory, LastChange
    <2> QED
      BY <2>1, <2>3, <2>4 DEF LifecycleInv, LifecycleHistory, Known
  <1> QED
    BY <1>2, <1>3, <1>4 DEF LifecycleInv

(* A change of the repository by others only moves its version on, so what *)
(* was recorded of earlier versions stays.                                 *)
LEMMA OthersKeep ==
    ASSUME LifecycleInv, Lifecycle!OthersChange
    PROVE  LifecycleInv'
  <1>1. /\ journal' = journal /\ faults' = faults /\ lock' = lock /\ call' = call
        /\ DOMAIN source' = DOMAIN source /\ source'.archived \in BOOLEAN
        /\ source'.version = source.version + 1 /\ source'.made = source.made
    BY DEF Lifecycle!OthersChange, LifecycleInv, LifecycleTypes
  <1>2. \A r \in Changes : source'.made[r] \in Nat /\ source'.made[r] <= 1
    BY <1>1 DEF LifecycleInv, LifecycleTypes, LifecycleRequest
  <1>3. source.version \in Nat
    BY DEF LifecycleInv, LifecycleTypes
  <1>4. Lifecycle!Baseline' = Lifecycle!Baseline
    BY <1>1 DEF Lifecycle!Baseline, Lifecycle!Known, Lifecycle!Request, Lifecycle!Mine
  <1>5. After(Lifecycle!Baseline) => After(Lifecycle!Baseline)'
    BY <1>1, <1>3, <1>4 DEF After, IsState, StateFields
  <1>6. LifecycleCall'
    BY <1>1, <1>4, <1>5 DEF LifecycleInv, LifecycleCall, Applies, Known
  <1>7. DOMAIN source'.made = Changes
    BY <1>1 DEF LifecycleInv, LifecycleTypes
  <1> QED
    BY <1>1, <1>2, <1>6, <1>7, SourceMoves

(* A request archives its repository once.                                 *)
LEMMA ArchiveKeeps ==
    ASSUME LifecycleInv, Lifecycle!Archive
    PROVE  LifecycleInv'
  <1> DEFINE m == call.request
  <1>1. /\ call.at = "archive" /\ journal' = journal /\ faults' = faults /\ lock' = lock
        /\ source' = [source EXCEPT !.archived = TRUE, !.version = @ + 1, !.made[m] = @ + 1]
        /\ Lifecycle!Go("readback") \/ Lifecycle!Fails(TRUE)
    BY DEF Lifecycle!Archive, Lifecycle!Mine
  <1>2. /\ m \in Changes /\ m \in Archiving /\ source.made[m] = 0
        /\ journal.request[m].status = "applying"
        /\ Lifecycle!Baseline = journal.request[m].before /\ lock # "none"
        /\ source.version \in Nat /\ DOMAIN source.made = Changes
        /\ DOMAIN source = {"archived", "version", "moves", "made"}
        /\ DOMAIN call = {"at", "request", "again", "outcome", "retryable", "after"}
    BY <1>1 DEF LifecycleInv, LifecycleCall, LifecycleTypes, Applies
  <1>3. /\ DOMAIN source' = DOMAIN source /\ source'.archived = TRUE
        /\ source'.version = source.version + 1 /\ DOMAIN source'.made = Changes
        /\ source'.made[m] = 1 /\ \A r \in Changes \ {m} : source'.made[r] = source.made[r]
    BY <1>1, <1>2
  <1>4. \A r \in Changes :
              /\ source'.made[r] \in Nat /\ source'.made[r] <= 1
              /\ source'.made[r] # source.made[r] => journal.request[r].status = "applying"
    BY <1>2, <1>3 DEF LifecycleInv, LifecycleTypes, LifecycleRequest
  <1>5. IsState(Lifecycle!Baseline)
    BY <1>1, BaselineFacts
  <1>6. \/ /\ call'.at = "readback" /\ call'.request = m
        \/ /\ call'.at = "aggregate" /\ call'.request = m /\ call'.outcome = "failed"
           /\ call'.after = Lifecycle!Baseline
    BY <1>1, <1>2 DEF Lifecycle!Go, Lifecycle!Fails, Lifecycle!Ends
  <1>7. call'.request = m /\ DOMAIN call' = DOMAIN call
    BY <1>1, <1>2 DEF Lifecycle!Go, Lifecycle!Fails, Lifecycle!Ends
  <1>8. Lifecycle!Baseline' = Lifecycle!Baseline
    BY <1>1, <1>7 DEF Lifecycle!Baseline, Lifecycle!Known, Lifecycle!Request, Lifecycle!Mine
  <1>9. call'.at = "aggregate" => After(Lifecycle!Baseline)'
    BY <1>2, <1>3, <1>5, <1>6, <1>8 DEF After, IsState, StateFields
  <1>10. LifecycleCall'
    BY <1>1, <1>2, <1>6, <1>8, <1>9 DEF LifecycleCall, Applies
  <1> QED
    BY <1>1, <1>3, <1>4, <1>7, <1>10, SourceMoves

(* The record of one request is written.                                   *)
LEMMA RequestMoves ==
    ASSUME LifecycleInv, source' = source, faults' = faults, NEW m \in Changes,
           DOMAIN journal' = DOMAIN journal, journal'.state = journal.state,
           journal'.history = journal.history, DOMAIN journal'.request = Changes,
           \A r \in Changes \ {m} : journal'.request[r] = journal.request[r],
           LifecycleRequest(m)', DOMAIN call' = DOMAIN call, LifecycleCall',
           call' = call \/ call.at # "request" \/ call.request = m,
           faults = 0 => \A i : Success(i, m) => journal'.request[m].status = "succeeded"
    PROVE  LifecycleInv'
  <1>1. LifecycleTypes'
    BY DEF LifecycleInv, LifecycleTypes
  <1>2. \A i, r : Success(i, r)' <=> Success(i, r)
    BY DEF Success
  <1>3. \A i : CustodySuccess(i)' <=> CustodySuccess(i)
    BY <1>2 DEF CustodySuccess
  <1>4. ASSUME NEW r \in Changes \ {m} PROVE LifecycleRequest(r)'
    <2>1. IsState(journal.request[r].before) => IsState(journal.request[r].before)'
      BY DEF IsState, StateFields
    <2> QED
      BY <1>2, <2>1 DEF LifecycleInv, LifecycleRequest, Known
  <1>5. Known => IsState(journal.state)' /\ LastChange(journal.state, Len(journal.history))'
    BY <1>2, <1>3 DEF LifecycleInv, LifecycleHistory, IsState, StateFields, LastChange
  <1>6. faults' = 0 =>
          \A i \in DOMAIN journal'.history : \A r \in Changes :
             Success(i, r)' => \/ journal'.request[r].status = "succeeded"
                               \/ /\ call'.at = "request" /\ call'.request = r
                                  /\ call'.outcome = "succeeded"
    <2> SUFFICES ASSUME faults' = 0, NEW i \in DOMAIN journal'.history, NEW r \in Changes,
                        Success(i, r)'
                 PROVE  \/ journal'.request[r].status = "succeeded"
                        \/ /\ call'.at = "request" /\ call'.request = r
                           /\ call'.outcome = "succeeded"
      OBVIOUS
    <2>1. Success(i, r)
      BY <1>2
    <2>2. CASE r = m
      BY <2>1, <2>2
    <2>3. CASE r # m
      BY <2>1, <2>3 DEF LifecycleInv, LifecycleHistory
    <2> QED
      BY <2>2, <2>3
  <1>7. LifecycleHistory'
    BY <1>2, <1>5, <1>6 DEF LifecycleInv, LifecycleHistory, Known
  <1> QED
    BY <1>1, <1>4, <1>7 DEF LifecycleInv

(* The call while the record of another request, or its own, is written.   *)
LEMMA BaselineStays ==
    ASSUME LifecycleInv, call.at # "idle", call'.request = call.request,
           journal'.state = journal.state, journal'.history = journal.history,
           journal'.request[call.request].before = journal.request[call.request].before
    PROVE  Lifecycle!Baseline' = Lifecycle!Baseline
  BY DEF Lifecycle!Baseline, Lifecycle!Known, Lifecycle!Request, Lifecycle!Mine

(* A request is composed for what the repository is.                       *)
LEMMA ComposeKeeps ==
    ASSUME LifecycleInv, NEW m \in Changes, Lifecycle!Compose(m)
    PROVE  LifecycleInv'
  <1> DEFINE first == [Lifecycle!Initial EXCEPT !.archived = source.archived,
                                                !.version = source.version]
             before == IF Known THEN journal.state ELSE first
  <1>1. /\ source' = source /\ lock' = lock /\ call' = call /\ faults' = faults
        /\ journal.request[m].status = "none"
        /\ m \in Archiving => ~(IF Known THEN journal.state ELSE source).archived
        /\ journal' = [journal EXCEPT !.request[m].status = "composed",
                                      !.request[m].before = before]
    BY DEF Lifecycle!Compose, Lifecycle!Composable, Lifecycle!Known, Lifecycle!Request, Lifecycle!None, Known
  <1>2. /\ DOMAIN journal = {"state", "history", "request"} /\ DOMAIN journal.request = Changes
        /\ DOMAIN journal.request[m] = {"status", "before", "attempts", "retryable"}
        /\ source.version \in Nat /\ source.archived \in BOOLEAN
        /\ DOMAIN call = {"at", "request", "again", "outcome", "retryable", "after"}
        /\ source.made[m] = 0 /\ \A i : ~Success(i, m)
    BY <1>1 DEF LifecycleInv, LifecycleTypes, LifecycleRequest, Success
  <1>3. /\ DOMAIN first = StateFields /\ first.archived = source.archived
        /\ first.version = source.version /\ first.custody = "none"
    BY DEF Lifecycle!Initial, Lifecycle!None, StateFields
  <1> HIDE DEF first
  <1>4. /\ IsState(before)
        /\ m \in Archiving => ~before.archived
        /\ before.custody # "none" =>
              \E j \in DOMAIN journal.history : Success(j, before.custody)
        /\ ~Known => before.custody = "none"
    <2>1. CASE ~Known
      BY <1>1, <1>2, <1>3, <2>1 DEF IsState
    <2>2. CASE Known
      <3>1. IsState(journal.state) /\ LastChange(journal.state, Len(journal.history))
        BY <2>2 DEF LifecycleInv, LifecycleHistory
      <3>2. \A j \in 1..Len(journal.history) : j \in DOMAIN journal.history
        BY DEF LifecycleInv, LifecycleTypes
      <3> QED
        BY <1>1, <2>2, <3>1, <3>2 DEF LastChange
    <2> QED
      BY <2>1, <2>2
  <1> HIDE DEF before
  <1>5. /\ DOMAIN journal' = DOMAIN journal /\ journal'.state = journal.state
        /\ journal'.history = journal.history /\ DOMAIN journal'.request = Changes
        /\ \A r \in Changes \ {m} : journal'.request[r] = journal.request[r]
        /\ DOMAIN journal'.request[m] = {"status", "before", "attempts", "retryable"}
        /\ journal'.request[m].status = "composed" /\ journal'.request[m].before = before
    BY <1>1, <1>2
  <1>6. \A i, r : Success(i, r)' <=> Success(i, r)
    BY <1>5 DEF Success
  <1>7. LifecycleRequest(m)'
    <2>1. IsState(before)
      BY <1>4
    <2>2. IsState(journal.request[m].before)'
      BY <1>1, <1>5, <2>1 DEF IsState, StateFields
    <2>3. source'.made[m] = 0 /\ \A i : ~Success(i, m)'
      BY <1>1, <1>2, <1>6
    <2>4. /\ m \in Archiving => ~journal'.request[m].before.archived
          /\ journal'.request[m].before.custody # "none" =>
                \E j \in DOMAIN journal'.history :
                   Success(j, journal.request[m].before.custody)'
          /\ ~Known' => journal'.request[m].before.custody = "none"
      BY <1>4, <1>5 DEF Known, Success
    <2> QED
      BY <1>5, <2>2, <2>3, <2>4 DEF LifecycleRequest
  <1>8. LifecycleCall'
    <2>1. call.at # "idle" => call.request # m /\ call.request \in Changes
      BY <1>1 DEF LifecycleInv, LifecycleCall
    <2>2. call.at # "idle" => /\ journal'.request[call.request] = journal.request[call.request]
                              /\ Lifecycle!Baseline' = Lifecycle!Baseline
      BY <1>1, <1>5, <2>1, BaselineStays
    <2>3. call.at # "idle" => (After(Lifecycle!Baseline) => After(Lifecycle!Baseline)')
      BY <1>1, <2>2 DEF After, IsState, StateFields
    <2> QED
      BY <1>1, <1>5, <2>1, <2>2, <2>3 DEF LifecycleInv, LifecycleCall, Applies, Known
  <1> QED
    BY <1>1, <1>2, <1>5, <1>7, <1>8, RequestMoves

(* A request is tried, or not, and its record tells what came of it.       *)
LEMMA AttemptKeeps ==
    ASSUME LifecycleInv, Lifecycle!Checkpoint
    PROVE  LifecycleInv'
  <1>1. call.at = "decide" /\ source' = source /\ faults' = faults
    BY DEF Lifecycle!Checkpoint
  <1>0. PICK m \in Changes : call.request = m
    BY <1>1 DEF LifecycleInv, LifecycleCall
  <1>2. /\ m \in Changes /\ lock # "none"
        /\ journal.request[m].status \notin {"none", "succeeded"}
        /\ DOMAIN journal = {"state", "history", "request"} /\ DOMAIN journal.request = Changes
        /\ DOMAIN journal.request[m] = {"status", "before", "attempts", "retryable"}
        /\ DOMAIN call = {"at", "request", "again", "outcome", "retryable", "after"}
        /\ LifecycleRequest(m)
    BY <1>0, <1>1 DEF LifecycleInv, LifecycleTypes, LifecycleRequest, LifecycleCall
  <1>3. CASE ~Lifecycle!BaselineIsCurrent
    <2>1. journal' = journal /\ call' = Lifecycle!Idle
      BY <1>3 DEF Lifecycle!Checkpoint, Lifecycle!End
    <2>2. DOMAIN call' = DOMAIN call /\ call'.at = "idle"
      BY <1>2, <2>1 DEF Lifecycle!Idle
    <2>3. LifecycleCall'
      BY <2>2 DEF LifecycleCall
    <2> QED
      BY <1>1, <2>1, <2>2, <2>3, LifecycleCallMoves
  <1>4. CASE Lifecycle!BaselineIsCurrent
    <2>1. /\ journal' = [journal EXCEPT !.request[m].status = "applying",
                                        !.request[m].attempts = @ + 1]
          /\ call' = [call EXCEPT !.at = "apply"] /\ lock' = lock
          /\ Lifecycle!Baseline = journal.request[m].before
      BY <1>0, <1>4 DEF Lifecycle!Checkpoint, Lifecycle!Go, Lifecycle!Mine, Lifecycle!Request,
                  Lifecycle!BaselineIsCurrent
    <2>2. /\ DOMAIN journal' = DOMAIN journal /\ journal'.state = journal.state
          /\ journal'.history = journal.history /\ DOMAIN journal'.request = Changes
          /\ \A r \in Changes \ {m} : journal'.request[r] = journal.request[r]
          /\ DOMAIN journal'.request[m] = DOMAIN journal.request[m]
          /\ journal'.request[m].status = "applying"
          /\ journal'.request[m].before = journal.request[m].before
          /\ DOMAIN call' = DOMAIN call /\ call'.at = "apply" /\ call'.request = m
      BY <1>0, <1>2, <2>1
    <2>3. \A i, r : Success(i, r)' <=> Success(i, r)
      BY <2>2 DEF Success
    <2>4. LifecycleRequest(m)'
      <3>1. IsState(journal.request[m].before)'
        BY <1>1, <1>2, <2>2 DEF LifecycleRequest, IsState, StateFields
      <3> QED
        BY <1>1, <1>2, <2>2, <2>3, <3>1 DEF LifecycleRequest, Known
    <2>5. Lifecycle!Baseline' = Lifecycle!Baseline
      BY <1>0, <1>1, <2>2, BaselineStays
    <2>6. LifecycleCall'
      BY <1>0, <1>1, <1>2, <2>1, <2>2, <2>5 DEF LifecycleCall, Applies
    <2>7. faults = 0 => \A i : ~Success(i, m)
      BY <1>1, <1>2 DEF LifecycleInv, LifecycleHistory, Success
    <2> QED
      BY <1>1, <1>2, <2>2, <2>4, <2>6, <2>7, RequestMoves
  <1> QED
    BY <1>3, <1>4

(* The last write of a call tells the request what the history has of it.  *)
LEMMA PutRequestKeeps ==
    ASSUME LifecycleInv, Lifecycle!PutRequest
    PROVE  LifecycleInv'
  <1>0. PICK m \in Changes : call.request = m
    BY DEF Lifecycle!PutRequest, LifecycleInv, LifecycleCall
  <1> DEFINE n == Len(journal.history)
  <1>1. /\ call.at = "request" /\ source' = source /\ faults' = faults
        /\ journal' = [journal EXCEPT !.request[m].status = call.outcome,
                                      !.request[m].retryable = call.retryable]
        /\ call' = Lifecycle!Idle
    BY <1>0 DEF Lifecycle!PutRequest, Lifecycle!End, Lifecycle!Mine
  <1>2. /\ m \in Changes
        /\ journal.request[m].status \notin {"none", "succeeded"}
        /\ DOMAIN journal = {"state", "history", "request"} /\ DOMAIN journal.request = Changes
        /\ DOMAIN journal.request[m] = {"status", "before", "attempts", "retryable"}
        /\ DOMAIN call = {"at", "request", "again", "outcome", "retryable", "after"}
        /\ LifecycleRequest(m)
        /\ call.outcome \in {"succeeded", "denied", "failed"}
        /\ call.outcome = "succeeded" => ~call.retryable
        /\ Known /\ journal.history[n] = <<m, call.outcome>>
    BY <1>0, <1>1 DEF LifecycleInv, LifecycleTypes, LifecycleRequest, LifecycleCall
  <1>3. n \in DOMAIN journal.history
    BY <1>2 DEF Known, LifecycleInv, LifecycleTypes
  <1>4. call.outcome = "succeeded" => Success(n, m)
    BY <1>2, <1>3 DEF Success
  <1>5. /\ DOMAIN journal' = DOMAIN journal /\ journal'.state = journal.state
        /\ journal'.history = journal.history /\ DOMAIN journal'.request = Changes
        /\ \A r \in Changes \ {m} : journal'.request[r] = journal.request[r]
        /\ DOMAIN journal'.request[m] = DOMAIN journal.request[m]
        /\ journal'.request[m].status = call.outcome
        /\ journal'.request[m].retryable = call.retryable
        /\ journal'.request[m].before = journal.request[m].before
    BY <1>1, <1>2
  <1>6. DOMAIN call' = DOMAIN call /\ call'.at = "idle"
    BY <1>1, <1>2 DEF Lifecycle!Idle
  <1> HIDE DEF n
  <1>7. \A i, r : Success(i, r)' <=> Success(i, r)
    BY <1>5 DEF Success
  <1>8. LifecycleRequest(m)'
    <2>1. IsState(journal.request[m].before)'
      BY <1>1, <1>2, <1>5 DEF LifecycleRequest, IsState, StateFields
    <2> QED
      BY <1>1, <1>2, <1>3, <1>4, <1>5, <1>7, <2>1 DEF LifecycleRequest, Known
  <1>9. LifecycleCall'
    BY <1>6 DEF LifecycleCall
  <1>10. faults = 0 => \A i : Success(i, m) => journal'.request[m].status = "succeeded"
    BY <1>0, <1>1, <1>2, <1>5 DEF LifecycleInv, LifecycleHistory, Success
  <1> QED
    BY <1>0, <1>1, <1>2, <1>5, <1>6, <1>8, <1>9, <1>10, RequestMoves

(* A request that succeeds a second time has lost its baseline.            *)
LEMMA SucceedsOnce ==
    ASSUME LifecycleInv, call.at = "aggregate", call.outcome = "succeeded",
           NEW i \in DOMAIN journal.history, Success(i, call.request)
    PROVE  FALSE
  <1> DEFINE m == call.request
             n == Len(journal.history)
             before == journal.request[m].before
  <1>1. /\ m \in Changes /\ LifecycleRequest(m)
        /\ journal.request[m].status = "applying"
        /\ Lifecycle!Baseline = before
    BY DEF LifecycleInv, LifecycleCall, Applies
  <1>2. n \in Nat /\ DOMAIN journal.history = 1..n /\ Known
    BY DEF LifecycleInv, LifecycleTypes, Known
  <1>3. before = journal.state
    BY <1>1, <1>2, BaselineFacts
  <1>4. CASE m \in Archiving
    <2>1. journal.state.archived
      BY <1>4 DEF LifecycleInv, LifecycleHistory
    <2>2. ~before.archived
      BY <1>1, <1>4 DEF LifecycleRequest
    <2> QED
      BY <1>3, <2>1, <2>2
  <1>5. CASE m \notin Archiving
    <2>1. CustodySuccess(i)
      BY <1>1, <1>5 DEF CustodySuccess
    <2>2. LastChange(journal.state, n)
      BY <1>2 DEF LifecycleInv, LifecycleHistory
    <2>3. PICK j \in 1..n : /\ before.custody \in Changes \ Archiving
                            /\ before.custody # "none"
                            /\ Success(j, before.custody) /\ i <= j
      BY <1>2, <1>3, <2>1, <2>2 DEF LastChange
    <2>4. PICK k \in DOMAIN journal.history : Success(k, before.custody) /\ i > k
      BY <1>1, <1>2, <2>3 DEF LifecycleRequest
    <2>5. j = k
      BY <1>2, <2>3, <2>4 DEF LifecycleInv, LifecycleHistory
    <2> QED
      BY <1>2, <2>3, <2>4, <2>5
  <1> QED
    BY <1>4, <1>5

(* The aggregate is written with the outcome.                              *)
LEMMA AggregateKeeps ==
    ASSUME LifecycleInv, Lifecycle!PutAggregate
    PROVE  LifecycleInv'
  <1>0. /\ call.at = "aggregate" /\ source' = source /\ lock' = lock /\ faults' = faults
    BY DEF Lifecycle!PutAggregate
  <1>1. PICK m \in Changes : m = call.request
    BY <1>0 DEF LifecycleInv, LifecycleCall
  <1>a. PICK n \in Nat : n = Len(journal.history)
    BY DEF LifecycleInv, LifecycleTypes
  <1> DEFINE w == <<m, call.outcome>>
             base == Lifecycle!Baseline
  <1>2. /\ journal' = [journal EXCEPT !.state = call.after, !.history = Append(@, w)]
        /\ call' = [call EXCEPT !.at = "request"]
    BY <1>1 DEF Lifecycle!PutAggregate, Lifecycle!Go, Lifecycle!Mine
  <1>3. /\ DOMAIN journal = {"state", "history", "request"} /\ DOMAIN journal.request = Changes
        /\ journal.history \in Seq(Changes \X {"succeeded", "denied", "failed"})
        /\ DOMAIN call = {"at", "request", "again", "outcome", "retryable", "after"}
        /\ n \in Nat /\ DOMAIN journal.history = 1..n /\ lock # "none"
        /\ call.outcome \in {"succeeded", "denied", "failed"}
        /\ call.outcome = "succeeded" => ~call.retryable
        /\ journal.request[m].status \notin {"none", "succeeded"}
        /\ call.outcome # "denied" => journal.request[m].status = "applying"
        /\ After(base) /\ LifecycleRequest(m)
    BY <1>a, <1>0, <1>1 DEF LifecycleInv, LifecycleTypes, LifecycleCall, Applies
  <1>4. /\ DOMAIN journal' = DOMAIN journal /\ journal'.state = call.after
        /\ journal'.history = Append(journal.history, w)
        /\ journal'.request = journal.request
        /\ DOMAIN call' = DOMAIN call /\ call'.at = "request" /\ call'.request = m
        /\ call'.outcome = call.outcome /\ call'.retryable = call.retryable
    BY <1>1, <1>2, <1>3
  <1>5. w \in Changes \X {"succeeded", "denied", "failed"}
    BY <1>3
  <1>6. /\ journal'.history \in Seq(Changes \X {"succeeded", "denied", "failed"})
        /\ Len(journal'.history) = n + 1 /\ DOMAIN journal'.history = 1..(n + 1)
        /\ journal'.history[n + 1] = w
        /\ \A i \in 1..n : journal'.history[i] = journal.history[i]
        /\ journal'.history # << >>
    BY <1>a, <1>3, <1>4, <1>5
  <1>7. \A r : w = <<r, "succeeded">> <=> r = m /\ call.outcome = "succeeded"
    OBVIOUS
  <1>8. /\ IsState(base)
        /\ Known => base = journal.state
        /\ ~Known => base.custody = "none" /\ n = 0
    <2>1. ~Known => n = 0
      BY <1>a, <1>3 DEF Known
    <2> QED
      BY <1>0, <2>1, BaselineFacts
  <1> HIDE DEF w, base
  <1>9. /\ \A i, r : i \in 1..n => (Success(i, r)' <=> Success(i, r))
        /\ \A r : Success(n + 1, r)' <=> r = m /\ call.outcome = "succeeded"
        /\ \A i \in DOMAIN journal'.history : i \in 1..n \/ i = n + 1
        /\ \A i : i \in 1..n => i < n + 1 /\ i # n + 1 /\ i \in 1..(n + 1)
    <2>1. \A i : i \in 1..n => i < n + 1 /\ i # n + 1 /\ i \in 1..(n + 1)
      BY <1>3
    <2>2. \A i \in DOMAIN journal'.history : i \in 1..n \/ i = n + 1
      BY <1>3, <1>6
    <2>3. n + 1 \in DOMAIN journal'.history
      BY <1>3, <1>6
    <2> QED
      BY <1>3, <1>6, <1>7, <2>1, <2>2, <2>3 DEF Success
  <1>10. LifecycleTypes'
    BY <1>0, <1>3, <1>4, <1>6 DEF LifecycleInv, LifecycleTypes
  <1>11. ASSUME NEW r \in Changes PROVE LifecycleRequest(r)'
    <2>1. LifecycleRequest(r)
      BY DEF LifecycleInv
    <2>2. IsState(journal.request[r].before) => IsState(journal.request[r].before)'
      BY <1>0, <1>4 DEF IsState, StateFields
    <2>3. journal.request[r].status = "none" => r # m
      BY <1>3
    <2>4. journal.request[r].status = "none" => ~\E i \in DOMAIN journal'.history : Success(i, r)'
      BY <1>3, <1>9, <2>1, <2>3 DEF LifecycleRequest
    <2>5. journal.request[r].status = "succeeded" => \E i \in DOMAIN journal'.history : Success(i, r)'
      BY <1>3, <1>6, <1>9, <2>1 DEF LifecycleRequest
    <2>6. ASSUME journal.request[r].status # "none", journal.request[r].before.custody # "none"
          PROVE  \E j \in DOMAIN journal'.history :
                    /\ Success(j, journal.request[r].before.custody)'
                    /\ \A i \in DOMAIN journal'.history : Success(i, r)' => j < i
      <3>1. PICK j \in 1..n : /\ Success(j, journal.request[r].before.custody)
                              /\ \A i \in 1..n : Success(i, r) => j < i
        BY <1>3, <2>1, <2>6 DEF LifecycleRequest
      <3>2. Success(j, journal.request[r].before.custody)'
        BY <1>4, <1>6, <3>1, <1>9 DEF Success
      <3>3. \A i \in DOMAIN journal'.history : Success(i, r)' => j < i
        BY <1>9, <3>1
      <3>4. j \in DOMAIN journal'.history
        BY <1>6, <1>9
      <3> QED
        BY <3>2, <3>3, <3>4
    <2> QED
      BY <1>0, <1>4, <1>6, <2>1, <2>2, <2>4, <2>5, <2>6 DEF LifecycleRequest, Known
  <1>12. LifecycleCall'
    BY <1>0, <1>3, <1>4, <1>6 DEF LifecycleCall, Applies, Known, w
  <1>13. /\ IsState(call.after)
         /\ call.outcome # "succeeded" => call.after = base
         /\ call.outcome = "succeeded" /\ m \in Archiving =>
               call.after.archived /\ call.after.custody = base.custody
         /\ call.outcome = "succeeded" /\ m \notin Archiving =>
               call.after.archived = base.archived /\ call.after.custody = m
    BY <1>1, <1>3 DEF After
  <1>14. IsState(journal.state)'
    BY <1>0, <1>4, <1>13 DEF IsState, StateFields
  <1>15. LastChange(journal.state, Len(journal.history))'
    <2>1. CASE call.outcome = "succeeded" /\ m \notin Archiving
      <3>1. Success(n + 1, m)' /\ n + 1 \in 1..(n + 1)
        BY <1>3, <1>9, <2>1
      <3>2. \A i \in 1..(n + 1) : i <= n + 1
        BY <1>3
      <3>3. m # "none"
        BY CallsAssumption
      <3> QED
        BY <1>4, <1>6, <1>13, <2>1, <3>1, <3>2, <3>3 DEF LastChange
    <2>2. CASE ~(call.outcome = "succeeded" /\ m \notin Archiving)
      <3>1. call.after.custody = base.custody
        BY <1>13, <2>2
      <3>2. /\ ~CustodySuccess(n + 1)'
            /\ \A i : i \in 1..n => (CustodySuccess(i)' <=> CustodySuccess(i))
        BY <1>9, <2>2 DEF CustodySuccess
      <3>3. LastChange(base, n)
        <4>1. CASE Known
          BY <1>a, <1>8, <4>1 DEF LifecycleInv, LifecycleHistory
        <4>2. CASE ~Known
          <5>1. 1..n = {}
            BY <1>8, <4>2
          <5> QED
            BY <1>8, <4>2, <5>1 DEF LastChange
        <4> QED
          BY <4>1, <4>2
      <3>4. \A i \in 1..(n + 1) : i \in 1..n \/ i = n + 1
        BY <1>3
      <3>5. CASE base.custody = "none"
        <4>1. ~\E i \in 1..(n + 1) : CustodySuccess(i)'
          BY <3>2, <3>3, <3>4, <3>5 DEF LastChange
        <4> QED
          BY <1>4, <1>6, <3>1, <3>5, <4>1 DEF LastChange
      <3>6. CASE base.custody # "none"
        <4>1. PICK j \in 1..n : /\ base.custody \in Changes \ Archiving
                                /\ Success(j, base.custody)
                                /\ \A i \in 1..n : CustodySuccess(i) => i <= j
          BY <3>3, <3>6 DEF LastChange
        <4>2. Success(j, journal.state.custody)'
          BY <1>4, <1>6, <3>1, <4>1, <1>9 DEF Success
        <4>3. \A i \in 1..(n + 1) : CustodySuccess(i)' => i <= j
          BY <3>2, <3>4, <4>1
        <4>4. j \in 1..(n + 1)
          BY <1>9
        <4> QED
          BY <1>4, <1>6, <3>1, <3>6, <4>1, <4>2, <4>3, <4>4 DEF LastChange
      <3> QED
        BY <3>5, <3>6
    <2> QED
      BY <2>1, <2>2
  <1>16. \A i, j \in DOMAIN journal'.history : \A r \in Changes :
            Success(i, r)' /\ Success(j, r)' => i = j
    <2>1. call.outcome = "succeeded" => \A i \in 1..n : ~Success(i, m)
      BY <1>0, <1>1, <1>3, SucceedsOnce
    <2>2. \A i \in 1..n : \A j \in 1..n : \A r \in Changes : Success(i, r) /\ Success(j, r) => i = j
      BY <1>3 DEF LifecycleInv, LifecycleHistory
    <2> QED
      BY <1>9, <2>1, <2>2
  <1>17. \A i \in DOMAIN journal'.history : \A r \in Archiving :
            Success(i, r)' => journal'.state.archived
    <2>1. ASSUME NEW i \in 1..n, NEW r \in Archiving, Success(i, r)
          PROVE  call.after.archived
      <3>1. journal.state.archived /\ Known
        BY <1>3, <2>1 DEF LifecycleInv, LifecycleHistory, Known, Success
      <3> QED
        BY <1>8, <1>13, <3>1
    <2>2. ASSUME NEW r \in Archiving, Success(n + 1, r)'
          PROVE  call.after.archived
      BY <1>9, <1>13, <2>2
    <2> QED
      BY <1>4, <1>9, <2>1, <2>2
  <1>18. faults' = 0 =>
          \A i \in DOMAIN journal'.history : \A r \in Changes :
             Success(i, r)' => \/ journal'.request[r].status = "succeeded"
                               \/ /\ call'.at = "request" /\ call'.request = r
                                  /\ call'.outcome = "succeeded"
    <2>1. faults = 0 => \A i \in 1..n : \A r \in Changes :
                           Success(i, r) => journal.request[r].status = "succeeded"
      BY <1>0, <1>3 DEF LifecycleInv, LifecycleHistory
    <2> QED
      BY <1>0, <1>4, <1>9, <2>1
  <1>19. LifecycleHistory'
    BY <1>14, <1>15, <1>16, <1>17, <1>18 DEF LifecycleHistory
  <1> QED
    BY <1>10, <1>11, <1>12, <1>19 DEF LifecycleInv

(* The invariant holds at first, and every step keeps it.                  *)
LEMMA LifecycleInit ==
    ASSUME Lifecycle!Init
    PROVE  LifecycleInv
  <1>1. /\ source = [archived |-> FALSE, version |-> 0, moves |-> 0,
                     made |-> [r \in Changes |-> 0]]
        /\ journal = [state |-> "none", history |-> << >>,
                      request |-> [r \in Changes |-> Lifecycle!NoRequest]]
        /\ call = Lifecycle!Idle /\ faults = 0
    BY DEF Lifecycle!Init, Lifecycle!None
  <1>2. /\ DOMAIN Lifecycle!Idle = {"at", "request", "again", "outcome", "retryable", "after"}
        /\ Lifecycle!Idle.at = "idle"
        /\ DOMAIN Lifecycle!NoRequest = {"status", "before", "attempts", "retryable"}
        /\ Lifecycle!NoRequest.status = "none"
    BY DEF Lifecycle!Idle, Lifecycle!NoRequest, Lifecycle!None
  <1>3. /\ DOMAIN source = {"archived", "version", "moves", "made"} /\ source.version = 0
        /\ source.archived = FALSE /\ source.made = [r \in Changes |-> 0]
        /\ DOMAIN journal = {"state", "history", "request"} /\ journal.history = << >>
        /\ journal.request = [r \in Changes |-> Lifecycle!NoRequest]
    BY <1>1
  <1>4. LifecycleTypes
    BY <1>1, <1>2, <1>3 DEF LifecycleTypes
  <1>5. ASSUME NEW r \in Changes PROVE LifecycleRequest(r)
    <2>1. journal.request[r] = Lifecycle!NoRequest /\ source.made[r] = 0
      BY <1>3
    <2>2. \A i : ~Success(i, r)
      BY <1>3 DEF Success
    <2> QED
      BY <1>2, <2>1, <2>2 DEF LifecycleRequest
  <1>6. LifecycleCall
    BY <1>1, <1>2 DEF LifecycleCall
  <1>7. LifecycleHistory
    BY <1>3 DEF LifecycleHistory, Known
  <1> QED
    BY <1>4, <1>5, <1>6, <1>7 DEF LifecycleInv

(* Every action of a lifecycle keeps its invariant.                        *)
LEMMA LifecycleNext ==
    ASSUME LifecycleInv, Lifecycle!Next
    PROVE  LifecycleInv'
  <1>1. ASSUME NEW r \in Changes, Lifecycle!Compose(r) \/ Lifecycle!Begin(r)
        PROVE  LifecycleInv'
    BY <1>1, ComposeKeeps, LifecycleBegins
  <1> QED
    BY <1>1, LifecycleCallEnds, LifecycleWorks, OthersKeep, ArchiveKeeps, AttemptKeeps,
       AggregateKeeps, PutRequestKeeps DEF Lifecycle!Next

(* What it says of the history.                                            *)
LEMMA LifecycleEnd ==
    ASSUME LifecycleInv
    PROVE  Lifecycle!HistoryIsTrue
  <1> SUFFICES ASSUME NEW r \in Changes
               PROVE  /\ journal.request[r].status = "succeeded" =>
                            Lifecycle!Cardinality(Lifecycle!Entries(r, "succeeded")) = 1
                      /\ Lifecycle!Cardinality(Lifecycle!Entries(r, "succeeded")) <= 1
                      /\ journal.request[r].status \in {"denied", "failed"} /\ faults = 0
                            => Lifecycle!Entries(r, "succeeded") = {}
                      /\ source.made[r] <= 1
    BY DEF Lifecycle!HistoryIsTrue, Lifecycle!Request
  <1> DEFINE S == Lifecycle!Entries(r, "succeeded")
  <1>1. /\ \A i : i \in S <=> Success(i, r)
        /\ \A i \in S : i \in DOMAIN journal.history
    BY DEF Lifecycle!Entries, Success
  <1> HIDE DEF S
  <1>2. Lifecycle!Cardinality(S) = Cardinality(S)
    BY DEF Lifecycle!Cardinality, Cardinality
  <1>3. S = {} \/ \E i : S = {i}
    BY <1>1 DEF LifecycleInv, LifecycleHistory
  <1>4. \/ S = {} /\ Cardinality(S) = 0
        \/ S # {} /\ Cardinality(S) = 1
    BY <1>3, FS_EmptySet, FS_Singleton
  <1>5. LifecycleRequest(r)
    BY DEF LifecycleInv
  <1>6. journal.request[r].status = "succeeded" => S # {}
    BY <1>1, <1>5 DEF LifecycleRequest
  <1>7. journal.request[r].status \in {"denied", "failed"} /\ faults = 0 => S = {}
    BY <1>1 DEF LifecycleInv, LifecycleHistory, LifecycleCall, Applies
  <1>8. source.made[r] <= 1
    BY <1>5 DEF LifecycleRequest
  <1> QED
    BY <1>2, <1>4, <1>6, <1>7, <1>8 DEF S

-----------------------------------------------------------------------------
(* A controlled proof.  Its run is done when it is closed, and until then  *)
(* each attempt takes at most two of the controls.                         *)
RunFields == {"at", "context", "scenario", "state", "attempt", "retry", "code", "failure",
              "assertion", "done", "evidence", "controls", "pending", "keys", "cancelling",
              "inbox", "outcome", "boundary"}

Wellformed(p) ==
    /\ DOMAIN p = RunFields
    /\ p.at \in {"none", "start", "activity", "controls", "closed"}
    /\ p.attempt \in 0..MaxProofAttempts /\ IsFiniteSet(p.controls)
    /\ p.pending \in Seq(Signals) /\ p.inbox \in Seq(Signals)
    /\ p.outcome \in Proof!Outcomes \cup {Proof!NoOutcome}
    /\ p.scenario \in Proof!OosScenarios \cup {"none"}
    /\ p.at # "none" => p.scenario # "none"

Taken(p) == Cardinality(p.controls)

Budget(p) ==
    /\ p.at \in {"none", "start"} => p.attempt = 0 /\ Taken(p) = 0
    /\ p.at = "activity" => p.attempt >= 1 /\ Taken(p) + 2 <= 2 * p.attempt
    /\ p.at = "controls" =>
          /\ p.attempt >= 1
          /\ Taken(p) + (IF p.state = "waiting" THEN 1 ELSE 2) <= 2 * p.attempt
    /\ p.at = "closed" => Taken(p) <= 2 * MaxProofAttempts

(* A control is recorded once, under the key that its signal was taken by. *)
Controls(p) ==
    /\ \A i \in DOMAIN p.pending :
          /\ p.pending[i].id \in p.keys
          /\ p.pending[i].action = "signal" =>
                p.scenario \in Proof!External /\ p.pending[i].kind = p.scenario
          /\ \A e \in p.controls : e.id # p.pending[i].id
          /\ \A j \in DOMAIN p.pending :
                \/ p.pending[i].id = p.pending[j].id
                \/ p.pending[i].action = "cancel" /\ p.pending[j].action = "cancel"
                => i = j
    /\ \A e \in p.controls : e.id \in p.keys

OpenRun(p) ==
    /\ ~p.done /\ p.assertion = "pending" /\ p.evidence = {} /\ Controls(p)
    /\ p.retry => p.attempt < MaxProofAttempts
    /\ p.at \in {"activity", "controls"} => source.clock # "early"
    /\ p.at = "activity" /\ p.outcome # Proof!NoOutcome /\ source.clock = "session"
          => p.boundary = p.outcome.code
    /\ p.scenario \in Proof!External /\ p.code = "ready"
          => p.at = "controls" /\ p.state = "waiting" /\ p.boundary = "ready"

(* What the run passes with.                                               *)
Passes(p) ==
    /\ p.scenario \in Proof!External \cup {"nominal-completion"} => p.boundary = "ready"
    /\ p.scenario \in Proof!External => \E c \in p.evidence : c.kind = p.scenario
    /\ p.scenario = "cancellation" =>
          /\ p.boundary = "confirmed"
          /\ \E c \in p.controls : c.action = "cancel" /\ c.id = p.cancelling
    /\ p.scenario = "identity-denial" => p.boundary = "denied"
    /\ p.scenario = "payload-boundary" => p.boundary = "payload"
    /\ p.scenario = "unavailable-dependency" => p.boundary = "unavailable"

ClosedRun(p) ==
    /\ p.done /\ p.assertion # "pending" /\ Proof!EvidenceFits(p)
    /\ p.assertion = "passed" => Passes(p)

RunInv(p) ==
    /\ Wellformed(p) /\ Budget(p)
    /\ p.at = "none" => p = Proof!NoRun
    /\ p.at = "closed" => ClosedRun(p)
    /\ p.at # "closed" => OpenRun(p)

Waits(o) ==
    /\ DOMAIN call[o] = {"at", "control"} /\ call[o].control \subseteq Signals
    /\ call[o].at \in {"checked", "signalled"} =>
          journal # Proof!NoRun /\ journal.context = source.mounted

ProofInv ==
    /\ DOMAIN source = {"clock", "mounted", "worker", "mounts"}
    /\ source.clock \in Proof!Clocks
    /\ RunInv(journal)
    /\ DOMAIN call = Calls /\ \A o \in Calls : Waits(o)
    /\ Proof!ReceiptIsTheRuns

(* What the run is, but for what came of it.                               *)
SameRun(q, p) ==
    /\ DOMAIN q = RunFields /\ q.at = p.at /\ q.context = p.context
    /\ q.scenario = p.scenario /\ q.attempt = p.attempt /\ q.pending = p.pending
    /\ q.keys = p.keys /\ q.cancelling = p.cancelling /\ q.inbox = p.inbox
    /\ q.outcome = p.outcome /\ q.boundary = p.boundary

(* The results of an attempt.                                              *)
LEMMA CompleteScenarioFacts ==
    ASSUME NEW p, DOMAIN p = RunFields
    PROVE  LET q == Proof!CompleteScenario(p) IN
           /\ SameRun(q, p) /\ q.controls = p.controls /\ q.evidence = p.evidence
           /\ q.done /\ q.assertion = "passed" /\ q.code = p.code /\ ~q.retry
  BY DEF Proof!CompleteScenario, SameRun, RunFields

(* What a failure makes of the run.                                        *)
LEMMA ProjectFailureFacts ==
    ASSUME NEW p, DOMAIN p = RunFields, ~p.done, p.assertion = "pending", NEW given
    PROVE  LET q == Proof!ProjectFailure(p, given) IN
           /\ SameRun(q, p) /\ q.controls = p.controls /\ q.evidence = p.evidence
           /\ q.done <=> q.assertion # "pending"
           /\ q.code = p.code
           /\ q.assertion = "passed" =>
                 source.clock # "expired" /\ Proof!MatchesScenario(p, given)
           /\ ~q.done => q.state = "failed"
           /\ q.retry => p.attempt < MaxProofAttempts
           /\ given = "authorization" => q.done /\ q.assertion = "failed"
  <1> DEFINE type == Proof!FailureType(given)
             again == type \notin Proof!NonRetryable /\ p.attempt < MaxProofAttempts
             f == [p EXCEPT !.failure = type]
             g == [p EXCEPT !.state = "failed", !.retry = again, !.failure = type,
                        !.assertion = IF again THEN @ ELSE "failed", !.done = ~again]
  <1>1. /\ DOMAIN f = RunFields /\ SameRun(f, p) /\ f.controls = p.controls
        /\ f.evidence = p.evidence /\ f.code = p.code
    BY DEF SameRun, RunFields
  <1>2. /\ SameRun(g, p) /\ g.controls = p.controls /\ g.evidence = p.evidence
        /\ g.code = p.code /\ g.state = "failed" /\ g.done = ~again /\ g.retry = again
        /\ g.assertion = IF again THEN "pending" ELSE "failed"
    BY DEF SameRun, RunFields
  <1>3. given = "authorization" => type = "authorization"
    BY DEF Proof!FailureType
  <1>4. Proof!MatchesScenario(p, type) =>
           type # "authorization" /\ type # "cancelled"
    BY DEF Proof!MatchesScenario
  <1>5. type # "authorization" => type = given /\ source.clock # "expired"
    BY DEF Proof!FailureType, Proof!Expired
  <1>6. /\ type = "authorization" => ~again
        /\ again => p.attempt < MaxProofAttempts
    BY DEF Proof!NonRetryable
  <1>7. Proof!ProjectFailure(p, given) =
           IF type = "cancelled" THEN Proof!CancelProof(p, FALSE)
           ELSE IF Proof!MatchesScenario(p, type) THEN Proof!CompleteScenario(f)
           ELSE g
    <2>1. CASE type = "cancelled"
      BY <2>1 DEF Proof!ProjectFailure
    <2>2. CASE type # "cancelled" /\ Proof!MatchesScenario(p, type)
      BY <2>2 DEF Proof!ProjectFailure
    <2>3. CASE type # "cancelled" /\ ~Proof!MatchesScenario(p, type)
      BY <2>3 DEF Proof!ProjectFailure
    <2> HIDE DEF type, again, f, g
    <2> QED
      BY <2>1, <2>2, <2>3
  <1> HIDE DEF type, again, f, g
  <1>8. CASE type = "cancelled"
    <2> DEFINE u == Proof!CancelProof(p, FALSE)
    <2>1. /\ SameRun(u, p) /\ u.controls = p.controls /\ u.evidence = p.evidence
          /\ u.done /\ u.assertion = "failed" /\ u.code = p.code /\ ~u.retry
      BY DEF Proof!CancelProof, SameRun, RunFields
    <2>2. Proof!ProjectFailure(p, given) = u
      BY <1>7, <1>8
    <2> HIDE DEF u
    <2> QED
      BY <1>3, <1>8, <2>1, <2>2
  <1>9. CASE type # "cancelled" /\ Proof!MatchesScenario(p, type)
    <2>1. Proof!ProjectFailure(p, given) = Proof!CompleteScenario(f)
      BY <1>7, <1>9
    <2> QED
      BY <1>1, <1>3, <1>4, <1>5, <1>9, <2>1, CompleteScenarioFacts DEF SameRun
  <1>10. CASE type # "cancelled" /\ ~Proof!MatchesScenario(p, type)
    BY <1>2, <1>3, <1>6, <1>7, <1>10
  <1> QED
    BY <1>8, <1>9, <1>10

(* What a result makes of the run.                                         *)
LEMMA ProjectResultFacts ==
    ASSUME NEW p, DOMAIN p = RunFields, ~p.done, p.assertion = "pending", NEW code
    PROVE  LET q == Proof!ProjectResult(p, code) IN
           /\ SameRun(q, p) /\ q.controls = p.controls /\ q.evidence = p.evidence
           /\ q.done <=> q.assertion # "pending"
           /\ q.assertion = "passed" =>
                 /\ source.clock # "expired"
                 /\ \/ code = "ready" /\ p.scenario = "nominal-completion"
                    \/ code = "unavailable" /\ p.scenario = "unavailable-dependency"
           /\ q.code \in {p.code, code}
           /\ q.retry => p.attempt < MaxProofAttempts
           /\ ~q.done => \/ q.state \in {"failed", "blocked"}
                         \/ q.state = "waiting" /\ source.clock # "expired"
           /\ ~q.done /\ p.scenario \in Proof!External /\ q.code = "ready" /\ p.code # "ready"
                 => q.state = "waiting" /\ code = "ready" /\ source.clock # "expired"
  <1> DEFINE b == [p EXCEPT !.code = code]
             w == [b EXCEPT !.state = "waiting", !.retry = FALSE]
             x == [b EXCEPT !.state = "blocked", !.retry = p.attempt < MaxProofAttempts]
             done == \/ code = "ready" /\ p.scenario = "nominal-completion"
                     \/ code = "unavailable" /\ p.scenario = "unavailable-dependency"
  <1>1. /\ DOMAIN b = RunFields /\ SameRun(b, p) /\ b.controls = p.controls
        /\ b.evidence = p.evidence /\ b.code = code
    BY DEF SameRun, RunFields
  <1>2. /\ SameRun(w, p) /\ w.controls = p.controls /\ w.evidence = p.evidence
        /\ w.code = code /\ w.state = "waiting" /\ ~w.done /\ w.assertion = "pending"
        /\ ~w.retry
    BY DEF SameRun, RunFields
  <1>3. /\ SameRun(x, p) /\ x.controls = p.controls /\ x.evidence = p.evidence
        /\ x.code = code /\ x.state = "blocked" /\ ~x.done /\ x.assertion = "pending"
        /\ x.retry => p.attempt < MaxProofAttempts
    BY DEF SameRun, RunFields
  <1>4. "nominal-completion" \notin Proof!External /\ "unavailable-dependency" \notin Proof!External
    BY DEF Proof!External
  <1>5. Proof!ProjectResult(p, code) =
           IF source.clock = "expired" THEN Proof!ProjectFailure(p, "authorization")
           ELSE IF done THEN Proof!CompleteScenario(b)
           ELSE IF code = "ready" /\ p.scenario \in Proof!External THEN w ELSE x
    BY <1>4 DEF Proof!ProjectResult, Proof!Expired
  <1> HIDE DEF b, w, x, done
  <1>6. CASE source.clock = "expired"
    <2>1. Proof!ProjectResult(p, code) = Proof!ProjectFailure(p, "authorization")
      BY <1>5, <1>6
    <2> QED
      BY <2>1, ProjectFailureFacts
  <1>7. CASE source.clock # "expired" /\ done
    <2>1. Proof!ProjectResult(p, code) = Proof!CompleteScenario(b)
      BY <1>5, <1>7
    <2> QED
      BY <1>1, <1>7, <2>1, CompleteScenarioFacts DEF SameRun, done
  <1>8. CASE source.clock # "expired" /\ ~done
    BY <1>2, <1>3, <1>5, <1>8
  <1> QED
    BY <1>6, <1>7, <1>8

(* A control that is recorded, and one more at most.                       *)
LEMMA RecordControlFacts ==
    ASSUME NEW p, DOMAIN p = RunFields, IsFiniteSet(p.controls), NEW c
    PROVE  LET q == Proof!RecordControl(p, c) IN
           /\ SameRun(q, p) /\ q.evidence = p.evidence /\ q.code = p.code
           /\ q.done = p.done /\ q.assertion = p.assertion /\ q.state = p.state
           /\ q.retry = p.retry
           /\ IsFiniteSet(q.controls) /\ Taken(q) \in Nat
           /\ p.controls \subseteq q.controls /\ q.controls \subseteq p.controls \cup {c}
           /\ (\A e \in p.controls : e.id # c.id) => c \in q.controls
           /\ Taken(p) \in Nat /\ Taken(q) <= Taken(p) + 1
  <1> DEFINE q == [p EXCEPT !.controls = @ \cup {c}]
  <1>1. /\ SameRun(q, p) /\ q.evidence = p.evidence /\ q.code = p.code
        /\ q.done = p.done /\ q.assertion = p.assertion /\ q.state = p.state
        /\ q.controls = p.controls \cup {c} /\ q.retry = p.retry
    BY DEF SameRun, RunFields
  <1>2. SameRun(p, p)
    BY DEF SameRun
  <1>3. /\ IsFiniteSet(p.controls \cup {c}) /\ Cardinality(p.controls) \in Nat
        /\ Cardinality(p.controls \cup {c}) \in Nat
        /\ Cardinality(p.controls \cup {c}) <= Cardinality(p.controls) + 1
    <2>1. IsFiniteSet(p.controls \cup {c})
      BY FS_AddElement
    <2>2. /\ Cardinality(p.controls) \in Nat
          /\ Cardinality(p.controls \cup {c}) \in Nat
      BY <2>1, FS_CardinalityType
    <2>3. \/ Cardinality(p.controls \cup {c}) = Cardinality(p.controls)
          \/ Cardinality(p.controls \cup {c}) = Cardinality(p.controls) + 1
      BY FS_AddElement
    <2> QED
      BY <2>1, <2>2, <2>3
  <1> HIDE DEF q
  <1>4. Proof!RecordControl(p, c) = p \/ Proof!RecordControl(p, c) = q
    BY DEF Proof!RecordControl, q
  <1>5. (\A e \in p.controls : e.id # c.id) => Proof!RecordControl(p, c) = q
    BY DEF Proof!RecordControl, q
  <1> QED
    BY <1>1, <1>2, <1>3, <1>4, <1>5 DEF Taken

(* A closed run.                                                           *)
LEMMA CloseFacts ==
    ASSUME NEW q, DOMAIN q = RunFields, q.attempt \in 0..MaxProofAttempts,
           IsFiniteSet(q.controls), Taken(q) <= 2 * MaxProofAttempts,
           q.scenario \in Proof!OosScenarios, q.done, q.assertion # "pending",
           Proof!EvidenceFits(q), q.assertion = "passed" => Passes(q)
    PROVE  /\ RunInv(Proof!Close(q)) /\ Proof!Close(q).context = q.context
           /\ Proof!Close(q).at = "closed" /\ Proof!Close(q).assertion = q.assertion
  <1> DEFINE z == Proof!Close(q)
  <1>1. /\ DOMAIN z = RunFields /\ z.at = "closed" /\ z.attempt = q.attempt
        /\ z.controls = q.controls /\ z.pending = << >> /\ z.inbox = << >>
        /\ z.outcome = Proof!NoOutcome /\ z.scenario = q.scenario /\ z.done = q.done
        /\ z.assertion = q.assertion /\ z.evidence = q.evidence
        /\ z.boundary = q.boundary /\ z.cancelling = q.cancelling /\ z.context = q.context
    BY DEF Proof!Close, RunFields
  <1> HIDE DEF z
  <1>2. Wellformed(z)
    BY <1>1 DEF Wellformed, Proof!OosScenarios, Proof!External
  <1>3. Budget(z)
    BY <1>1 DEF Budget, Taken
  <1>4. ClosedRun(z)
    BY <1>1 DEF ClosedRun, Proof!EvidenceFits, Passes
  <1> QED
    BY <1>1, <1>2, <1>3, <1>4 DEF RunInv, z

(* A run that goes on, and what it goes on to.                             *)
Running(p) ==
    /\ Wellformed(p) /\ ~p.done /\ p.assertion = "pending" /\ p.evidence = {}
    /\ Controls(p) /\ p.scenario \in Proof!OosScenarios
    /\ p.retry => p.attempt < MaxProofAttempts

GoesTo(q, p) ==
    /\ RunInv(q) /\ q.context = p.context /\ q.at # "none"
    /\ q.assertion = "passed" => source.clock = "session"

(* A run whose authorization ended fails.                                  *)
LEMMA FailureCloses ==
    ASSUME NEW p, Running(p), Taken(p) <= 2 * MaxProofAttempts
    PROVE  GoesTo(Proof!Close(Proof!ProjectFailure(p, "authorization")), p)
  <1> DEFINE q == Proof!ProjectFailure(p, "authorization")
  <1>1. /\ SameRun(q, p) /\ q.controls = p.controls /\ q.evidence = p.evidence
        /\ q.done /\ q.assertion = "failed"
    BY ProjectFailureFacts DEF Running, Wellformed
  <1> HIDE DEF q
  <1>2. /\ RunInv(Proof!Close(q)) /\ Proof!Close(q).context = q.context
        /\ Proof!Close(q).at = "closed" /\ Proof!Close(q).assertion = q.assertion
    <2>1. /\ DOMAIN q = RunFields /\ q.attempt \in 0..MaxProofAttempts
          /\ IsFiniteSet(q.controls) /\ Taken(q) <= 2 * MaxProofAttempts
          /\ q.scenario \in Proof!OosScenarios /\ q.done /\ q.assertion # "pending"
          /\ Proof!EvidenceFits(q) /\ q.assertion # "passed"
      BY <1>1 DEF Running, Wellformed, SameRun, Taken, Proof!EvidenceFits
    <2> QED
      BY <2>1, CloseFacts
  <1> QED
    BY <1>1, <1>2 DEF GoesTo, SameRun, q

(* A cancel that is taken ends the run; it passes when it has reached the  *)
(* activity.                                                               *)
LEMMA CancelCloses ==
    ASSUME NEW p, Wellformed(p), p.evidence = {}, Controls(p),
           p.scenario \in Proof!OosScenarios, source.clock \in Proof!Clocks,
           Taken(p) + 1 <= 2 * MaxProofAttempts, Proof!CancelsOf(p) # {}, NEW confirmed,
           \A x \in confirmed : /\ x = p.cancelling /\ source.clock # "early"
                                /\ source.clock = "session" => p.boundary = "confirmed"
    PROVE  GoesTo(Proof!TakeCancel(p, confirmed), p)
  <1> DEFINE i == CHOOSE i \in Proof!CancelsOf(p) : \A j \in Proof!CancelsOf(p) : i <= j
             c == p.pending[i]
             rest == SubSeq(p.pending, 1, i - 1) \o SubSeq(p.pending, i + 1, Len(p.pending))
             t == [p EXCEPT !.pending = rest]
             u == Proof!RecordControl(t, c)
             q == Proof!CancelProof(u, c.id \in confirmed)
  <1>1. Proof!TakeCancel(p, confirmed) = Proof!Close(q)
    BY DEF Proof!TakeCancel
  <1>2. i \in Proof!CancelsOf(p)
    <2>1. PICK k \in Proof!CancelsOf(p) : TRUE
      OBVIOUS
    <2>2. k \in Nat
      BY <2>1 DEF Proof!CancelsOf, Wellformed
    <2>3. \A j \in Proof!CancelsOf(p) : k <= j
      BY <2>1, <2>2 DEF Proof!CancelsOf, Controls
    <2> QED
      BY <2>1, <2>3
  <1> HIDE DEF i
  <1>3. /\ c.action = "cancel" /\ \A e \in p.controls : e.id # c.id
    BY <1>2 DEF Proof!CancelsOf, Controls
  <1> HIDE DEF c, rest
  <1>4. /\ DOMAIN t = RunFields /\ t.controls = p.controls /\ t.evidence = p.evidence
        /\ t.attempt = p.attempt /\ t.context = p.context /\ t.scenario = p.scenario
        /\ t.cancelling = p.cancelling /\ t.boundary = p.boundary
    BY DEF Wellformed, RunFields
  <1> HIDE DEF t
  <1>5. /\ SameRun(u, t) /\ u.evidence = t.evidence /\ IsFiniteSet(u.controls)
        /\ Taken(u) \in Nat /\ Taken(u) <= Taken(t) + 1 /\ Taken(t) \in Nat
        /\ c \in u.controls
    <2>1. IsFiniteSet(t.controls) /\ \A e \in t.controls : e.id # c.id
      BY <1>3, <1>4 DEF Wellformed
    <2>2. /\ SameRun(u, t) /\ u.evidence = t.evidence /\ IsFiniteSet(u.controls)
          /\ Taken(u) \in Nat /\ Taken(u) <= Taken(t) + 1 /\ Taken(t) \in Nat
          /\ (\A e \in t.controls : e.id # c.id) => c \in u.controls
      BY <1>4, <2>1, RecordControlFacts
    <2> QED
      BY <2>1, <2>2
  <1> HIDE DEF u
  <1>6. /\ SameRun(q, u) /\ q.controls = u.controls /\ q.evidence = u.evidence
        /\ q.done /\ q.assertion # "pending"
        /\ q.assertion = "passed" => /\ u.scenario = "cancellation" /\ c.id \in confirmed
                                     /\ source.clock # "expired"
    BY <1>5 DEF Proof!CancelProof, Proof!Expired, SameRun, RunFields
  <1> HIDE DEF q
  <1>7. q.assertion = "passed" => source.clock = "session" /\ Passes(q)
    BY <1>3, <1>4, <1>5, <1>6 DEF SameRun, Passes, Proof!External, Proof!Clocks
  <1>8. /\ RunInv(Proof!Close(q)) /\ Proof!Close(q).context = q.context
        /\ Proof!Close(q).at = "closed" /\ Proof!Close(q).assertion = q.assertion
    <2>1. /\ DOMAIN q = RunFields /\ q.attempt \in 0..MaxProofAttempts
          /\ IsFiniteSet(q.controls) /\ Taken(q) <= 2 * MaxProofAttempts
          /\ q.scenario \in Proof!OosScenarios /\ q.done /\ q.assertion # "pending"
          /\ Proof!EvidenceFits(q)
      BY <1>4, <1>5, <1>6, ProofAssumption
         DEF Wellformed, SameRun, Taken, Proof!EvidenceFits
    <2> QED
      BY <1>7, <2>1, CloseFacts
  <1> QED
    BY <1>1, <1>4, <1>5, <1>6, <1>7, <1>8 DEF GoesTo, SameRun

(* What the head of the loop makes of a run.                               *)
LEMMA LoopKeeps ==
    ASSUME NEW p, Running(p), source.clock \in Proof!Clocks, source.clock # "early",
           Taken(p) <= 2 * p.attempt, Taken(p) + 1 <= 2 * MaxProofAttempts,
           ~(p.scenario \in Proof!External /\ p.code = "ready")
    PROVE  GoesTo(Proof!LoopHead(p), p)
  <1>0. p.attempt \in Nat /\ Taken(p) \in Nat
    BY FS_CardinalityType, ProofAssumption DEF Running, Wellformed, Taken
  <1>1. CASE Proof!CancelsOf(p) # {}
    <2>1. Proof!LoopHead(p) = Proof!TakeCancel(p, {})
      BY <1>1 DEF Proof!LoopHead
    <2> QED
      BY <1>1, <2>1, CancelCloses DEF Running
  <1>2. CASE Proof!CancelsOf(p) = {} /\ source.clock = "expired"
    <2>1. Proof!LoopHead(p) = Proof!Close(Proof!ProjectFailure(p, "authorization"))
      BY <1>2 DEF Proof!LoopHead, Proof!Expired
    <2> QED
      BY <1>0, <2>1, ProofAssumption, FailureCloses DEF Running
  <1>3. CASE /\ Proof!CancelsOf(p) = {} /\ source.clock # "expired"
             /\ p.attempt >= MaxProofAttempts
    <2> DEFINE q == [p EXCEPT !.state = "failed", !.assertion = "failed", !.done = TRUE]
    <2>1. Proof!LoopHead(p) = Proof!Close(q)
      BY <1>0, <1>3, ProofAssumption DEF Proof!LoopHead, Proof!Expired, Proof!FinishAttempts, Running
    <2>2. /\ DOMAIN q = RunFields /\ q.attempt \in 0..MaxProofAttempts
          /\ IsFiniteSet(q.controls) /\ Taken(q) <= 2 * MaxProofAttempts
          /\ q.scenario \in Proof!OosScenarios /\ q.done /\ q.assertion = "failed"
          /\ Proof!EvidenceFits(q) /\ q.context = p.context
      BY <1>0, ProofAssumption DEF Running, Wellformed, RunFields, Taken, Proof!EvidenceFits
    <2> HIDE DEF q
    <2>3. /\ RunInv(Proof!Close(q)) /\ Proof!Close(q).context = q.context
          /\ Proof!Close(q).at = "closed" /\ Proof!Close(q).assertion = q.assertion
      BY <2>2, CloseFacts
    <2> QED
      BY <2>1, <2>2, <2>3 DEF GoesTo
  <1>4. CASE /\ Proof!CancelsOf(p) = {} /\ source.clock # "expired"
             /\ ~(p.attempt >= MaxProofAttempts)
    <2> DEFINE q == [Proof!StartProofAttempt(p) EXCEPT
                        !.at = "activity", !.cancelling = "none",
                        !.outcome = Proof!NoOutcome, !.boundary = "none"]
    <2>1. Proof!LoopHead(p) = q
      BY <1>4 DEF Proof!LoopHead, Proof!Expired, Proof!None
    <2>2. /\ DOMAIN q = RunFields /\ q.at = "activity" /\ q.attempt = p.attempt + 1
          /\ q.controls = p.controls /\ q.pending = p.pending /\ q.inbox = p.inbox
          /\ q.outcome = Proof!NoOutcome /\ q.scenario = p.scenario /\ q.done = p.done
          /\ q.assertion = p.assertion /\ q.evidence = p.evidence /\ q.keys = p.keys
          /\ q.context = p.context /\ ~q.retry /\ q.code = p.code
      BY DEF Proof!StartProofAttempt, Running, Wellformed, RunFields
    <2> HIDE DEF q
    <2>3. Wellformed(q)
      BY <1>0, <1>4, <2>2, ProofAssumption DEF Running, Wellformed, Proof!OosScenarios, Proof!External
    <2>4. Budget(q)
      BY <1>0, <2>2 DEF Budget, Taken
    <2>5. OpenRun(q)
      BY <2>2 DEF OpenRun, Running, Controls
    <2> QED
      BY <2>1, <2>2, <2>3, <2>4, <2>5 DEF GoesTo, RunInv, Running
  <1> QED
    BY <1>1, <1>2, <1>3, <1>4

(* A step of the run alone, while it is not done: nobody was told of it.   *)
LEMMA RunMoves ==
    ASSUME ProofInv, ~journal.done, UNCHANGED <<source, call, faults>>,
           RunInv(journal'), journal'.context = journal.context, journal'.at # "none"
    PROVE  ProofInv'
  <1>1. RunInv(journal)'
    <2>1. Wellformed(journal)'
      BY DEF RunInv, Wellformed, Proof!NoOutcome, Proof!None, Proof!Outcomes,
             Proof!OosScenarios, Proof!External, RunFields
    <2>2. Budget(journal)'
      BY DEF RunInv, Budget, Taken
    <2>3. journal'.at = "closed" => ClosedRun(journal)'
      BY DEF RunInv, ClosedRun, Passes, Proof!EvidenceFits, Proof!External
    <2>4. journal'.at # "closed" => OpenRun(journal)'
      BY DEF RunInv, OpenRun, Controls, Proof!External, Proof!NoOutcome, Proof!None
    <2> QED
      BY <2>1, <2>2, <2>3, <2>4 DEF RunInv
  <1>2. \A o \in Calls : Waits(o)'
    BY DEF ProofInv, Waits, Proof!NoRun, Proof!NoOutcome, Proof!None
  <1>3. faults = {}
    BY DEF ProofInv, Proof!ReceiptIsTheRuns
  <1>4. Proof!ReceiptIsTheRuns'
    BY <1>3 DEF Proof!ReceiptIsTheRuns
  <1> QED
    BY <1>1, <1>2, <1>4 DEF ProofInv

(* A step of the run alone keeps the observers, and passes only in         *)
(* session.                                                                *)
LEMMA RunGoes ==
    ASSUME ProofInv, ~journal.done, UNCHANGED <<source, call, faults>>, GoesTo(journal', journal)
    PROVE  ProofInv' /\ Proof!PassStep
  BY RunMoves DEF GoesTo, Proof!PassStep

(* A run that is at work.                                                  *)
LEMMA RunAtWork ==
    ASSUME ProofInv, journal.at \in {"start", "activity", "controls"}
    PROVE  /\ Running(journal) /\ source.clock \in Proof!Clocks /\ ~journal.done
           /\ OpenRun(journal) /\ Budget(journal)
           /\ journal.attempt \in Nat /\ journal.attempt <= MaxProofAttempts
           /\ Taken(journal) \in Nat /\ IsFiniteSet(journal.controls)
  <1>1. RunInv(journal) /\ source.clock \in Proof!Clocks
    BY DEF ProofInv
  <1>2. /\ OpenRun(journal) /\ Wellformed(journal) /\ Budget(journal)
        /\ IsFiniteSet(journal.controls)
    BY <1>1 DEF RunInv, Wellformed
  <1>3. Taken(journal) \in Nat
    BY <1>2, FS_CardinalityType DEF Taken
  <1> QED
    BY <1>1, <1>2, <1>3, ProofAssumption
       DEF Running, OpenRun, Wellformed, Proof!External

(* The first activation.                                                   *)
LEMMA FirstActivationKeeps ==
    ASSUME ProofInv, Proof!Begin
    PROVE  ProofInv' /\ Proof!PassStep
  <1>1. /\ journal.at = "start" /\ UNCHANGED <<source, call, faults>>
    BY DEF Proof!Begin
  <1>2. /\ Running(journal) /\ source.clock \in Proof!Clocks /\ ~journal.done
        /\ journal.attempt = 0 /\ Taken(journal) = 0
        /\ ~(journal.scenario \in Proof!External /\ journal.code = "ready")
    BY <1>1, RunAtWork DEF OpenRun, Budget
  <1>3. GoesTo(journal', journal)
    <2>1. CASE source.clock # "session"
      <3>1. journal' = Proof!Close(Proof!ProjectFailure(journal, "authorization"))
        BY <2>1 DEF Proof!Begin
      <3> QED
        BY <1>2, <3>1, ProofAssumption, FailureCloses
    <2>2. CASE source.clock = "session"
      <3>1. journal' = Proof!LoopHead(journal)
        BY <2>2 DEF Proof!Begin
      <3> QED
        BY <1>2, <2>2, <3>1, ProofAssumption, LoopKeeps
    <2> QED
      BY <2>1, <2>2
  <1> QED
    BY <1>1, <1>2, <1>3, RunGoes

(* The activity comes to an end.                                           *)
LEMMA ActivityKeeps ==
    ASSUME ProofInv, Proof!ActivityReturns
    PROVE  ProofInv' /\ Proof!PassStep
  <1>1. PICK outcome \in Proof!Outcomes :
           journal' = [journal EXCEPT !.outcome = outcome,
                          !.boundary = IF source.clock = "session" THEN outcome.code ELSE "none"]
    BY DEF Proof!ActivityReturns, Proof!None
  <1>2. /\ journal.at = "activity" /\ UNCHANGED <<source, call, faults>>
    BY DEF Proof!ActivityReturns
  <1>3. /\ Running(journal) /\ OpenRun(journal) /\ Budget(journal) /\ ~journal.done
    BY <1>2, RunAtWork
  <1>4. DOMAIN journal = RunFields
    BY <1>3 DEF Running, Wellformed
  <1>5. /\ DOMAIN journal' = RunFields /\ journal'.outcome = outcome
        /\ journal'.boundary = IF source.clock = "session" THEN outcome.code ELSE "none"
        /\ \A x \in RunFields \ {"outcome", "boundary"} : journal'[x] = journal[x]
    BY <1>1, <1>4 DEF RunFields
  <1>6. /\ journal'.at = "activity" /\ journal'.context = journal.context
        /\ journal'.assertion = journal.assertion /\ journal'.done = journal.done
        /\ journal'.attempt = journal.attempt /\ journal'.controls = journal.controls
        /\ journal'.evidence = journal.evidence /\ journal'.pending = journal.pending
        /\ journal'.keys = journal.keys /\ journal'.inbox = journal.inbox
        /\ journal'.scenario = journal.scenario /\ journal'.retry = journal.retry
        /\ journal'.state = journal.state /\ journal'.code = journal.code
    BY <1>2, <1>5 DEF RunFields
  <1>7. Wellformed(journal')
    <2>1. DOMAIN journal' = RunFields
      BY <1>5
    <2>2. journal'.at \in {"none", "start", "activity", "controls", "closed"}
      BY <1>6
    <2>3. journal'.attempt \in 0..MaxProofAttempts /\ IsFiniteSet(journal'.controls)
      BY <1>3, <1>6 DEF Running, Wellformed
    <2>4. journal'.pending \in Seq(Signals) /\ journal'.inbox \in Seq(Signals)
      BY <1>3, <1>6 DEF Running, Wellformed
    <2>5. journal'.outcome \in Proof!Outcomes
      BY <1>5
    <2>6. journal'.scenario \in Proof!OosScenarios \cup {"none"} /\ journal'.scenario # "none"
      BY <1>3, <1>6, <1>2 DEF Running, Wellformed
    <2> QED
      BY <2>1, <2>2, <2>3, <2>4, <2>5, <2>6 DEF Wellformed
  <1>8. Budget(journal')
    BY <1>2, <1>3, <1>6 DEF Budget, Taken
  <1>9. OpenRun(journal')
    BY <1>2, <1>3, <1>5, <1>6 DEF OpenRun, Controls
  <1> QED
    BY <1>2, <1>3, <1>6, <1>7, <1>8, <1>9, RunGoes DEF GoesTo, RunInv, OpenRun

(* A signal is handled.                                                    *)
LEMMA SignalKeeps ==
    ASSUME ProofInv, Proof!HandleSignal
    PROVE  ProofInv' /\ Proof!PassStep
  <1> DEFINE c == Head(journal.inbox)
  <1>1. /\ journal.at \in {"start", "activity", "controls"} /\ journal.inbox # << >>
        /\ UNCHANGED <<source, call, faults>>
    BY DEF Proof!HandleSignal
  <1>2. /\ Running(journal) /\ OpenRun(journal) /\ Budget(journal) /\ ~journal.done
        /\ Wellformed(journal) /\ DOMAIN journal = RunFields /\ Controls(journal)
    BY <1>1, RunAtWork DEF Running, Wellformed
  <1>3. /\ DOMAIN journal' = RunFields /\ journal'.inbox = Tail(journal.inbox)
        /\ journal'.at = journal.at /\ journal'.context = journal.context
        /\ journal'.assertion = journal.assertion /\ journal'.done = journal.done
        /\ journal'.attempt = journal.attempt /\ journal'.controls = journal.controls
        /\ journal'.evidence = journal.evidence /\ journal'.outcome = journal.outcome
        /\ journal'.scenario = journal.scenario /\ journal'.retry = journal.retry
        /\ journal'.state = journal.state /\ journal'.code = journal.code
        /\ journal'.boundary = journal.boundary
    BY <1>2 DEF Proof!HandleSignal, RunFields
  <1>4. \/ /\ ~Proof!Enqueues(c)
           /\ journal'.pending = journal.pending /\ journal'.keys = journal.keys
        \/ /\ Proof!Enqueues(c)
           /\ journal'.pending = Append(journal.pending, c)
           /\ journal'.keys = journal.keys \cup {c.id}
    BY <1>2 DEF Proof!HandleSignal, RunFields
  <1>5. /\ c \in Signals /\ Tail(journal.inbox) \in Seq(Signals)
        /\ journal.pending \in Seq(Signals)
    BY <1>1, <1>2 DEF Wellformed
  <1> HIDE DEF c
  <1>6. Controls(journal')
    <2>1. CASE ~Proof!Enqueues(c)
      BY <1>2, <1>3, <1>4, <2>1 DEF Controls
    <2>2. CASE Proof!Enqueues(c)
      <3> DEFINE n == Len(journal.pending)
      <3>1. /\ journal'.pending = Append(journal.pending, c)
            /\ journal'.keys = journal.keys \cup {c.id}
        BY <1>4, <2>2
      <3>2. /\ c.id \notin journal.keys
            /\ c.action = "signal" => /\ journal.scenario \in Proof!External
                                      /\ c.kind = journal.scenario
            /\ c.action = "cancel" => \A i \in DOMAIN journal.pending :
                                         journal.pending[i].action # "cancel"
        BY <2>2 DEF Proof!Enqueues, Proof!Admits, Proof!Pending
      <3>3. /\ n \in Nat /\ DOMAIN journal.pending = 1..n
            /\ DOMAIN journal'.pending = 1..(n + 1)
            /\ \A i \in 1..n : journal'.pending[i] = journal.pending[i]
            /\ journal'.pending[n + 1] = c
        BY <1>5, <3>1
      <3> HIDE DEF n
      <3>4. \A i \in DOMAIN journal'.pending :
               i \in 1..n \/ (i = n + 1 /\ i \notin 1..n)
        BY <3>3
      <3> QED
        BY <1>2, <1>3, <3>1, <3>2, <3>3, <3>4 DEF Controls
    <2> QED
      BY <2>1, <2>2
  <1>7. Wellformed(journal')
    <2>0. Append(journal.pending, c) \in Seq(Signals)
      BY <1>5
    <2>1. journal'.pending \in Seq(Signals) /\ journal'.inbox \in Seq(Signals)
      BY <1>3, <1>4, <1>5, <2>0
    <2>2. journal'.attempt \in 0..MaxProofAttempts /\ IsFiniteSet(journal'.controls)
      BY <1>2, <1>3 DEF Wellformed
    <2>3. /\ journal'.scenario \in Proof!OosScenarios \cup {"none"}
          /\ journal'.scenario # "none"
      BY <1>1, <1>2, <1>3 DEF Wellformed
    <2>4. journal'.outcome \in Proof!Outcomes \cup {Proof!NoOutcome}
      BY <1>2, <1>3 DEF Wellformed
    <2> QED
      BY <1>1, <1>3, <2>1, <2>2, <2>3, <2>4 DEF Wellformed
  <1>8. Budget(journal')
    BY <1>2, <1>3 DEF Budget, Taken
  <1>9. OpenRun(journal')
    BY <1>2, <1>3, <1>6 DEF OpenRun
  <1> QED
    BY <1>1, <1>2, <1>3, <1>7, <1>8, <1>9, RunGoes DEF GoesTo, RunInv, OpenRun

(* The run that has the outcome of its activity.                           *)
LEMMA SettledFacts ==
    ASSUME ProofInv, journal.at = "activity", journal.outcome # Proof!NoOutcome
    PROVE  LET q == Proof!Settled IN
           /\ SameRun(q, journal) /\ q.controls = journal.controls /\ q.evidence = {}
           /\ q.done <=> q.assertion # "pending"
           /\ q.assertion = "passed" => source.clock = "session" /\ Passes(q)
           /\ ~q.done => /\ q.retry => q.attempt < MaxProofAttempts
                         /\ q.scenario \in Proof!External /\ q.code = "ready"
                              => q.state = "waiting" /\ q.boundary = "ready"
  <1> DEFINE o == journal.outcome
  <1>1. /\ Running(journal) /\ OpenRun(journal) /\ source.clock \in Proof!Clocks
        /\ ~journal.done /\ source.clock # "early"
    BY RunAtWork DEF OpenRun
  <1>2. /\ DOMAIN journal = RunFields /\ journal.assertion = "pending"
        /\ journal.evidence = {} /\ journal.scenario \in Proof!OosScenarios
        /\ o \in Proof!Outcomes /\ (source.clock = "session" => journal.boundary = o.code)
        /\ ~(journal.scenario \in Proof!External /\ journal.code = "ready")
        /\ (journal.retry => journal.attempt < MaxProofAttempts)
        /\ SameRun(journal, journal)
    BY <1>1 DEF Running, Wellformed, OpenRun, SameRun
  <1>3. source.clock # "expired" <=> source.clock = "session"
    BY <1>1 DEF Proof!Clocks
  <1>4. /\ o.kind \in {"result", "failure"}
        /\ o.kind = "result" => o.code \in {"ready", "blocked", "unavailable", "malformed"}
        /\ o.kind = "failure" => o # [kind |-> "result", code |-> "malformed"]
        /\ o.kind = "result" /\ o.code = "malformed"
              => o = [kind |-> "result", code |-> "malformed"]
    BY <1>2 DEF Proof!Outcomes
  <1>5. CASE o = [kind |-> "result", code |-> "malformed"]
    <2>1. Proof!Settled = Proof!ProjectFailure(journal, "rejected")
      BY <1>5 DEF Proof!Settled
    <2> DEFINE q == Proof!ProjectFailure(journal, "rejected")
    <2>2. /\ SameRun(q, journal) /\ q.controls = journal.controls /\ q.evidence = {}
          /\ q.done <=> q.assertion # "pending"
          /\ q.assertion = "passed" => Proof!MatchesScenario(journal, "rejected")
          /\ q.retry => q.attempt < MaxProofAttempts
          /\ q.code = journal.code
      BY <1>1, <1>2, ProjectFailureFacts DEF SameRun
    <2> HIDE DEF q
    <2>3. q.assertion # "passed"
      BY <2>2 DEF Proof!MatchesScenario
    <2>4. ~(q.scenario \in Proof!External /\ q.code = "ready")
      BY <1>2, <2>2 DEF SameRun
    <2> QED
      BY <2>1, <2>2, <2>3, <2>4 DEF q
  <1>6. CASE o.kind = "result" /\ o.code # "malformed"
    <2>1. Proof!Settled = Proof!ProjectResult(journal, o.code)
      <3>1. o # [kind |-> "result", code |-> "malformed"]
        BY <1>6
      <3> QED
        BY <1>4, <1>6, <3>1 DEF Proof!Settled
    <2> DEFINE q == Proof!ProjectResult(journal, o.code)
    <2>2. /\ SameRun(q, journal) /\ q.controls = journal.controls /\ q.evidence = {}
          /\ q.done <=> q.assertion # "pending"
          /\ q.assertion = "passed" =>
                 /\ source.clock = "session"
                 /\ \/ o.code = "ready" /\ q.scenario = "nominal-completion"
                    \/ o.code = "unavailable" /\ q.scenario = "unavailable-dependency"
          /\ ~q.done => /\ q.retry => q.attempt < MaxProofAttempts
                        /\ q.scenario \in Proof!External /\ q.code = "ready"
                             => /\ q.state = "waiting" /\ o.code = "ready"
                                /\ source.clock = "session"
      BY <1>1, <1>2, <1>3, ProjectResultFacts DEF SameRun
    <2> HIDE DEF q
    <2>3. q.assertion = "passed" => Passes(q)
      BY <1>2, <2>2 DEF Passes, SameRun, Proof!External
    <2> QED
      BY <1>2, <2>1, <2>2, <2>3 DEF SameRun, q
  <1>7. CASE o.kind = "failure" /\ o.code = "confirmed"
    <2>1. Proof!Settled = journal
      BY <1>4, <1>7 DEF Proof!Settled
    <2> QED
      BY <1>1, <1>2, <2>1
  <1>8. CASE o.kind = "failure" /\ o.code # "confirmed"
    <2>1. Proof!Settled = Proof!ProjectFailure(journal, o.code)
      BY <1>4, <1>8 DEF Proof!Settled
    <2> DEFINE q == Proof!ProjectFailure(journal, o.code)
    <2>2. /\ SameRun(q, journal) /\ q.controls = journal.controls /\ q.evidence = {}
          /\ q.done <=> q.assertion # "pending"
          /\ q.assertion = "passed" =>
                 /\ source.clock = "session"
                 /\ Proof!MatchesScenario(journal, o.code)
          /\ q.retry => q.attempt < MaxProofAttempts
          /\ q.code = journal.code
      BY <1>1, <1>2, <1>3, ProjectFailureFacts DEF SameRun
    <2> HIDE DEF q
    <2>3. q.assertion = "passed" => Passes(q)
      BY <1>2, <2>2 DEF Passes, SameRun, Proof!External, Proof!MatchesScenario
    <2> QED
      BY <1>2, <2>1, <2>2, <2>3 DEF SameRun, q
  <1> QED
    BY <1>4, <1>5, <1>6, <1>7, <1>8

(* The activity's outcome is taken in, or the cancel that came with it.    *)
LEMMA OutcomeKeeps ==
    ASSUME ProofInv, Proof!Settle
    PROVE  ProofInv' /\ Proof!PassStep
  <1> DEFINE q == Proof!Settled
             w == [q EXCEPT !.at = "controls"]
  <1>1. /\ journal.at = "activity" /\ journal.outcome # Proof!NoOutcome
        /\ UNCHANGED <<source, call, faults>>
        /\ \/ /\ Proof!CancelsOf(journal) # {}
              /\ journal' = Proof!TakeCancel(q, Proof!Confirmed)
           \/ Proof!CancelsOf(journal) = {} /\ q.done /\ journal' = Proof!Close(q)
           \/ Proof!CancelsOf(journal) = {} /\ ~q.done /\ journal' = w
    BY DEF Proof!Settle
  <1>2. /\ Running(journal) /\ OpenRun(journal) /\ Budget(journal) /\ ~journal.done
        /\ source.clock \in Proof!Clocks /\ source.clock # "early"
        /\ journal.attempt \in Nat /\ journal.attempt <= MaxProofAttempts
        /\ Taken(journal) \in Nat /\ Taken(journal) + 2 <= 2 * journal.attempt
        /\ journal.attempt >= 1
    BY <1>1, RunAtWork DEF OpenRun, Budget
  <1>3. /\ SameRun(q, journal) /\ q.controls = journal.controls /\ q.evidence = {}
        /\ q.done <=> q.assertion # "pending"
        /\ q.assertion = "passed" => source.clock = "session" /\ Passes(q)
        /\ ~q.done => /\ q.retry => q.attempt < MaxProofAttempts
                      /\ q.scenario \in Proof!External /\ q.code = "ready"
                              => q.state = "waiting" /\ q.boundary = "ready"
    BY <1>1, SettledFacts
  <1> HIDE DEF q
  <1>4. /\ Wellformed(q) /\ Controls(q) /\ q.scenario \in Proof!OosScenarios
        /\ Taken(q) = Taken(journal) /\ Proof!CancelsOf(q) = Proof!CancelsOf(journal)
    BY <1>2, <1>3 DEF Running, Wellformed, Controls, SameRun, Taken, Proof!CancelsOf
  <1>5. CASE Proof!CancelsOf(journal) # {} /\ journal' = Proof!TakeCancel(q, Proof!Confirmed)
    <2> DEFINE confirmed == Proof!Confirmed
    <2>1. \A x \in confirmed : /\ x = q.cancelling /\ source.clock # "early"
                               /\ source.clock = "session" => q.boundary = "confirmed"
      BY <1>1, <1>2, <1>3 DEF Proof!Confirmed, SameRun, OpenRun
    <2> HIDE DEF confirmed
    <2>2. GoesTo(Proof!TakeCancel(q, confirmed), q)
      BY <1>2, <1>3, <1>4, <1>5, <2>1, ProofAssumption, CancelCloses
    <2>3. GoesTo(journal', journal)
      BY <1>3, <1>5, <2>2 DEF GoesTo, SameRun, confirmed
    <2> QED
      BY <1>1, <1>2, <2>3, RunGoes
  <1>6. CASE q.done /\ journal' = Proof!Close(q)
    <2>1. /\ DOMAIN q = RunFields /\ q.attempt \in 0..MaxProofAttempts
          /\ IsFiniteSet(q.controls) /\ Taken(q) <= 2 * MaxProofAttempts
          /\ Proof!EvidenceFits(q)
      BY <1>2, <1>3, <1>4, ProofAssumption DEF Wellformed, Proof!EvidenceFits
    <2>2. /\ RunInv(Proof!Close(q)) /\ Proof!Close(q).context = q.context
          /\ Proof!Close(q).at = "closed" /\ Proof!Close(q).assertion = q.assertion
      BY <1>3, <1>4, <1>6, <2>1, CloseFacts
    <2>3. GoesTo(journal', journal)
      BY <1>3, <1>6, <2>2 DEF GoesTo, SameRun
    <2> QED
      BY <1>1, <1>2, <2>3, RunGoes
  <1>7. CASE ~q.done /\ journal' = w
    <2>1. /\ DOMAIN w = RunFields /\ w.at = "controls" /\ w.context = journal.context
          /\ w.attempt = journal.attempt /\ w.controls = journal.controls
          /\ w.pending = journal.pending /\ w.inbox = journal.inbox
          /\ w.outcome = journal.outcome /\ w.scenario = journal.scenario
          /\ w.keys = journal.keys /\ w.boundary = q.boundary /\ w.evidence = {}
          /\ w.done = q.done /\ w.assertion = q.assertion /\ w.retry = q.retry
          /\ w.state = q.state /\ w.code = q.code
      BY <1>3 DEF SameRun, RunFields
    <2> HIDE DEF w
    <2>2. Wellformed(w)
      BY <1>2, <2>1 DEF Running, Wellformed, Proof!OosScenarios, Proof!External
    <2>3. Budget(w)
      BY <1>2, <2>1 DEF Budget, Taken
    <2>4. OpenRun(w)
      BY <1>2, <1>3, <1>4, <1>7, <2>1 DEF OpenRun, Controls, SameRun
    <2>5. GoesTo(journal', journal)
      BY <1>3, <1>7, <2>1, <2>2, <2>3, <2>4 DEF GoesTo, RunInv
    <2> QED
      BY <1>1, <1>2, <2>5, RunGoes
  <1> QED
    BY <1>1, <1>5, <1>6, <1>7

(* The wait for a control ends with the authorization.                     *)
LEMMA AuthorizationKeeps ==
    ASSUME ProofInv, Proof!AuthorizationEnds
    PROVE  ProofInv' /\ Proof!PassStep
  <1>1. /\ journal.at = "controls" /\ UNCHANGED <<source, call, faults>>
        /\ journal' = Proof!Close(Proof!ProjectFailure(journal, "authorization"))
    BY DEF Proof!AuthorizationEnds
  <1>2. /\ Running(journal) /\ ~journal.done /\ Taken(journal) <= 2 * MaxProofAttempts
    BY <1>1, RunAtWork, ProofAssumption DEF Budget
  <1> QED
    BY <1>1, <1>2, FailureCloses, RunGoes

(* The next control is taken from those that wait, and recorded.           *)
LEMMA NextControl ==
    ASSUME ProofInv, journal.at = "controls", journal.pending # << >>
    PROVE  LET c == Head(journal.pending)
               p == [journal EXCEPT !.pending = Tail(@)]
               q == Proof!RecordControl(p, c)
           IN
           /\ c \in Signals /\ GoesTo(p, journal)
           /\ c.action = "signal" =>
                 journal.scenario \in Proof!External /\ c.kind = journal.scenario
           /\ DOMAIN p = RunFields /\ Running(p) /\ p.context = journal.context
           /\ p.scenario = journal.scenario /\ p.controls = journal.controls
           /\ p.boundary = journal.boundary
           /\ Running(q) /\ q.at = "controls" /\ q.context = journal.context
           /\ q.attempt = journal.attempt /\ q.scenario = journal.scenario
           /\ q.code = journal.code /\ q.state = journal.state
           /\ q.boundary = journal.boundary
           /\ Taken(q) \in Nat /\ Taken(q) <= Taken(journal) + 1
  <1> DEFINE c == Head(journal.pending)
             p == [journal EXCEPT !.pending = Tail(@)]
             q == Proof!RecordControl(p, c)
  <1>1. /\ Running(journal) /\ OpenRun(journal) /\ Budget(journal) /\ Wellformed(journal)
        /\ Controls(journal) /\ DOMAIN journal = RunFields
        /\ journal.pending \in Seq(Signals) /\ Taken(journal) \in Nat
    BY RunAtWork DEF Running, Wellformed
  <1>2. /\ DOMAIN p = RunFields /\ p.at = "controls" /\ p.context = journal.context
        /\ p.attempt = journal.attempt /\ p.controls = journal.controls
        /\ p.pending = Tail(journal.pending) /\ p.inbox = journal.inbox
        /\ p.outcome = journal.outcome /\ p.scenario = journal.scenario
        /\ p.keys = journal.keys /\ p.boundary = journal.boundary
        /\ p.evidence = journal.evidence /\ p.done = journal.done
        /\ p.assertion = journal.assertion /\ p.retry = journal.retry
        /\ p.state = journal.state /\ p.code = journal.code
    BY <1>1 DEF RunFields
  <1>3. /\ c \in Signals /\ Tail(journal.pending) \in Seq(Signals)
        /\ c = journal.pending[1] /\ 1 \in DOMAIN journal.pending
        /\ \A i \in DOMAIN Tail(journal.pending) :
              /\ i \in Nat /\ i + 1 \in DOMAIN journal.pending /\ i + 1 # 1
              /\ Tail(journal.pending)[i] = journal.pending[i + 1]
    BY <1>1
  <1> HIDE DEF c, p
  <1>4. /\ \A e \in journal.controls : e.id # c.id
        /\ c.id \in journal.keys
        /\ c.action = "signal" =>
              journal.scenario \in Proof!External /\ c.kind = journal.scenario
    BY <1>1, <1>3 DEF Controls
  <1>5. /\ Controls(p)
        /\ \A i \in DOMAIN p.pending : p.pending[i].id # c.id
    <2>1. ASSUME NEW i \in DOMAIN p.pending
          PROVE  /\ p.pending[i] = journal.pending[i + 1]
                 /\ i + 1 \in DOMAIN journal.pending /\ i + 1 # 1 /\ i \in Nat
      BY <1>2, <1>3
    <2>2. \A i \in DOMAIN p.pending : p.pending[i].id # c.id
      BY <1>1, <1>3, <2>1 DEF Controls
    <2>3. ASSUME NEW i \in DOMAIN p.pending
          PROVE  /\ p.pending[i].id \in p.keys
                 /\ p.pending[i].action = "signal" =>
                       p.scenario \in Proof!External /\ p.pending[i].kind = p.scenario
                 /\ \A e \in p.controls : e.id # p.pending[i].id
      BY <1>1, <1>2, <2>1 DEF Controls
    <2>4. ASSUME NEW i \in DOMAIN p.pending, NEW j \in DOMAIN p.pending,
                 \/ p.pending[i].id = p.pending[j].id
                 \/ p.pending[i].action = "cancel" /\ p.pending[j].action = "cancel"
          PROVE  i = j
      <3>1. i + 1 = j + 1
        BY <1>1, <2>1, <2>4 DEF Controls
      <3> QED
        BY <2>1, <3>1
    <2> QED
      BY <1>1, <1>2, <2>2, <2>3, <2>4 DEF Controls
  <1>6. Wellformed(p)
    BY <1>1, <1>2, <1>3 DEF Wellformed
  <1>7. Running(p) /\ GoesTo(p, journal)
    <2>1. Running(p)
      BY <1>1, <1>2, <1>5, <1>6 DEF Running
    <2>2. Budget(p)
      BY <1>1, <1>2 DEF Budget, Taken
    <2>3. OpenRun(p)
      BY <1>1, <1>2, <1>5 DEF OpenRun
    <2> QED
      BY <1>2, <1>6, <2>1, <2>2, <2>3 DEF GoesTo, RunInv, OpenRun
  <1>8. /\ SameRun(q, p) /\ q.evidence = p.evidence /\ q.code = p.code
        /\ q.done = p.done /\ q.assertion = p.assertion /\ q.state = p.state
        /\ q.retry = p.retry
        /\ IsFiniteSet(q.controls) /\ Taken(q) \in Nat
        /\ q.controls \subseteq p.controls \cup {c} /\ Taken(q) <= Taken(p) + 1
    BY <1>6, RecordControlFacts DEF Wellformed
  <1> HIDE DEF q
  <1>9. Controls(q)
    BY <1>2, <1>4, <1>5, <1>8 DEF Controls, SameRun
  <1>10. Running(q)
    BY <1>6, <1>7, <1>8, <1>9 DEF Running, Wellformed, SameRun
  <1>11. Taken(p) = Taken(journal)
    BY <1>2 DEF Taken
  <1> QED
    BY <1>2, <1>3, <1>4, <1>7, <1>8, <1>10, <1>11 DEF SameRun, c, p, q

(* A control is taken.                                                     *)
LEMMA ControlKeeps ==
    ASSUME ProofInv, Proof!TakeControl
    PROVE  ProofInv' /\ Proof!PassStep
  <1> DEFINE c == Head(journal.pending)
             p == [journal EXCEPT !.pending = Tail(@)]
             q == Proof!RecordControl(p, c)
             e == [q EXCEPT !.evidence = {c}]
             z == Proof!CompleteScenario(e)
             x == Proof!CancelProof(q, FALSE)
             w == Proof!DeferProof(q)
             available == c.action \in Proof!Available(journal)
  <1>1. /\ journal.at = "controls" /\ journal.pending # << >>
        /\ UNCHANGED <<source, call, faults>>
    BY DEF Proof!TakeControl
  <1>2. \/ ~available /\ journal' = p
        \/ available /\ c.action = "signal" /\ journal' = Proof!Close(Proof!ProjectEvidence(p, c))
        \/ available /\ c.action = "cancel" /\ journal' = Proof!Close(x)
        \/ available /\ c.action = "defer" /\ journal' = w
        \/ available /\ c.action \in {"resume", "retry"} /\ journal' = Proof!LoopHead(q)
    <2>1. available => c.action \in {"retry", "resume", "signal", "cancel", "defer"}
      BY DEF Proof!Available
    <2> QED
      BY <2>1 DEF Proof!TakeControl
  <1>3. /\ Running(journal) /\ OpenRun(journal) /\ Budget(journal) /\ ~journal.done
        /\ source.clock \in Proof!Clocks /\ source.clock # "early"
        /\ journal.attempt \in Nat /\ journal.attempt <= MaxProofAttempts
        /\ Taken(journal) \in Nat /\ Taken(journal) + 1 <= 2 * journal.attempt
        /\ journal.state # "waiting" => Taken(journal) + 2 <= 2 * journal.attempt
    BY <1>1, RunAtWork DEF OpenRun, Budget
  <1>4. available =>
           /\ c.action = "signal" => journal.code = "ready"
           /\ c.action = "defer" => journal.state \in {"blocked", "failed"}
           /\ c.action = "retry" => journal.state = "failed"
           /\ c.action = "resume" => journal.attempt < MaxProofAttempts
           /\ c.action \in {"resume", "retry"} =>
                 ~(journal.scenario \in Proof!External /\ journal.code = "ready")
    BY <1>3 DEF Proof!Available, Proof!Awaiting, OpenRun
  <1>5. /\ c \in Signals /\ GoesTo(p, journal)
        /\ c.action = "signal" =>
              journal.scenario \in Proof!External /\ c.kind = journal.scenario
        /\ DOMAIN p = RunFields /\ Running(p) /\ p.context = journal.context
        /\ p.scenario = journal.scenario /\ p.controls = journal.controls
        /\ p.boundary = journal.boundary
        /\ Running(q) /\ q.at = "controls" /\ q.context = journal.context
        /\ q.attempt = journal.attempt /\ q.scenario = journal.scenario
        /\ q.code = journal.code /\ q.state = journal.state
        /\ q.boundary = journal.boundary
        /\ Taken(q) \in Nat /\ Taken(q) <= Taken(journal) + 1
    BY <1>1, NextControl
  <1> HIDE DEF c, p, q, available
  <1>6. Proof!ProjectEvidence(p, c) =
           IF source.clock = "expired" THEN Proof!ProjectFailure(p, "authorization") ELSE z
    BY DEF Proof!ProjectEvidence, Proof!Expired, q
  <1>7. /\ DOMAIN q = RunFields /\ q.attempt \in 0..MaxProofAttempts /\ IsFiniteSet(q.controls)
        /\ q.scenario \in Proof!OosScenarios /\ q.evidence = {}
        /\ Taken(q) <= 2 * MaxProofAttempts
    BY <1>3, <1>5, ProofAssumption DEF Running, Wellformed
  <1>8. CASE ~available /\ journal' = p
    BY <1>1, <1>3, <1>5, <1>8, RunGoes
  <1>9. CASE available /\ c.action = "signal" /\ journal' = Proof!Close(Proof!ProjectEvidence(p, c))
    <2>1. CASE source.clock = "expired"
      <3>1. Taken(p) <= 2 * MaxProofAttempts
        BY <1>3, <1>5, ProofAssumption DEF Taken
      <3>2. GoesTo(Proof!Close(Proof!ProjectFailure(p, "authorization")), p)
        BY <1>5, <3>1, FailureCloses
      <3>3. GoesTo(journal', journal)
        BY <1>5, <1>6, <1>9, <2>1, <3>2 DEF GoesTo
      <3> QED
        BY <1>1, <1>3, <3>3, RunGoes
    <2>2. CASE source.clock # "expired"
      <3>1. /\ DOMAIN z = RunFields /\ z.controls = q.controls /\ z.evidence = {c}
            /\ z.done /\ z.assertion = "passed" /\ z.context = q.context
            /\ z.attempt = q.attempt /\ z.scenario = q.scenario /\ z.boundary = q.boundary
        BY <1>7 DEF Proof!CompleteScenario, RunFields
      <3> HIDE DEF z
      <3>2. Passes(z) /\ Proof!EvidenceFits(z)
        BY <1>3, <1>4, <1>5, <1>9, <3>1 DEF Passes, Proof!EvidenceFits, OpenRun, Proof!External
      <3>3. /\ RunInv(Proof!Close(z)) /\ Proof!Close(z).context = z.context
            /\ Proof!Close(z).at = "closed" /\ Proof!Close(z).assertion = z.assertion
        BY <1>7, <3>1, <3>2, CloseFacts DEF Taken
      <3>4. GoesTo(journal', journal)
        BY <1>3, <1>5, <1>6, <1>9, <2>2, <3>1, <3>3 DEF GoesTo, Proof!Clocks
      <3> QED
        BY <1>1, <1>3, <3>4, RunGoes
    <2> QED
      BY <2>1, <2>2
  <1>10. CASE available /\ c.action = "cancel" /\ journal' = Proof!Close(x)
    <2>1. /\ DOMAIN x = RunFields /\ x.controls = q.controls /\ x.evidence = q.evidence
          /\ x.done /\ x.assertion = "failed" /\ x.context = q.context
          /\ x.attempt = q.attempt /\ x.scenario = q.scenario
      BY <1>7 DEF Proof!CancelProof, RunFields
    <2> HIDE DEF x
    <2>2. Proof!EvidenceFits(x)
      BY <1>7, <2>1 DEF Proof!EvidenceFits
    <2>3. /\ RunInv(Proof!Close(x)) /\ Proof!Close(x).context = x.context
          /\ Proof!Close(x).at = "closed" /\ Proof!Close(x).assertion = x.assertion
      BY <1>7, <2>1, <2>2, CloseFacts DEF Taken
    <2>4. GoesTo(journal', journal)
      BY <1>5, <1>10, <2>1, <2>3 DEF GoesTo
    <2> QED
      BY <1>1, <1>3, <2>4, RunGoes
  <1>11. CASE available /\ c.action = "defer" /\ journal' = w
    <2>1. /\ DOMAIN w = RunFields /\ w.at = "controls" /\ w.context = q.context
          /\ w.attempt = q.attempt /\ w.controls = q.controls /\ w.pending = q.pending
          /\ w.inbox = q.inbox /\ w.outcome = q.outcome /\ w.scenario = q.scenario
          /\ w.keys = q.keys /\ w.boundary = q.boundary /\ w.evidence = q.evidence
          /\ w.done = q.done /\ w.assertion = q.assertion /\ w.retry = q.retry
          /\ w.state = "waiting" /\ w.code = q.code
      BY <1>5, <1>7 DEF Proof!DeferProof, RunFields
    <2> HIDE DEF w
    <2>2. Wellformed(w) /\ Controls(w)
      BY <1>5, <2>1 DEF Running, Wellformed, Controls
    <2>3. Budget(w)
      BY <1>3, <1>4, <1>5, <1>11, <2>1 DEF Budget, Taken
    <2>4. OpenRun(w)
      BY <1>3, <1>4, <1>5, <1>11, <2>1, <2>2 DEF OpenRun, Running
    <2>5. GoesTo(journal', journal)
      BY <1>5, <1>11, <2>1, <2>2, <2>3, <2>4 DEF GoesTo, RunInv, OpenRun
    <2> QED
      BY <1>1, <1>3, <2>5, RunGoes
  <1>12. CASE available /\ c.action \in {"resume", "retry"} /\ journal' = Proof!LoopHead(q)
    <2>1. /\ Taken(q) <= 2 * q.attempt /\ Taken(q) + 1 <= 2 * MaxProofAttempts
      BY <1>3, <1>4, <1>5, <1>12, ProofAssumption
    <2>2. GoesTo(Proof!LoopHead(q), q)
      BY <1>3, <1>4, <1>5, <1>12, <2>1, LoopKeeps
    <2>3. GoesTo(journal', journal)
      BY <1>5, <1>12, <2>2 DEF GoesTo
    <2> QED
      BY <1>1, <1>3, <2>3, RunGoes
  <1> QED
    BY <1>2, <1>8, <1>9, <1>10, <1>11, <1>12

(* A step that leaves the run alone, and what the callers wait for.        *)
LEMMA RunStays ==
    ASSUME ProofInv, journal' = journal,
           DOMAIN source' = DOMAIN source, source'.clock \in Proof!Clocks,
           \/ source'.clock = source.clock
           \/ source.clock = "early" /\ source'.clock = "session"
           \/ source.clock = "session" /\ source'.clock = "expired",
           DOMAIN call' = Calls, \A o \in Calls : Waits(o)',
           \A r \in faults' :
              \/ r \in faults
              \/ journal.done /\ r = Proof!Receipt /\ Proof!Retained
    PROVE  ProofInv' /\ Proof!PassStep
  <1>1. RunInv(journal)'
    <2>1. Wellformed(journal)' /\ Budget(journal)'
      BY DEF ProofInv, RunInv, Wellformed, Budget, Taken, Proof!NoOutcome, Proof!None,
             Proof!Outcomes, Proof!OosScenarios, Proof!External, RunFields
    <2>2. journal'.at = "closed" => ClosedRun(journal)'
      BY DEF ProofInv, RunInv, ClosedRun, Passes, Proof!EvidenceFits, Proof!External
    <2>3. journal'.at # "closed" => OpenRun(journal)'
      BY DEF ProofInv, RunInv, OpenRun, Controls, Proof!External, Proof!NoOutcome, Proof!None
    <2>4. (journal.at = "none" => journal = Proof!NoRun)'
      BY DEF ProofInv, RunInv, Proof!NoRun, Proof!NoOutcome, Proof!None
    <2> QED
      BY <2>1, <2>2, <2>3, <2>4 DEF RunInv
  <1>2. Proof!ReceiptIsTheRuns'
    BY DEF ProofInv, Proof!ReceiptIsTheRuns, Proof!Receipt, Proof!ReceiptEvidence,
           Proof!OwnerResult, Proof!Retained, Proof!Binds
  <1>3. Proof!PassStep
    BY DEF Proof!PassStep
  <1> QED
    BY <1>1, <1>2, <1>3 DEF ProofInv

(* What a caller waits for, when the run and the mounted context stay.     *)
LEMMA WaitsOn ==
    ASSUME ProofInv, journal' = journal, source'.mounted = source.mounted, call' = call
    PROVE  DOMAIN call' = Calls /\ \A o \in Calls : Waits(o)'
  BY DEF ProofInv, Waits, Proof!NoRun, Proof!NoOutcome, Proof!None

(* Time passes, contexts are mounted, workers come and go.                 *)
LEMMA EnvironmentKeeps ==
    ASSUME ProofInv,
           Proof!Tick \/ Proof!Mount \/ Proof!WorkerStarts \/ Proof!WorkerStops
    PROVE  ProofInv' /\ Proof!PassStep
  <1>0. DOMAIN source = {"clock", "mounted", "worker", "mounts"} /\ source.clock \in Proof!Clocks
    BY DEF ProofInv
  <1>1. CASE Proof!Tick
    <2>1. /\ journal' = journal /\ call' = call /\ faults' = faults
          /\ DOMAIN source' = DOMAIN source /\ source'.mounted = source.mounted
          /\ source'.clock = IF source.clock = "early" THEN "session" ELSE "expired"
          /\ source.clock # "expired"
      BY <1>0, <1>1 DEF Proof!Tick
    <2> QED
      BY <1>0, <2>1, WaitsOn, RunStays DEF Proof!Clocks
  <1>2. CASE Proof!Mount
    <2>1. /\ journal' = journal /\ call' = [o \in Calls |-> Proof!NoCall] /\ faults' = faults
          /\ DOMAIN source' = DOMAIN source /\ source'.clock = source.clock
      BY <1>0, <1>2 DEF Proof!Mount
    <2>2. \A o \in Calls : Waits(o)'
      BY <2>1 DEF Waits, Proof!NoCall
    <2> QED
      BY <1>0, <2>1, <2>2, RunStays
  <1>3. CASE Proof!WorkerStarts \/ Proof!WorkerStops
    <2>1. /\ journal' = journal /\ call' = call /\ faults' = faults
          /\ DOMAIN source' = DOMAIN source /\ source'.mounted = source.mounted
          /\ source'.clock = source.clock
      BY <1>0, <1>3 DEF Proof!WorkerStarts, Proof!WorkerStops
    <2> QED
      BY <1>0, <2>1, WaitsOn, RunStays
  <1> QED
    BY <1>1, <1>2, <1>3

(* A run is started, or read.                                              *)
LEMMA StartRunKeeps ==
    ASSUME ProofInv, NEW o \in Calls, Proof!Start(o)
    PROVE  ProofInv' /\ Proof!PassStep
  <1>1. source' = source /\ call' = call /\ source.clock \in Proof!Clocks
    BY DEF Proof!Start, ProofInv
  <1>2. CASE /\ journal = Proof!NoRun /\ faults' = faults
             /\ \E s \in Scenarios \cap Proof!OosScenarios :
                   journal' = Proof!CreateProjection(source.mounted, s)
    <2>1. PICK s \in Proof!OosScenarios : journal' = Proof!CreateProjection(source.mounted, s)
      BY <1>2
    <2>2. /\ DOMAIN journal' = RunFields /\ journal'.at = "start" /\ journal'.scenario = s
          /\ journal'.attempt = 0 /\ journal'.controls = {} /\ journal'.pending = << >>
          /\ journal'.inbox = << >> /\ journal'.outcome = Proof!NoOutcome
          /\ ~journal'.done /\ journal'.assertion = "pending" /\ journal'.evidence = {}
          /\ ~journal'.retry /\ journal'.code = "none"
      BY <2>1 DEF Proof!CreateProjection, Proof!NoRun, Proof!None, RunFields
    <2>3. ~journal.done /\ journal.at = "none" /\ journal.assertion = "pending"
      BY <1>2 DEF Proof!NoRun, Proof!None
    <2>4. Wellformed(journal')
      <3>1. IsFiniteSet(journal'.controls)
        BY <2>2, FS_EmptySet
      <3>2. s # "none"
        BY DEF Proof!OosScenarios, Proof!External
      <3> QED
        BY <2>2, <3>1, <3>2, ProofAssumption DEF Wellformed
    <2>5. Budget(journal')
      BY <2>2, FS_EmptySet DEF Budget, Taken
    <2>6. OpenRun(journal')
      BY <2>2 DEF OpenRun, Controls
    <2>7. RunInv(journal')
      BY <2>2, <2>4, <2>5, <2>6 DEF RunInv
    <2>8. RunInv(journal)'
      <3>1. Wellformed(journal)'
        BY <2>4 DEF Wellformed, Proof!NoOutcome, Proof!None, Proof!Outcomes,
                    Proof!OosScenarios, Proof!External, RunFields
      <3>2. Budget(journal)'
        BY <2>5 DEF Budget, Taken
      <3>3. OpenRun(journal)'
        BY <1>1, <2>6 DEF OpenRun, Controls, Proof!External, Proof!NoOutcome, Proof!None
      <3> QED
        BY <2>2, <3>1, <3>2, <3>3 DEF RunInv
    <2>9. faults' = {}
      BY <1>2, <2>3 DEF ProofInv, Proof!ReceiptIsTheRuns
    <2>10. \A x \in Calls : Waits(x)'
      BY <1>1, <1>2 DEF ProofInv, Waits
    <2> QED
      BY <1>1, <2>2, <2>3, <2>8, <2>9, <2>10
         DEF ProofInv, Proof!ReceiptIsTheRuns, Proof!PassStep, Proof!Clocks
  <1>3. CASE Proof!Retained /\ Proof!HandsOut /\ journal' = journal
    BY <1>1, <1>3, WaitsOn, RunStays DEF Proof!HandsOut, Proof!TerminalResult
  <1> QED
    BY <1>2, <1>3 DEF Proof!Start, Proof!StartsOrReads

(* A call reads the run, sends a control, and answers from what it reads.  *)
LEMMA CallerKeeps ==
    ASSUME ProofInv, NEW o \in Calls,
           \/ Proof!Get(o) \/ Proof!CheckControl(o) \/ Proof!SignalControl(o)
           \/ Proof!AnswerControl(o)
    PROVE  ProofInv' /\ Proof!PassStep
  <1>0. /\ source' = source /\ source.clock \in Proof!Clocks /\ DOMAIN call = Calls
        /\ \A x \in Calls : Waits(x)
    BY DEF ProofInv, Proof!Get, Proof!CheckControl, Proof!SignalControl, Proof!AnswerControl
  <1>1. CASE Proof!Get(o)
    BY <1>0, <1>1, WaitsOn, RunStays DEF Proof!Get, Proof!HandsOut, Proof!TerminalResult
  <1>2. CASE Proof!CheckControl(o)
    <2>1. PICK c \in Signals : /\ journal # Proof!NoRun /\ journal.context = source.mounted
                               /\ call' = [call EXCEPT ![o] = [at |-> "checked", control |-> {c}]]
      BY <1>2 DEF Proof!CheckControl, Proof!Retained, Proof!Binds
    <2>2. journal' = journal /\ faults' = faults
      BY <1>2 DEF Proof!CheckControl
    <2>3. /\ DOMAIN call' = Calls /\ call'[o] = [at |-> "checked", control |-> {c}]
          /\ \A x \in Calls \ {o} : call'[x] = call[x]
      BY <1>0, <2>1
    <2>4. \A x \in Calls : Waits(x)'
      BY <1>0, <2>1, <2>2, <2>3 DEF Waits, Proof!NoRun, Proof!NoOutcome, Proof!None
    <2> QED
      BY <1>0, <2>2, <2>3, <2>4, RunStays
  <1>3. CASE Proof!SignalControl(o)
    <2>1. /\ call[o].at = "checked" /\ faults' = faults
          /\ call' = [call EXCEPT ![o].at = "signalled"]
      BY <1>3 DEF Proof!SignalControl
    <2>2. PICK c \in call[o].control :
             journal' = IF journal.at = "closed" THEN journal
                        ELSE [journal EXCEPT !.inbox = Append(@, c)]
      BY <1>3 DEF Proof!SignalControl
    <2>3. /\ c \in Signals /\ journal # Proof!NoRun /\ journal.context = source.mounted
      BY <1>0, <2>1 DEF Waits
    <2>4. /\ DOMAIN call' = Calls /\ DOMAIN call'[o] = {"at", "control"}
          /\ call'[o].control = call[o].control
          /\ \A x \in Calls \ {o} : call'[x] = call[x]
      BY <1>0, <2>1 DEF Waits
    <2>5. CASE journal.at = "closed"
      <3>1. journal' = journal
        BY <2>2, <2>5
      <3>2. \A x \in Calls : Waits(x)'
        BY <1>0, <2>3, <2>4, <3>1 DEF Waits, Proof!NoRun, Proof!NoOutcome, Proof!None
      <3> QED
        BY <1>0, <2>1, <2>4, <3>1, <3>2, RunStays
    <2>6. CASE journal.at # "closed"
      <3>1. /\ RunInv(journal) /\ Wellformed(journal) /\ Budget(journal) /\ OpenRun(journal)
            /\ journal.at # "none" /\ ~journal.done
        BY <2>3, <2>6 DEF ProofInv, RunInv, OpenRun
      <3>2. /\ DOMAIN journal' = RunFields /\ journal'.inbox = Append(journal.inbox, c)
            /\ journal'.at = journal.at /\ journal'.context = journal.context
            /\ journal'.assertion = journal.assertion /\ journal'.done = journal.done
            /\ journal'.attempt = journal.attempt /\ journal'.controls = journal.controls
            /\ journal'.evidence = journal.evidence /\ journal'.outcome = journal.outcome
            /\ journal'.scenario = journal.scenario /\ journal'.retry = journal.retry
            /\ journal'.state = journal.state /\ journal'.code = journal.code
            /\ journal'.boundary = journal.boundary /\ journal'.pending = journal.pending
            /\ journal'.keys = journal.keys
        BY <2>2, <2>6, <3>1 DEF Wellformed, RunFields
      <3>3. Append(journal.inbox, c) \in Seq(Signals)
        BY <2>3, <3>1 DEF Wellformed
      <3>4. Wellformed(journal')
        BY <3>1, <3>2, <3>3 DEF Wellformed
      <3>5. Budget(journal')
        BY <3>1, <3>2 DEF Budget, Taken
      <3>6. OpenRun(journal')
        BY <3>1, <3>2 DEF OpenRun, Controls
      <3>7. RunInv(journal)'
        <4>1. Wellformed(journal)'
          BY <3>4 DEF Wellformed, Proof!NoOutcome, Proof!None, Proof!Outcomes,
                      Proof!OosScenarios, Proof!External, RunFields
        <4>2. Budget(journal)'
          BY <3>5 DEF Budget, Taken
        <4>3. OpenRun(journal)'
          BY <1>0, <3>6 DEF OpenRun, Controls, Proof!External, Proof!NoOutcome, Proof!None
        <4> QED
          BY <2>6, <3>1, <3>2, <4>1, <4>2, <4>3 DEF RunInv
      <3>8. faults' = {}
        BY <2>1, <3>1 DEF ProofInv, Proof!ReceiptIsTheRuns
      <3>9. journal' # Proof!NoRun
        BY <3>1, <3>2 DEF Proof!NoRun, Proof!None
      <3>10. \A x \in Calls : Waits(x)'
        BY <1>0, <2>3, <2>4, <3>2, <3>9 DEF Waits, Proof!NoRun, Proof!NoOutcome, Proof!None
      <3> QED
        BY <1>0, <2>4, <3>1, <3>2, <3>7, <3>8, <3>10
           DEF ProofInv, Proof!ReceiptIsTheRuns, Proof!PassStep, Proof!Clocks, OpenRun
    <2> QED
      BY <2>5, <2>6
  <1>4. CASE Proof!AnswerControl(o)
    <2>1. /\ journal' = journal /\ journal # Proof!NoRun /\ journal.context = source.mounted
          /\ call' = [call EXCEPT ![o] = [Proof!NoCall EXCEPT !.at = "answered"]]
          /\ Proof!HandsOut \/ faults' = faults
      BY <1>0, <1>4 DEF Proof!AnswerControl, Waits
    <2>2. /\ DOMAIN call' = Calls /\ DOMAIN call'[o] = {"at", "control"}
          /\ call'[o].control = {} /\ call'[o].at = "answered"
          /\ \A x \in Calls \ {o} : call'[x] = call[x]
      BY <1>0, <2>1 DEF Proof!NoCall
    <2>3. \A x \in Calls : Waits(x)'
      BY <1>0, <2>1, <2>2 DEF Waits, Proof!NoRun, Proof!NoOutcome, Proof!None
    <2> QED
      BY <1>0, <2>1, <2>2, <2>3, RunStays
         DEF Proof!HandsOut, Proof!TerminalResult, Proof!Retained, Proof!Binds
  <1> QED
    BY <1>1, <1>2, <1>3, <1>4

(* The invariant holds at first, and every step keeps it.                  *)
LEMMA ProofInit ==
    ASSUME Proof!Init
    PROVE  ProofInv
  <1>1. /\ DOMAIN source = {"clock", "mounted", "worker", "mounts"}
        /\ source.clock = "early" /\ journal = Proof!NoRun /\ faults = {}
        /\ call = [o \in Calls |-> Proof!NoCall]
    BY DEF Proof!Init
  <1>2. IsFiniteSet({}) /\ Cardinality({}) = 0
    BY FS_EmptySet
  <1>3. Wellformed(journal)
    BY <1>1, <1>2, ProofAssumption DEF Wellformed, RunFields, Proof!NoRun, Proof!None
  <1>4. Budget(journal)
    BY <1>1, <1>2 DEF Budget, Taken, Proof!NoRun, Proof!None
  <1>5. OpenRun(journal)
    BY <1>1 DEF OpenRun, Controls, Proof!NoRun, Proof!None
  <1>6. journal.at = "none"
    BY <1>1 DEF Proof!NoRun, Proof!None
  <1>7. RunInv(journal)
    BY <1>1, <1>3, <1>4, <1>5, <1>6 DEF RunInv
  <1> QED
    BY <1>1, <1>7 DEF ProofInv, Waits, Proof!NoCall, Proof!ReceiptIsTheRuns, Proof!Clocks

(* Every action of a controlled proof keeps its invariant, passes a run    *)
(* only in session and leaves a run alone that is done.                    *)
LEMMA ProofNext ==
    ASSUME ProofInv, Proof!Next
    PROVE  ProofInv' /\ Proof!PassStep
  <1>1. CASE Proof!WorkflowTask
    BY <1>1, FirstActivationKeeps, SignalKeeps, OutcomeKeeps, ControlKeeps, AuthorizationKeeps
       DEF Proof!WorkflowTask
  <1>2. CASE Proof!ActivityReturns
    BY <1>2, ActivityKeeps
  <1>3. CASE Proof!Tick \/ Proof!Mount \/ Proof!WorkerStarts \/ Proof!WorkerStops
    BY <1>3, EnvironmentKeeps
  <1>4. ASSUME NEW o \in Calls,
               \/ Proof!Start(o) \/ Proof!Get(o) \/ Proof!CheckControl(o)
               \/ Proof!SignalControl(o) \/ Proof!AnswerControl(o)
        PROVE  ProofInv' /\ Proof!PassStep
    BY <1>4, StartRunKeeps, CallerKeeps
  <1> QED
    BY <1>1, <1>2, <1>3, <1>4 DEF Proof!Next

(* What it says of the receipts and of what passed.                        *)
LEMMA ProofEnd ==
    ASSUME ProofInv
    PROVE  Proof!ProjectionAccepted /\ Proof!PassedIsObserved /\ Proof!ReceiptIsTheRuns
  <1>1. RunInv(journal) /\ Wellformed(journal) /\ IsFiniteSet(journal.controls)
    BY DEF ProofInv, RunInv, Wellformed
  <1>2. Taken(journal) \in Nat /\ journal.attempt \in Nat /\ journal.attempt <= MaxProofAttempts
    BY <1>1, FS_CardinalityType, ProofAssumption DEF Wellformed, Taken
  <1>3. Cardinality(journal.controls) <= 16
    <2>1. journal.at \in {"none", "start", "activity", "controls", "closed"} /\ Budget(journal)
      BY <1>1 DEF RunInv, Wellformed
    <2>2. Taken(journal) <= 2 * MaxProofAttempts
      <3>1. CASE journal.at \in {"none", "start"}
        BY <2>1, <3>1, ProofAssumption DEF Budget
      <3>2. CASE journal.at \in {"activity", "controls"}
        <4>1. Taken(journal) + 1 <= 2 * journal.attempt
          BY <1>2, <2>1, <3>2 DEF Budget
        <4> QED
          BY <1>2, <4>1, ProofAssumption
      <3>3. CASE journal.at = "closed"
        BY <2>1, <3>3 DEF Budget
      <3> QED
        BY <2>1, <3>1, <3>2, <3>3
    <2> QED
      BY <1>2, <2>2, ProofAssumption DEF Taken
  <1>4. /\ journal.done <=> journal.assertion # "pending"
        /\ Proof!EvidenceFits(journal)
    BY <1>1 DEF RunInv, OpenRun, ClosedRun, Proof!EvidenceFits
  <1>5. Proof!ProjectionAccepted
    <2>1. Proof!Cardinality(journal.controls) = Cardinality(journal.controls)
      BY DEF Proof!Cardinality, Cardinality
    <2> QED
      BY <1>3, <1>4, <2>1 DEF Proof!ProjectionAccepted, Proof!Accepted
  <1>6. Proof!PassedIsObserved
    <2>1. ASSUME journal.assertion = "passed"
          PROVE  /\ Passes(journal) /\ journal.scenario \in Proof!OosScenarios
      BY <1>1, <2>1 DEF RunInv, OpenRun, ClosedRun, Wellformed, Proof!NoRun
    <2> QED
      BY <2>1 DEF Proof!PassedIsObserved, Passes, Proof!Boundary, Proof!OosScenarios,
                  Proof!External
  <1> QED
    BY <1>5, <1>6 DEF ProofInv

-----------------------------------------------------------------------------
(* The owners together: each kind keeps its own invariant.                 *)

(* Nothing of a credential is left where none was issued.                  *)
LEMMA CredentialEnd == CredentialInv => Credential!UnissuedHasNoCredential
  BY DEF CredentialInv, Credential!UnissuedHasNoCredential, Credential!Prep, Credential!None

(* Every step of a lifecycle.                                              *)
LEMMA LifecycleStep ==
    ASSUME kind = "lifecycle", LifecycleInv, [MCNext]_MCVars
    PROVE  LifecycleInv'
  <1>1. CASE UNCHANGED MCVars
    <2>1. UNCHANGED <<source, journal, lock, call, faults>>
      BY <1>1 DEF MCVars, ownerVars
    <2>2. LifecycleTypes'
      BY <2>1 DEF LifecycleInv, LifecycleTypes
    <2>3. \A r \in Changes : LifecycleRequest(r)'
      BY <2>1 DEF LifecycleInv, LifecycleRequest, IsState, Success, Known, StateFields
    <2>4. Lifecycle!Baseline' = Lifecycle!Baseline
      BY <2>1 DEF Lifecycle!Baseline, Lifecycle!Known, Lifecycle!Request, Lifecycle!Mine
    <2>5. After(Lifecycle!Baseline) => After(Lifecycle!Baseline)'
      BY <2>1, <2>4 DEF After, IsState, StateFields
    <2>6. LifecycleCall'
      BY <2>1, <2>4, <2>5 DEF LifecycleInv, LifecycleCall, Applies, Known
    <2>7. LifecycleHistory'
      BY <2>1 DEF LifecycleInv, LifecycleHistory, IsState, Success, CustodySuccess,
                  LastChange, Known, StateFields
    <2> QED
      BY <2>2, <2>3, <2>6, <2>7 DEF LifecycleInv
  <1> QED
    BY <1>1, LifecycleNext DEF MCNext, Reviews

(* Every step of a controlled proof.                                       *)
LEMMA ProofStep ==
    ASSUME kind = "proof", ProofInv, [MCNext]_MCVars
    PROVE  ProofInv' /\ Proof!PassStep
  <1>1. CASE UNCHANGED MCVars
    <2>1. UNCHANGED <<source, journal, lock, call, faults>>
      BY <1>1 DEF MCVars, ownerVars
    <2>2. DOMAIN source' = DOMAIN source /\ source'.clock \in Proof!Clocks
      BY <2>1 DEF ProofInv
    <2> QED
      BY <2>1, <2>2, WaitsOn, RunStays
  <1> QED
    BY <1>1, ProofNext DEF MCNext, Reviews

(* What the proofs keep of an owner, by the kind that it is.               *)
OwnerInv ==
    /\ kind \in Reviews => ReviewInv
    /\ kind = "credential" => CredentialInv
    /\ kind = "lifecycle" => LifecycleInv
    /\ kind = "model" => ModelInv
    /\ kind = "proof" => ProofInv

(* Each owner begins with its invariant.                                   *)
LEMMA OwnerInit == MCInit => OwnerInv
  <1> SUFFICES ASSUME MCInit PROVE OwnerInv
    OBVIOUS
  <1>1. kind \in Reviews => ReviewInv
    BY ReviewInit DEF MCInit, Reviews
  <1>2. kind = "credential" => CredentialInv
    BY CredentialInit DEF MCInit, Reviews
  <1>3. kind = "lifecycle" => LifecycleInv
    BY LifecycleInit DEF MCInit, Reviews
  <1>4. kind = "model" => ModelInv
    BY ModelInit DEF MCInit, Reviews
  <1>5. kind = "proof" => ProofInv
    BY ProofInit DEF MCInit, Reviews
  <1> QED
    BY <1>1, <1>2, <1>3, <1>4, <1>5 DEF OwnerInv

(* Each owner keeps its invariant, and makes no step that a stop forbids.  *)
LEMMA OwnerStep ==
    ASSUME OwnerInv, [MCNext]_MCVars
    PROVE  /\ OwnerInv'
           /\ kind \in Reviews => Review!CancelStep
           /\ kind = "credential" => Credential!EffectStep /\ Credential!RevokedStep
           /\ kind = "proof" => Proof!PassStep
  <1>1. kind' = kind
    BY DEF MCNext, MCVars
  <1>2. kind \in Reviews => ReviewInv' /\ Review!CancelStep
    BY ReviewStep, CancelIsRight DEF OwnerInv
  <1>3. kind = "credential" => /\ CredentialInv'
                               /\ Credential!EffectStep /\ Credential!RevokedStep
    BY CredentialStep, CredentialSteps DEF OwnerInv
  <1>4. kind = "lifecycle" => LifecycleInv'
    BY LifecycleStep DEF OwnerInv
  <1>5. kind = "model" => ModelInv'
    BY ModelStep DEF OwnerInv
  <1>6. kind = "proof" => ProofInv' /\ Proof!PassStep
    BY ProofStep DEF OwnerInv
  <1>7. OwnerInv'
    BY <1>1, <1>2, <1>3, <1>4, <1>5, <1>6 DEF OwnerInv, Reviews
  <1> QED
    BY <1>2, <1>3, <1>6, <1>7

(* The inductive invariant of every owner, kept by all of its calls,       *)
(* stops, lost locks and late answers, in any order.                       *)
THEOREM OwnerInvariant == MCSpec => []OwnerInv
  <1>1. OwnerInv /\ [MCNext]_MCVars => OwnerInv'
    BY OwnerStep
  <1> QED
    BY <1>1, OwnerInit, PTL DEF MCSpec

(* What a record calls a success is one at the owner: a review was merged  *)
(* at its approved and checked head, a lifecycle change is once in the     *)
(* history and at the provider, a configuration that completed was made,   *)
(* and a proof that passed was observed by its own evidence.               *)
THEOREM SuccessesAreTheOwners == MCSpec => []SuccessIsTheOwners
  <1>1. OwnerInv => SuccessIsTheOwners
    BY ReviewEnd, LifecycleEnd, ModelEnd, ProofEnd DEF OwnerInv, SuccessIsTheOwners
  <1> QED
    BY <1>1, OwnerInvariant, PTL

(* A request that ended has no open review, unless its call went on after  *)
(* it had lost the lock; and what was stopped as never issued has no       *)
(* operation at the platform.                                              *)
THEOREM NothingIsLeftOpen == MCSpec => []EndedLeavesNothingOpen
  <1>1. OwnerInv => EndedLeavesNothingOpen
    BY ReviewEnd, CredentialEnd DEF OwnerInv, EndedLeavesNothingOpen, Reviews
  <1> QED
    BY <1>1, OwnerInvariant, PTL

(* A request is not cancelled over a change that was merged meanwhile, no  *)
(* source effect is made with the credential of a stopped intent, a        *)
(* revocation stays, and a run that is done is not changed.                *)
THEOREM StopsAreKept == MCSpec => StopIsKept
  <1> DEFINE Stop == /\ kind \in Reviews => Review!CancelStep
                     /\ kind = "credential" => Credential!EffectStep /\ Credential!RevokedStep
                     /\ kind = "proof" => Proof!PassStep
  <1>1. OwnerInv /\ [MCNext]_MCVars => [Stop]_MCVars
    BY OwnerStep
  <1> QED
    BY <1>1, OwnerInvariant, PTL DEF MCSpec, StopIsKept
=============================================================================

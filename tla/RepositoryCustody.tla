-------------------------- MODULE RepositoryCustody --------------------------
(***************************************************************************)
(* The repository-custody workflow (repository-custody/service.js) over    *)
(* its journal (store.js) and the repository provider.                     *)
(*   - A call is one execute of a request: it takes the request's lock,    *)
(*     asks WGCF for readiness, writes a checkpoint before and after each  *)
(*     provider command, reads the provider back and stores one result.    *)
(*   - The provider is external: it knows repositories by immutable id and *)
(*     by name, and one repository at most holds a name.  Its answers may  *)
(*     be lost after their effect, a create may take effect after its      *)
(*     caller gave up, and other people create, change, rename, archive    *)
(*     and delete repositories.                                            *)
(* One service process; its death ends every call.  The lock of a request  *)
(* is held by the call that works on it (RequestLock models the lock file, *)
(* and that a replaced process can take over what a dead one left).        *)
(* Every request to create is for the one approved name.                   *)
(***************************************************************************)
EXTENDS Integers, FiniteSets

CONSTANTS Calls,            \* concurrent execute calls
          Submissions,      \* [id, action, causation, settings, target]
          MaxRepositories,  \* bound on the repository ids the provider gives
          MaxAttempts       \* bound on the provider commands of a request

ASSUME CustodyAssumption ==
    /\ MaxRepositories \in Nat /\ MaxAttempts \in Nat
    /\ \A s \in Submissions :
          /\ s.id \notin {"none", "nobody", "others"}
          /\ s.action \in {"provision-new", "link-existing"}
          /\ s.causation \in {"none"} \cup {t.id : t \in Submissions}
          /\ s.target \in 0..MaxRepositories
          /\ s.action = "link-existing" => s.target # 0

VARIABLES
    store,     \* per request id: its record
    calls,     \* per call: where execute stands, and its locals
    repos,     \* the provider's repositories, by immutable id
    inflight   \* creates that were sent and have not taken effect

vars == <<store, calls, repos, inflight>>

Requests == {s.id : s \in Submissions}
Wanted == {s.settings : s \in Submissions}
Ids == 1..MaxRepositories

Unborn == [by |-> "nobody", place |-> "nowhere", settings |-> "partial",
           active |-> FALSE]
NoReadback == [id |-> 0, repo |-> Unborn]
NoOperation == [state |-> "not-started", attempts |-> 0, id |-> 0,
                path |-> "none"]
Record(s, status, retryable, op, readback) ==
    [request |-> s, status |-> status, retryable |-> retryable, op |-> op,
     readback |-> readback]
NoSubmission == [id |-> "none", action |-> "none", causation |-> "none",
                 settings |-> "none", target |-> 0]
NoRecord == Record(NoSubmission, "none", FALSE, NoOperation, NoReadback)
IdleCall == [at |-> "idle", sub |-> NoSubmission, prior |-> NoRecord,
             op |-> NoOperation, readback |-> NoReadback, reply |-> <<"none", 0>>]

-----------------------------------------------------------------------------
(* The provider.                                                           *)

Exists(i) == repos[i].place \notin {"nowhere", "deleted"}
Named == {i \in Ids : repos[i].place = "name"}
Free == {i \in Ids : repos[i].place = "nowhere"}
FreshId == CHOOSE i \in Free : TRUE
Readback(i) == [id |-> i, repo |-> repos[i]]

(* readRepository of an id: its truth, a transport failure (503), or a     *)
(* refusal (404 once deleted, 403, 409 while the README is missing).       *)
ReadAnswers(i) ==
    {[kind |-> k, readback |-> NoReadback] : k \in {"retryable", "refused"}}
    \cup {[kind |-> "found", readback |-> Readback(j)] : j \in {n \in {i} : Exists(n)}}

(* find by owner and name: 404 is null.                                    *)
FindAnswers ==
    {[kind |-> k, readback |-> NoReadback] : k \in {"retryable", "refused"}}
    \cup IF Named = {} THEN {[kind |-> "absent", readback |-> NoReadback]}
         ELSE {[kind |-> "found", readback |-> Readback(i)] : i \in Named}

(* readbackMatches, for an expected id when one is acknowledged.           *)
ReadbackMatches(s, readback, id) ==
    /\ readback.repo.active
    /\ id # 0 => readback.id = id
    /\ IF s.action = "link-existing" THEN readback.id = s.target
       ELSE readback.repo.place = "name" /\ readback.repo.settings = s.settings

-----------------------------------------------------------------------------
(* The journal.                                                            *)

(* What execute may work on again and persist may replace.                 *)
Mutable(record) == record.status = "applying" \/ record.retryable

(* persist: an absent record is written, a mutable one is replaced when    *)
(* the caller asks for it, and any other is kept.  execute has compared    *)
(* the digests.                                                            *)
Persist(record, replaceMutable) ==
    [store EXCEPT ![record.request.id] =
        IF @.status = "none" \/ (replaceMutable /\ Mutable(@))
        THEN record ELSE @]

Locked(r) == \E c \in Calls : calls[c].at # "idle" /\ calls[c].sub.id = r

(* The last put of execute; the lock is released.                          *)
Finish(c, record) ==
    /\ store' = Persist(record, TRUE)
    /\ calls' = [calls EXCEPT ![c] = IdleCall]

(* providerFailureRecord: only a server-side failure may be retried.       *)
Fail(c, kind, op, readback) ==
    Finish(c, Record(calls[c].sub, "failed", kind = "retryable", op, readback))

Succeed(c, op, readback) ==
    Finish(c, Record(calls[c].sub, "succeeded", FALSE, op, readback))

(* A checkpoint, then the provider request the call waits for next.        *)
Checkpoint(c, op, at, replaceMutable) ==
    /\ store' = Persist(Record(calls[c].sub, "applying", FALSE, op, NoReadback),
                        replaceMutable)
    /\ calls' = [calls EXCEPT ![c] = [@ EXCEPT !.op = op, !.at = at]]

-----------------------------------------------------------------------------
(* execute.                                                                *)

(* Mutant: any failed creation that names a repository can be corrected.   *)
CorrectsCollision(s, pred) ==
    /\ s.causation # s.id
    /\ pred.status = "failed" /\ ~pred.retryable
    /\ pred.request.action = "provision-new" /\ pred.op.id # 0
    /\ pred.request.settings = s.settings

(* The predecessor of a correction: the exact failed creation, whose       *)
(* acknowledged repository is to be completed.  It is read without its     *)
(* lock.                                                                   *)
Corrects(s, pred) ==
    /\ s.causation # s.id
    /\ pred.status = "failed" /\ ~pred.retryable
    /\ pred.request.action = "provision-new"
    /\ pred.op.attempts >= 1 /\ pred.op.id # 0
    /\ pred.op.state \in {"provider-acknowledged", "recovery-required"}
    /\ pred.readback.id \in {0, pred.op.id}
    /\ pred.request.settings = s.settings

IsCorrection(s) == s.action = "provision-new" /\ s.causation # "none"

(* A bound: a request that has used its attempts is not submitted again,   *)
(* unless it only reads the repository it created.                         *)
MayAttempt(record) ==
    \/ record.op.attempts < MaxAttempts
    \/ record.op.id # 0 /\ record.request.action = "provision-new"

(* Up to the readiness call.  Changed content, a stale policy and a        *)
(* correction of anything else are refused, and a terminal result is       *)
(* replayed, with nothing changed.                                         *)
Begin(c, s) ==
    LET current == store[s.id]
        existing == current.status # "none"
    IN  /\ calls[c].at = "idle" /\ ~Locked(s.id)
        /\ existing => current.request = s /\ Mutable(current)
        /\ IsCorrection(s) => Corrects(s, store[s.causation])
        /\ MayAttempt(current)
        /\ calls' = [calls EXCEPT ![c] =
                [IdleCall EXCEPT !.at = "readiness", !.sub = s,
                    !.prior = IF existing THEN current
                              ELSE IF IsCorrection(s) THEN store[s.causation]
                              ELSE NoRecord]]
        /\ UNCHANGED <<store, repos, inflight>>

Existing(c) == calls[c].prior.request.id = calls[c].sub.id
Prior(c) == calls[c].prior.op

(* readinessClient.evaluate or assertAllowedDecision throws.               *)
ReadinessFails(c) ==
    /\ calls[c].at = "readiness"
    /\ calls' = [calls EXCEPT ![c] = IdleCall]
    /\ UNCHANGED <<store, repos, inflight>>

(* Mutant: a denial forgets the commands issued before it.                 *)
ReadinessDeniesAfresh(c) ==
    /\ calls[c].at = "readiness"
    /\ Finish(c, Record(calls[c].sub, "denied", FALSE, NoOperation, NoReadback))
    /\ UNCHANGED <<repos, inflight>>

ReadinessDenies(c) ==
    /\ calls[c].at = "readiness"
    /\ Finish(c, Record(calls[c].sub, "denied", FALSE,
                        IF Existing(c) THEN Prior(c) ELSE NoOperation,
                        NoReadback))
    /\ UNCHANGED <<repos, inflight>>

(* linkExisting: a checkpoint, then the read of the repository.            *)
ReadinessAllowsLink(c) ==
    /\ calls[c].at = "readiness" /\ calls[c].sub.action = "link-existing"
    /\ Checkpoint(c, [NoOperation EXCEPT
                        !.state = "command-issued",
                        !.attempts = (IF Existing(c) THEN Prior(c).attempts ELSE 0) + 1,
                        !.id = calls[c].sub.target],
                  "linking", Existing(c))
    /\ UNCHANGED <<repos, inflight>>

(* provision with something to recover: a checkpoint before the read.      *)
ReadinessAllowsRecovery(c) ==
    /\ calls[c].at = "readiness" /\ calls[c].sub.action = "provision-new"
    /\ calls[c].prior.status # "none"
    /\ Checkpoint(c, [NoOperation EXCEPT !.state = "recovery-required",
                        !.attempts = Prior(c).attempts, !.id = Prior(c).id],
                  "recovering", TRUE)
    /\ UNCHANGED <<repos, inflight>>

(* provision of a new request: the name is looked up first.                *)
ReadinessAllowsProbe(c) ==
    /\ calls[c].at = "readiness" /\ calls[c].sub.action = "provision-new"
    /\ calls[c].prior.status = "none"
    /\ calls' = [calls EXCEPT ![c].at = "probing"]
    /\ UNCHANGED <<store, repos, inflight>>

(* The readback of linkExisting.                                           *)
Link(c) ==
    LET s == calls[c].sub  op == calls[c].op
    IN  /\ calls[c].at = "linking"
        /\ \E answer \in ReadAnswers(s.target) :
              \/ /\ answer.kind # "found"
                 /\ Fail(c, answer.kind,
                         [op EXCEPT !.state = IF answer.kind = "retryable"
                                              THEN "recovery-required"
                                              ELSE "command-issued"],
                         NoReadback)
              \/ /\ answer.kind = "found"
                 /\ IF ReadbackMatches(s, answer.readback, 0)
                    THEN Succeed(c, [op EXCEPT !.state = "verified",
                                               !.path = "read-existing"],
                                 answer.readback)
                    ELSE Fail(c, "refused",
                              [op EXCEPT !.state = "provider-acknowledged"],
                              answer.readback)
        /\ UNCHANGED <<repos, inflight>>

(* The command checkpoint and the create that follows it.                  *)
SendCreate(c) ==
    LET s == calls[c].sub
        op == [calls[c].op EXCEPT !.attempts = @ + 1, !.state = "command-issued"]
    IN  /\ Checkpoint(c, op, "creating", Existing(c))
        /\ inflight' = inflight \cup {[id |-> s.id, settings |-> s.settings,
                                      attempt |-> op.attempts]}
        /\ UNCHANGED repos

(* The first look at the name: a collision fails, absence lets it create.  *)
Probe(c) ==
    /\ calls[c].at = "probing"
    /\ \E answer \in FindAnswers :
          \/ /\ answer.kind = "absent"
             /\ SendCreate(c)
          \/ /\ answer.kind = "found"
             /\ Fail(c, "refused", [calls[c].op EXCEPT !.id = answer.readback.id],
                     answer.readback)
             /\ UNCHANGED <<repos, inflight>>
          \/ /\ answer.kind \in {"retryable", "refused"}
             /\ Fail(c, answer.kind, calls[c].op, NoReadback)
             /\ UNCHANGED <<repos, inflight>>

Sent(c) == [id |-> calls[c].sub.id, settings |-> calls[c].sub.settings,
            attempt |-> calls[c].op.attempts]

(* The answer to a create: what the provider did, a failure that does not  *)
(* say, or a refusal, which is given only for a create without effect.     *)
CreateAcknowledged(c) ==
    LET i == CHOOSE n \in Ids : calls[c].reply = <<"created", n>>
    IN  /\ calls[c].at = "creating"
        /\ \E n \in Ids : calls[c].reply = <<"created", n>>
        /\ Checkpoint(c, [calls[c].op EXCEPT !.id = i,
                                             !.state = "provider-acknowledged"],
                      "reading", TRUE)
        /\ UNCHANGED <<repos, inflight>>

CreateUnknown(c) ==
    /\ calls[c].at = "creating"
    /\ Fail(c, "retryable", [calls[c].op EXCEPT !.state = "recovery-required"],
            NoReadback)
    /\ UNCHANGED <<repos, inflight>>

CreateRefused(c) ==
    /\ calls[c].at = "creating"
    /\ calls[c].reply = <<"refused", 0>> \/ Sent(c) \in inflight
    /\ Fail(c, "refused", calls[c].op, NoReadback)
    /\ inflight' = inflight \ {Sent(c)}
    /\ UNCHANGED repos

(* Mutant: a repository found by name may be completed as well.            *)
MayCompleteByName(s, op, readback) ==
    readback.repo.active /\ readback.repo.place = "name"

(* completeApprovedBaseline and the verdict on what was read back.  Only   *)
(* an acknowledged repository that is still the approved one may have its  *)
(* settings completed.                                                     *)
MayComplete(s, op, readback) ==
    /\ op.id # 0 /\ readback.id = op.id
    /\ readback.repo.active /\ readback.repo.place = "name"

Path(op) == IF op.state = "recovery-required" THEN "recovered" ELSE "created"

Judge(c, readback) ==
    LET s == calls[c].sub  op == calls[c].op
    IN  IF ReadbackMatches(s, readback, op.id)
        THEN Succeed(c, [op EXCEPT !.id = readback.id, !.state = "verified",
                                   !.path = Path(op)], readback)
        ELSE Fail(c, "refused",
                  [op EXCEPT !.state = IF op.id # 0 THEN "provider-acknowledged"
                                       ELSE "recovery-required"],
                  readback)

Complete(c, readback) ==
    LET s == calls[c].sub  op == calls[c].op
    IN  IF ~ReadbackMatches(s, readback, op.id) /\ MayComplete(s, op, readback)
        THEN /\ calls' = [calls EXCEPT ![c].at = "patching",
                                       ![c].readback = readback]
             /\ UNCHANGED store
        ELSE Judge(c, readback)

FailRead(c, kind) ==
    Fail(c, kind,
         [calls[c].op EXCEPT !.state =
            IF kind = "retryable" \/ @ = "recovery-required"
            THEN "recovery-required" ELSE "provider-acknowledged"],
         calls[c].readback)

(* Mutant: recovery looks the repository up by its name.                   *)
RecoverByName(c) ==
    /\ calls[c].at = "recovering"
    /\ \E answer \in FindAnswers :
          \/ /\ answer.kind = "found"
             /\ Complete(c, answer.readback)
             /\ UNCHANGED <<repos, inflight>>
          \/ /\ answer.kind = "absent" /\ Existing(c)
             /\ SendCreate(c)
          \/ /\ answer.kind # "found" /\ (answer.kind = "absent" => ~Existing(c))
             /\ FailRead(c, answer.kind)
             /\ UNCHANGED <<repos, inflight>>

(* The recovery of an earlier attempt: by the acknowledged id, or else by  *)
(* the name.  Only an absent name lets it create again.                    *)
Recover(c) ==
    LET op == calls[c].op
    IN  /\ calls[c].at = "recovering"
        /\ \E answer \in IF op.id # 0 THEN ReadAnswers(op.id) ELSE FindAnswers :
              \/ /\ answer.kind = "found"
                 /\ Complete(c, answer.readback)
                 /\ UNCHANGED <<repos, inflight>>
              \/ /\ answer.kind = "absent" /\ Existing(c)
                 /\ SendCreate(c)
              \/ /\ \/ answer.kind \in {"retryable", "refused"}
                    \/ answer.kind = "absent" /\ ~Existing(c)
                 /\ FailRead(c, answer.kind)
                 /\ UNCHANGED <<repos, inflight>>

(* The readback of an acknowledged create.                                 *)
ReadCreated(c) ==
    /\ calls[c].at = "reading"
    /\ \E answer \in ReadAnswers(calls[c].op.id) :
          IF answer.kind = "found" THEN Complete(c, answer.readback)
          ELSE FailRead(c, answer.kind)
    /\ UNCHANGED <<repos, inflight>>

(* applyApprovedSettings names the repository by owner and name, checks    *)
(* the id of the one that answers, and may lose its answer.                *)
Settle(s) ==
    repos' = [i \in Ids |-> IF i \in Named
                            THEN [repos[i] EXCEPT !.settings = s.settings]
                            ELSE repos[i]]

ApplySettings(c) ==
    /\ calls[c].at = "patching"
    /\ \/ /\ Settle(calls[c].sub)
          /\ \/ /\ Named = {calls[c].op.id}
                /\ calls' = [calls EXCEPT ![c].at = "rereading"]
                /\ UNCHANGED store
             \/ Named # {calls[c].op.id} /\ FailRead(c, "refused")
             \/ FailRead(c, "retryable")
       \/ /\ UNCHANGED repos
          /\ \E kind \in {"retryable", "refused"} : FailRead(c, kind)
    /\ UNCHANGED inflight

(* A successful PATCH is only acknowledgement: the repository is read      *)
(* again.                                                                  *)
Reread(c) ==
    /\ calls[c].at = "rereading"
    /\ \E answer \in ReadAnswers(calls[c].op.id) :
          IF answer.kind = "found" THEN Judge(c, answer.readback)
          ELSE FailRead(c, answer.kind)
    /\ UNCHANGED <<repos, inflight>>

(* A write of the journal fails, and the call with it.                     *)
JournalFails(c) ==
    /\ calls[c].at \notin {"idle", "readiness"}
    /\ calls' = [calls EXCEPT ![c] = IdleCall]
    /\ UNCHANGED <<store, repos, inflight>>

(* The process dies: every call ends where it stands.                      *)
Crash ==
    /\ \E c \in Calls : calls[c].at # "idle"
    /\ calls' = [c \in Calls |-> IdleCall]
    /\ UNCHANGED <<store, repos, inflight>>

-----------------------------------------------------------------------------
(* The provider and its other users.                                       *)

Answer(create, reply) ==
    [c \in Calls |-> IF calls[c].at = "creating" /\ Sent(c) = create
                     THEN [calls[c] EXCEPT !.reply = reply] ELSE calls[c]]

(* A create takes effect while the name is free; some of its settings may  *)
(* not.                                                                    *)
CreateLands(create) ==
    /\ inflight' = inflight \ {create}
    /\ \/ /\ Named # {}
          /\ calls' = Answer(create, <<"refused", 0>>)
          /\ UNCHANGED repos
       \/ /\ Named = {} /\ Free # {}
          /\ calls' = Answer(create, <<"created", FreshId>>)
          /\ \E settings \in {create.settings, "partial"} :
                repos' = [repos EXCEPT ![FreshId] =
                    [by |-> create.id, place |-> "name", settings |-> settings,
                     active |-> TRUE]]
    /\ UNCHANGED store

OthersCreate ==
    /\ Named = {} /\ Free # {}
    /\ \E settings \in Wanted \cup {"partial"} :
          repos' = [repos EXCEPT ![FreshId] =
              [by |-> "others", place |-> "name", settings |-> settings,
               active |-> TRUE]]
    /\ UNCHANGED <<store, calls, inflight>>

OthersChange(i) ==
    /\ Exists(i)
    /\ \E repo \in {[repos[i] EXCEPT !.settings = "partial"],
                    [repos[i] EXCEPT !.active = FALSE],
                    [repos[i] EXCEPT !.place = "elsewhere"],
                    [Unborn EXCEPT !.by = repos[i].by, !.place = "deleted"]} :
          repos' = [repos EXCEPT ![i] = repo]
    /\ UNCHANGED <<store, calls, inflight>>

-----------------------------------------------------------------------------

Init ==
    LET linked == {s.target : s \in Submissions} \ {0}
    IN  /\ store = [r \in Requests |-> NoRecord]
        /\ calls = [c \in Calls |-> IdleCall]
        /\ repos = [i \in Ids |-> IF i \in linked
                        THEN [by |-> "others", place |-> "elsewhere",
                              settings |-> "partial", active |-> TRUE]
                        ELSE Unborn]
        /\ inflight = {}

Step(c) ==
    \/ ReadinessFails(c) \/ ReadinessDenies(c) \/ ReadinessAllowsLink(c)
    \/ ReadinessAllowsRecovery(c) \/ ReadinessAllowsProbe(c)
    \/ Link(c) \/ Probe(c) \/ Recover(c)
    \/ CreateAcknowledged(c) \/ CreateUnknown(c) \/ CreateRefused(c)
    \/ ReadCreated(c) \/ ApplySettings(c) \/ Reread(c)

Next ==
    \/ \E c \in Calls : Step(c) \/ JournalFails(c) \/ \E s \in Submissions : Begin(c, s)
    \/ Crash
    \/ \E create \in inflight : CreateLands(create)
    \/ OthersCreate \/ \E i \in Ids : OthersChange(i)

(* Every provider and readiness request is answered or fails: fetch ends   *)
(* with its connection.                                                    *)
Spec == Init /\ [][Next]_vars /\ \A c \in Calls : WF_vars(Step(c))

-----------------------------------------------------------------------------
(* Properties.                                                             *)

Operations == [state : {"not-started", "command-issued", "recovery-required",
                        "provider-acknowledged", "verified"},
               attempts : 0..MaxAttempts, id : 0..MaxRepositories,
               path : {"none", "created", "recovered", "read-existing"}]
Repositories == [by : Requests \cup {"others", "nobody"},
                 place : {"nowhere", "name", "elsewhere", "deleted"},
                 settings : Wanted \cup {"partial"}, active : BOOLEAN]
Readbacks == [id : 0..MaxRepositories, repo : Repositories]
Records == [request : Submissions \cup {NoSubmission},
            status : {"none", "applying", "succeeded", "denied", "failed"},
            retryable : BOOLEAN, op : Operations, readback : Readbacks]

(* Types, and the shape validateStored demands: a record is of its         *)
(* request, and only a failure may be retried.                             *)
TypeOK ==
    /\ store \in [Requests -> Records]
    /\ calls \in [Calls ->
          [at : {"idle", "readiness", "linking", "probing", "recovering",
                 "creating", "reading", "patching", "rereading"},
           sub : Submissions \cup {NoSubmission}, prior : Records,
           op : Operations, readback : Readbacks,
           reply : {"none", "refused", "created"} \X (0..MaxRepositories)]]
    /\ repos \in [Ids -> Repositories]
    /\ inflight \subseteq [id : Requests, settings : Wanted, attempt : 1..MaxAttempts]
    /\ \A r \in Requests :
          /\ store[r].status # "none" => store[r].request.id = r
          /\ store[r].retryable => store[r].status = "failed"

(* Whatever a create has done at the provider, the journal says that the   *)
(* request has issued one: no crash, lost answer, late effect or denial    *)
(* leaves a repository that no record accounts for.                        *)
EffectsAreJournalled ==
    \A i \in Ids : repos[i].by \in Requests =>
        /\ store[repos[i].by].status # "none"
        /\ store[repos[i].by].op.attempts >= 1

(* r and the failed creations it corrects: what every set holds that has r *)
(* and, with a correction, the request that it corrects.                   *)
Corrected(S) == \A q \in S : IsCorrection(store[q].request)
                                 => store[q].request.causation \in S
Lineage(r) ==
    {q \in Requests : \A S \in SUBSET Requests : r \in S /\ Corrected(S) => q \in S}

(* The id in a record names a repository that a create of the request, or  *)
(* of the one it corrects, made - unless the record is of a collision or   *)
(* of a recovery by name.                                                  *)
HoldsAcknowledgedId(record) ==
    /\ record.request.action = "provision-new" /\ record.op.id # 0
    /\ \/ record.op.state \in {"provider-acknowledged", "recovery-required"}
       \/ record.op.path = "created"
       \/ record.status = "succeeded" /\ IsCorrection(record.request)

AcknowledgedIsOwn ==
    \A r \in Requests : HoldsAcknowledgedId(store[r]) =>
        repos[store[r].op.id].by \in Lineage(r)

Terminal(record) == record.status \in {"succeeded", "denied", "failed"}
                    /\ ~record.retryable

(* Once a create is acknowledged no create is sent for that request or for *)
(* a correction of it.                                                     *)
NoCreateAfterAcknowledgement ==
    [][\A r \in Requests :
          (\E x \in inflight' \ inflight : x.id = r) =>
              /\ store[r].op.id = 0
              /\ ~IsCorrection(store'[r].request)]_vars

(* The service changes the settings of a repository of others only when    *)
(* its own has lost the name between the read and the change.              *)
OthersKeepTheirSettings ==
    [][\A i \in Ids :
          repos[i].by = "others" /\ repos'[i].settings \notin {repos[i].settings, "partial"}
          => \E c \in Calls : /\ calls[c].op.id # 0
                              /\ repos[calls[c].op.id].by \in Requests
                              /\ repos[calls[c].op.id].place # "name"]_vars

(* docs/operations/repository-custody-workflow.md:117: provisioning never  *)
(* adopts a name collision.                                                *)
NameCollisionNotAdopted ==
    \A r \in Requests :
        store[r].status = "succeeded" /\ store[r].request.action = "provision-new"
        => store[r].readback.repo.by # "others"

=============================================================================

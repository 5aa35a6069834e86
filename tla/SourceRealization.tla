------------------------- MODULE SourceRealization -------------------------
(***************************************************************************)
(* The source of one work session, written by the service: an attempt has  *)
(* a draft from the model or from an operator, the operator accepts the    *)
(* draft by its digest, the executor commits it in the worktree of the     *)
(* session, and the commit is published, reviewed and merged.              *)
(*                                                                         *)
(* subject is what the session is for: a delivery, a prototype, or the     *)
(* bootstrap of an owner, whose only draft comes with its request.  A call *)
(* works under the lock of the session; one that writes source holds the   *)
(* lease of the credential as well.  A lock that is taken refuses a call.  *)
(* A call may stop anywhere; what the executor does for it goes on.        *)
(***************************************************************************)
EXTENDS Naturals, Sequences, FiniteSets

CONSTANTS Subjects, Calls, ChangeSets,
          MaxAttempts, MaxRevision,  \* bounds on the attempts and revisions
          MaxHands,     \* bound on what people do to the source by hand
          MaxStops      \* bound on calls, answers and executions that are lost

VARIABLES
    subject,
    record,     \* the realization record, and the withdrawal of its request
    tree,       \* the worktree: commits after its base, uncommitted changes
    remote,     \* the branch at the provider, and its pull requests
    exec,       \* per call: what the executor does for it
    results,    \* the result store of the executor: the commit of a draft
    lock,       \* who holds the session and who holds the lease
    call,       \* per call: where it is and what it has read
    env

vars == <<subject, record, tree, remote, exec, results, lock, call, env>>

None == "none"
Hand == "hand"       \* a commit that somebody else made

Idle == [at |-> "idle", what |-> None, seen |-> 0, draft |-> None,
         after |-> 0, head |-> <<>>, waits |-> TRUE]
NoExec == [at |-> None, draft |-> None, head |-> <<>>]

Controls == {"publish", "review", "merge", "close"}
NoControls == [x \in Controls |-> None]

Attempt(state, draft) ==
    [state |-> state, draft |-> draft, accepted |-> None, receipt |-> <<>>,
     pull |-> 0, control |-> NoControls]

Init ==
    /\ subject \in Subjects
    /\ \E x \in ChangeSets :
          record = [revision |-> 1, saves |-> <<>>, withdrawn |-> None, stopped |-> FALSE,
                    attempts |-> IF subject = "bootstrap"
                                 THEN <<Attempt("draft-ready", x)>> ELSE <<>>]
    /\ tree = [commits |-> <<>>, dirty |-> FALSE]
    /\ remote = [branch |-> <<>>, pulls |-> <<>>]
    /\ exec = [c \in Calls |-> NoExec]
    /\ results = [x \in ChangeSets |-> <<>>]
    /\ lock = [session |-> None, lease |-> None]
    /\ call = [c \in Calls |-> Idle]
    /\ env = [hands |-> 0, stops |-> 0]

-----------------------------------------------------------------------------
Count == Len(record.attempts)
Current == record.attempts[Count]
State == IF Count = 0 THEN None ELSE Current.state
Draft == IF State = "draft-ready" THEN Current.draft ELSE None
Change(f, value) == [record.attempts EXCEPT ![Count][f] = value]

Write(attempts) ==
    /\ record.revision < MaxRevision
    /\ record' = [record EXCEPT !.attempts = attempts, !.revision = @ + 1]

Pristine == tree.commits = <<>> /\ ~tree.dirty
At(head) == tree.commits = head /\ ~tree.dirty

Go(c, at) == call' = [call EXCEPT ![c].at = at]
End(c) == /\ call' = [call EXCEPT ![c] = Idle]
          /\ lock' = [l \in DOMAIN lock |-> IF lock[l] = c THEN None ELSE lock[l]]
Refuse(c) == End(c) /\ UNCHANGED <<subject, record, tree, remote, exec, results, env>>

(* The credential can be leased while its intent is open and its request   *)
(* is not withdrawn; the lease is kept from a stop by its lock.            *)
Leased == lock.lease = None /\ ~record.stopped /\ record.withdrawn = None

(* A caller reads the record, and sends its command later.                 *)
Ask(c, what) ==
    /\ call[c].at = "idle"
    /\ \/ what \in {"generate", "save"} /\ subject # "bootstrap" /\ State # "source-created"
       \/ what = "continue" /\ State = "draft-ready"
       \/ what = "cancel" /\ subject # "bootstrap" /\ State \notin {None, "source-created"}
       \/ what = "withdraw" /\ subject = "bootstrap" /\ record.withdrawn # "succeeded"
       \/ what = "recover" /\ State \in {"applying", "apply-unknown"}
    /\ call' = [call EXCEPT ![c] =
          [Idle EXCEPT !.at = IF what \in {"continue", "recover"} THEN "lease" ELSE "enter",
                       !.what = what, !.seen = record.revision,
                       !.draft = Draft, !.after = Count]]
    /\ UNCHANGED <<subject, record, tree, remote, exec, results, lock, env>>

(* A command that applies a draft takes its lease before the session.      *)
Lease(c) ==
    /\ call[c].at = "lease"
    /\ IF Leased THEN /\ lock' = [lock EXCEPT !.lease = c] /\ Go(c, "enter")
                      /\ UNCHANGED <<subject, record, tree, remote, exec, results, env>>
       ELSE Refuse(c)

Free == lock.session = None
Seen(c) == call[c].seen = record.revision

Enter(c, what, at) ==
    /\ call[c].at = "enter" /\ call[c].what = what
    /\ lock' = [lock EXCEPT !.session = c]
    /\ Go(c, at)
    /\ UNCHANGED <<subject, tree, remote, results, env>>

-----------------------------------------------------------------------------
(* start and generate: a draft of the model.                               *)
Unapplied == {None, "failed", "cancelled"}

MayGenerate(c) ==
    IF subject = "delivery"
    THEN State \in Unapplied \cup {"source-created"} /\ call[c].after = Count
         /\ Pristine /\ Count < MaxAttempts
    ELSE State \in Unapplied /\ Seen(c) /\ Leased /\ Count < MaxAttempts

Generate(c) ==
    /\ Free /\ MayGenerate(c)
    /\ Enter(c, "generate", "drafting")
    /\ Write(Append(record.attempts, Attempt("accepted", None)))
    /\ UNCHANGED exec

(* A generation that was interrupted goes on; only that of a prototype.    *)
Resume(c) ==
    /\ Free /\ State = "accepted" /\ subject = "prototype" /\ Leased
    /\ Enter(c, "generate", "drafting")
    /\ UNCHANGED <<record, exec>>

(* The context is read from a clean worktree at the base.                  *)
Generated(c) ==
    /\ call[c].at = "drafting"
    /\ \/ /\ Pristine
          /\ \E x \in ChangeSets :
                Write([Change("state", "draft-ready") EXCEPT ![Count].draft = x])
       \/ \E end \in {"failed", "cancelled"} : Write(Change("state", end))
    /\ End(c)
    /\ UNCHANGED <<subject, tree, remote, exec, results, env>>

-----------------------------------------------------------------------------
(* saveDraft: a draft of an operator.                                      *)

(* Mutant: a save looks at the state only.                                 *)
MaySaveOver(c) ==
    /\ State \in Unapplied \cup {"draft-ready"}
    /\ State = "draft-ready" \/ (call[c].after = Count /\ Count < MaxAttempts)

MaySave(c) ==
    /\ Seen(c) /\ call[c].draft = Draft
    /\ State \in Unapplied \cup {"draft-ready"}
    /\ State = "draft-ready" \/ (call[c].after = Count /\ Count < MaxAttempts)

EnterSave(c) ==
    /\ Free /\ MaySave(c)
    /\ Enter(c, "save", "saving")
    /\ UNCHANGED <<record, exec>>

(* The owner validates the draft; what it replaces is kept beside it.      *)
Save(c) ==
    /\ call[c].at = "saving" /\ Pristine
    /\ record.revision < MaxRevision
    /\ \E x \in ChangeSets :
          record' = [record EXCEPT
              !.revision = @ + 1,
              !.saves = Append(@, [draft |-> x, read |-> call[c].draft, over |-> Draft]),
              !.attempts = IF State = "draft-ready" THEN Change("draft", x)
                           ELSE Append(@, Attempt("draft-ready", x))]
    /\ End(c)
    /\ UNCHANGED <<subject, tree, remote, exec, results, env>>

CannotSave(c) == call[c].at = "saving" /\ ~Pristine /\ Refuse(c)

-----------------------------------------------------------------------------
(* Mutant: what was sent and not answered can be cancelled as well.        *)
CancellableUnknown == {"accepted", "draft-ready", "apply-unknown"}

Cancellable == {"accepted", "draft-ready"}

Cancel(c) ==
    /\ Free /\ Seen(c) /\ State \in Cancellable
    /\ call[c].at = "enter" /\ call[c].what = "cancel"
    /\ Write(Change("state", "cancelled"))
    /\ End(c) /\ UNCHANGED <<subject, tree, remote, exec, results, env>>

-----------------------------------------------------------------------------
(* continue and recover: the executor is sent the accepted draft.          *)

(* Mutant: the acceptance of one draft counts for the next one.            *)
AcceptsAny(c) == State = "draft-ready"

Accepts(c) == Seen(c) /\ State = "draft-ready" /\ call[c].draft = Current.draft

Send(c) == exec' = [exec EXCEPT ![c] = [NoExec EXCEPT !.at = "asked", !.draft = Current.draft]]

Continue(c) ==
    /\ Free /\ exec[c] = NoExec /\ Accepts(c)
    /\ Enter(c, "continue", "applying")
    /\ Write([Change("state", "applying") EXCEPT ![Count].accepted = call[c].draft])
    /\ Send(c)

Recover(c) ==
    /\ Free /\ exec[c] = NoExec /\ Seen(c) /\ State \in {"applying", "apply-unknown"}
    /\ Enter(c, "recover", "applying")
    /\ Send(c) /\ UNCHANGED record

Created(c, head) ==
    /\ Write([Change("state", "source-created") EXCEPT ![Count].receipt = head])
    /\ End(c)

(* An error leaves what is to be recovered as it was.                      *)
NotCreated(c) ==
    /\ IF call[c].what = "continue" THEN Write(Change("state", "apply-unknown"))
                                    ELSE UNCHANGED record
    /\ End(c)

Applied(c) ==
    /\ call[c].at = "applying" /\ exec[c].at \in {"committed", "failed"}
    /\ IF exec[c].at = "committed" THEN Created(c, exec[c].head) ELSE NotCreated(c)
    /\ exec' = [exec EXCEPT ![c] = NoExec]
    /\ UNCHANGED <<subject, tree, remote, results, env>>

AnswerLost(c) ==
    /\ call[c].at = "applying" /\ env.stops < MaxStops
    /\ env' = [env EXCEPT !.stops = @ + 1]
    /\ NotCreated(c)
    /\ UNCHANGED <<subject, tree, remote, exec, results>>

-----------------------------------------------------------------------------
(* The executor: applySourceRealization.                                   *)
Settles(c, at, head) == exec' = [exec EXCEPT ![c].at = at, ![c].head = head]

(* Mutant: one commit after the base is taken for the draft's.             *)
IsOneCommit(x) == Len(tree.commits) = 1

(* Only a commit with the digest of the draft, made on the base, is it.    *)
IsExact(x) == tree.commits = <<x>>

Look(c) ==
    /\ exec[c].at = "asked"
    /\ LET x == exec[c].draft IN
       IF results[x] # <<>>
       THEN Settles(c, "committed", results[x]) /\ UNCHANGED results
       ELSE IF tree.dirty THEN Settles(c, "failed", <<>>) /\ UNCHANGED results
       ELSE IF tree.commits = <<>> THEN Settles(c, "prepared", <<>>) /\ UNCHANGED results
       ELSE IF IsExact(x)
       THEN /\ Settles(c, "committed", tree.commits)
            /\ results' = [results EXCEPT ![x] = tree.commits]
       ELSE Settles(c, "failed", <<>>) /\ UNCHANGED results
    /\ UNCHANGED <<subject, record, tree, remote, lock, call, env>>

(* Two applications may both have been prepared: the second finds nothing  *)
(* to commit.  One that fails puts the files back.                         *)
HasCommitted(x) == \E i \in DOMAIN tree.commits : tree.commits[i] = x

CommitDraft(c) ==
    /\ exec[c].at = "prepared"
    /\ LET x == exec[c].draft IN
       IF tree.dirty \/ HasCommitted(x)
       THEN Settles(c, "failed", <<>>) /\ UNCHANGED <<tree, results>>
       ELSE /\ tree' = [tree EXCEPT !.commits = Append(@, x)]
            /\ \/ /\ results' = [results EXCEPT ![x] = tree'.commits]
                  /\ Settles(c, "committed", tree'.commits) /\ UNCHANGED env
               \/ /\ env.stops < MaxStops /\ env' = [env EXCEPT !.stops = @ + 1]
                  /\ Settles(c, "failed", <<>>) /\ UNCHANGED results
    /\ (tree.dirty \/ HasCommitted(exec[c].draft)) => UNCHANGED env
    /\ UNCHANGED <<subject, record, remote, lock, call>>

PutBack(c) ==
    /\ exec[c].at = "prepared"
    /\ Settles(c, "failed", <<>>)
    /\ UNCHANGED <<subject, record, tree, remote, results, lock, call, env>>

(* The executor stops between the first file and the commit.               *)
CutShort(c) ==
    /\ exec[c].at = "prepared" /\ env.stops < MaxStops
    /\ env' = [env EXCEPT !.stops = @ + 1]
    /\ tree' = [tree EXCEPT !.dirty = TRUE]
    /\ Settles(c, "failed", <<>>)
    /\ UNCHANGED <<subject, record, remote, results, lock, call>>

(* Nobody waits for the answer any more.                                   *)
Forgotten(c) ==
    /\ exec[c].at \in {"committed", "failed"} /\ call[c].at # "applying"
    /\ exec' = [exec EXCEPT ![c] = NoExec]
    /\ UNCHANGED <<subject, record, tree, remote, results, lock, call, env>>


-----------------------------------------------------------------------------
(* publish, review, merge, close: the executor works on the pull request   *)
(* of the branch.  A control keeps the command that began it.  The first   *)
(* command of a control names the current revision: one that comes late is *)
(* refused, and nothing else, so it is taken when it is sent.              *)
SetControl(x, state) ==
    Write([record.attempts EXCEPT ![Count].control[x] = state])

Receipt == Current.receipt
Known == DOMAIN remote.pulls
Newest == Len(remote.pulls)

(* What inspectPullRequest finds is the pull request the control is for.   *)
Ours == Newest # 0 /\ Newest = Current.pull /\ remote.pulls[Newest].head = Receipt

First == [publish |-> "take", review |-> "look", merge |-> "look", close |-> "stop"]
Comes == [publish |-> "none", review |-> "publish", merge |-> "review", close |-> "merge"]

EnterControl(c, x) ==
    /\ subject # "delivery" /\ call[c] = Idle
    /\ Free /\ State = "source-created" /\ Current.control[x] # "succeeded"
    /\ x # "publish" => Current.pull # 0
    /\ x \in {"merge", "close"} => Current.control[Comes[x]] = "succeeded"
    /\ x = "publish" => Leased
    /\ lock' = [lock EXCEPT !.session = c]
    /\ call' = [call EXCEPT ![c] = [Idle EXCEPT !.at = First[x], !.what = x]]
    /\ SetControl(x, "pending")
    /\ UNCHANGED <<subject, tree, remote, exec, results, env>>

(* A request of the executor goes on when its caller has stopped.          *)
Done(c, outcome) ==
    IF call[c].waits THEN SetControl(call[c].what, outcome) /\ End(c)
    ELSE UNCHANGED <<record, lock>> /\ call' = [call EXCEPT ![c] = Idle]

Unknown(c) == Done(c, "unknown") /\ UNCHANGED <<subject, tree, remote, exec, results, env>>
Works(c, x, at) == call[c].what = x /\ call[c].at = at

Take(c) ==
    /\ Works(c, "publish", "take")
    /\ IF Leased THEN /\ lock' = [lock EXCEPT !.lease = c] /\ Go(c, "validate")
                      /\ UNCHANGED <<subject, record, tree, remote, exec, results, env>>
       ELSE Unknown(c)

Validate(c) ==
    /\ Works(c, "publish", "validate")
    /\ IF At(Receipt) THEN Go(c, "push") /\ UNCHANGED <<subject, record, tree, remote, exec, results, lock, env>>
       ELSE Unknown(c)

IsOpen(i) == remote.pulls[i].state = "open"
Pushed(commits) ==
    [branch |-> commits,
     pulls |-> [i \in Known |-> IF IsOpen(i) THEN [remote.pulls[i] EXCEPT !.head = commits]
                                            ELSE remote.pulls[i]]]

(* The head of the worktree is pushed, and never over another.  Only the   *)
(* bootstrap is compared with its plan once more.                          *)
MayPush == /\ ~tree.dirty /\ tree.commits # <<>>
           /\ subject = "bootstrap" => tree.commits = Receipt
           /\ Len(remote.branch) <= Len(tree.commits)
           /\ SubSeq(tree.commits, 1, Len(remote.branch)) = remote.branch

Push(c) ==
    /\ Works(c, "publish", "push")
    /\ IF MayPush
       THEN /\ remote' = Pushed(tree.commits)
            /\ call' = [call EXCEPT ![c].at = "propose", ![c].head = tree.commits]
            /\ UNCHANGED <<subject, record, tree, exec, results, lock, env>>
       ELSE Unknown(c)

Pull(head) == [head |-> head, state |-> "open", approved |-> <<>>]

(* The open pull request of the branch, or a new one.                      *)
Propose(c) ==
    /\ Works(c, "publish", "propose")
    /\ LET open == {i \in Known : IsOpen(i)}
           new == Append(remote.pulls, Pull(remote.branch)) IN
       /\ remote' = IF open # {} THEN remote ELSE [remote EXCEPT !.pulls = new]
       /\ IF remote.branch = call[c].head /\ call[c].waits
          THEN Go(c, "inspect") /\ UNCHANGED <<record, lock>>
          ELSE Done(c, "unknown")
    /\ UNCHANGED <<subject, tree, exec, results, env>>

Inspect(c) ==
    /\ Works(c, "publish", "inspect")
    /\ LET ready == Newest # 0 /\ IsOpen(Newest) /\ remote.pulls[Newest].head = Receipt IN
       Write([record.attempts EXCEPT
                 ![Count].pull = Newest,
                 ![Count].control["publish"] = IF ready THEN "succeeded" ELSE "unknown"])
    /\ End(c)
    /\ UNCHANGED <<subject, tree, remote, exec, results, env>>

-----------------------------------------------------------------------------
(* exactReview: the pull request is open at the receipt, and the worktree  *)
(* passes the validation of its owner at that head.                        *)
ExactReview == Ours /\ IsOpen(Newest) /\ At(Receipt)
Approved == remote.pulls[Newest].approved = remote.pulls[Newest].head

LookReview(c) ==
    /\ Works(c, "review", "look")
    /\ IF ExactReview THEN Go(c, "approve") /\ UNCHANGED <<subject, record, tree, remote, exec, results, lock, env>>
       ELSE Unknown(c)

(* The approval is of the head that the pull request has then.             *)
Approve(c) ==
    /\ Works(c, "review", "approve")
    /\ LET i == Current.pull IN
       IF IsOpen(i)
       THEN /\ remote' = [remote EXCEPT !.pulls[i].approved = remote.pulls[i].head]
            /\ Go(c, "readback")
            /\ UNCHANGED <<subject, record, tree, exec, results, lock, env>>
       ELSE Unknown(c)

ReadReview(c) ==
    /\ Works(c, "review", "readback")
    /\ Done(c, IF Ours /\ IsOpen(Newest) /\ Approved THEN "succeeded" ELSE "unknown")
    /\ UNCHANGED <<subject, tree, remote, exec, results, env>>

IsMerged == Ours /\ remote.pulls[Newest].state \in {"merged", "merged by hand"}

Mergeable == ExactReview /\ Approved

LookMerge(c) ==
    /\ Works(c, "merge", "look")
    /\ IF IsMerged THEN Done(c, "succeeded")
       ELSE IF Mergeable THEN Go(c, "merge") /\ UNCHANGED <<record, lock>>
       ELSE Done(c, "unknown")
    /\ UNCHANGED <<subject, tree, remote, exec, results, env>>

(* The provider merges the head it was given, and no other.                *)
Merge(c) ==
    /\ Works(c, "merge", "merge")
    /\ LET ready == Mergeable IN
       /\ remote' = IF ready THEN [remote EXCEPT !.pulls[Newest].state = "merged"] ELSE remote
       /\ IF ready /\ call[c].waits THEN Go(c, "readback") /\ UNCHANGED <<record, lock>>
          ELSE Done(c, "unknown")
    /\ UNCHANGED <<subject, tree, exec, results, env>>

ReadMerge(c) ==
    /\ Works(c, "merge", "readback")
    /\ Done(c, IF IsMerged THEN "succeeded" ELSE "unknown")
    /\ UNCHANGED <<subject, tree, remote, exec, results, env>>

-----------------------------------------------------------------------------
(* The stop of the credential waits for no lease: it is refused.           *)
Revoke(c, next) ==
    IF lock.lease = None
    THEN /\ record' = [record EXCEPT !.stopped = TRUE] /\ Go(c, next)
         /\ UNCHANGED <<subject, tree, remote, exec, results, lock, env>>
    ELSE Unknown(c)

StopCredential(c) == Works(c, "close", "stop") /\ Revoke(c, "retire")

(* What an executor had prepared in a worktree that goes is not committed. *)
Abandon == exec' = [c \in Calls |-> IF exec[c].at = "prepared" THEN [exec[c] EXCEPT !.at = "failed"]
                                    ELSE exec[c]]

(* The worktree and the branch of a merged pull request go; a worktree     *)
(* with changes or another head, and a branch that went on, are kept.      *)
Retire(c) ==
    /\ Works(c, "close", "retire")
    /\ IF IsMerged /\ At(Receipt) /\ remote.branch \in {<<>>, Receipt}
       THEN /\ tree' = [tree EXCEPT !.commits = <<>>]
            /\ remote' = [remote EXCEPT !.branch = <<>>]
            /\ Abandon
            /\ Done(c, "succeeded")
            /\ UNCHANGED <<subject, results, env>>
       ELSE Unknown(c)

-----------------------------------------------------------------------------
(* cancelUnapplied: the request of a bootstrap is withdrawn.  The revision *)
(* of the source stays, so an acceptance is not stale by it.               *)
Withdrawn(state) == record' = [record EXCEPT !.withdrawn = state]

MayWithdraw(c) ==
    IF record.withdrawn = None THEN Seen(c) /\ State = "draft-ready"
    ELSE record.withdrawn \in {"pending", "unknown"}

Withdraw(c) ==
    /\ Free /\ MayWithdraw(c)
    /\ Enter(c, "withdraw", "revoke")
    /\ Withdrawn("pending")
    /\ UNCHANGED exec

(* Mutant: the credential is stopped under the lease of another call.      *)
MayStopAnyway == TRUE

MayStop == lock.lease = None

StopPreparation(c) ==
    /\ Works(c, "withdraw", "revoke")
    /\ IF MayStop
       THEN /\ record' = [record EXCEPT !.stopped = TRUE] /\ Go(c, "discard")
            /\ UNCHANGED lock
       ELSE Withdrawn("unknown") /\ End(c)
    /\ UNCHANGED <<subject, tree, remote, exec, results, env>>

(* Only source that nobody has worked on is thrown away.                   *)
Discard(c) ==
    /\ Works(c, "withdraw", "discard")
    /\ IF Pristine /\ remote = [branch |-> <<>>, pulls |-> <<>>]
       THEN Withdrawn("succeeded") /\ Abandon
       ELSE Withdrawn("unknown") /\ UNCHANGED exec
    /\ End(c)
    /\ UNCHANGED <<subject, tree, remote, results, env>>

-----------------------------------------------------------------------------
(* A call stops, and its locks are free; or it is told that its answer was *)
(* lost, and writes that.  What it asked of the executor goes on.          *)
AtExecutor == {"push", "propose", "approve", "readback", "merge"}
Goes(c) == call[c].at \in AtExecutor /\ call[c].what \in Controls

Leave(c) ==
    /\ call' = [call EXCEPT ![c] = IF Goes(c) THEN [@ EXCEPT !.waits = FALSE] ELSE Idle]
    /\ lock' = [l \in DOMAIN lock |-> IF lock[l] = c THEN None ELSE lock[l]]

Lose(c) ==
    /\ call[c].at # "idle" /\ call[c].waits /\ env.stops < MaxStops
    /\ env' = [env EXCEPT !.stops = @ + 1]
    /\ Leave(c)
    /\ UNCHANGED <<subject, tree, remote, exec, results>>

CallStops(c) == Lose(c) /\ UNCHANGED record
ControlLost(c) == Goes(c) /\ Lose(c) /\ SetControl(call[c].what, "unknown")

(* A call whose command is no longer admitted is refused.                  *)
Admitted(c) ==
    LET what == call[c].what IN
    \/ what = "generate" /\ (MayGenerate(c) \/ (State = "accepted" /\ subject = "prototype" /\ Leased))
    \/ what = "save" /\ MaySave(c)
    \/ what = "cancel" /\ Seen(c) /\ State \in Cancellable
    \/ what = "continue" /\ Accepts(c)
    \/ what = "recover" /\ Seen(c) /\ State \in {"applying", "apply-unknown"}
    \/ what = "withdraw" /\ MayWithdraw(c)

Refused(c) ==
    /\ call[c].at = "enter" /\ (~Free \/ ~Admitted(c))
    /\ Refuse(c)

-----------------------------------------------------------------------------
(* What people do to the worktree, the branch and the pull requests.       *)
ByHand == /\ env.hands < MaxHands
          /\ env' = [env EXCEPT !.hands = @ + 1]
          /\ UNCHANGED <<subject, record, exec, results, lock, call>>

HandCommit == ByHand /\ tree' = [tree EXCEPT !.commits = Append(@, Hand)] /\ UNCHANGED remote
HandEdit == ByHand /\ tree' = [tree EXCEPT !.dirty = ~@] /\ UNCHANGED remote
HandReset == ByHand /\ tree' = [commits |-> <<>>, dirty |-> FALSE] /\ UNCHANGED remote
HandPush == ByHand /\ remote.branch # <<>> /\ remote' = Pushed(Append(remote.branch, Hand)) /\ UNCHANGED tree

HandPull ==
    /\ ByHand
    /\ \E i \in Known :
          /\ IsOpen(i)
          /\ \/ \E state \in {"closed", "merged by hand"} : remote' = [remote EXCEPT !.pulls[i].state = state]
             \/ remote' = [remote EXCEPT !.pulls[i].approved = remote.pulls[i].head]
    /\ UNCHANGED tree

-----------------------------------------------------------------------------
Next ==
    \/ \E c \in Calls :
          \/ \E what \in {"generate", "save", "continue", "cancel", "withdraw", "recover"} : Ask(c, what)
          \/ Lease(c) \/ Generate(c) \/ Resume(c) \/ Generated(c)
          \/ EnterSave(c) \/ Save(c) \/ CannotSave(c) \/ Cancel(c)
          \/ Continue(c) \/ Recover(c) \/ Applied(c) \/ AnswerLost(c)
          \/ Look(c) \/ CommitDraft(c) \/ PutBack(c) \/ CutShort(c) \/ Forgotten(c)
          \/ \E x \in Controls : EnterControl(c, x)
          \/ Take(c) \/ Validate(c) \/ Push(c) \/ Propose(c) \/ Inspect(c)
          \/ LookReview(c) \/ Approve(c) \/ ReadReview(c)
          \/ LookMerge(c) \/ Merge(c) \/ ReadMerge(c)
          \/ StopCredential(c) \/ Retire(c)
          \/ Withdraw(c) \/ StopPreparation(c) \/ Discard(c)
          \/ CallStops(c) \/ ControlLost(c) \/ Refused(c)
    \/ HandCommit \/ HandEdit \/ HandReset \/ HandPush \/ HandPull

Spec == Init /\ [][Next]_vars

-----------------------------------------------------------------------------
Made == {x \in ChangeSets : HasCommitted(x)}
Live == {"applying", "apply-unknown", "source-created"}

(* What the service commits was accepted, by its digest, in an attempt     *)
(* that is neither cancelled nor failed, and a commit is made once.  When  *)
(* the withdrawal of a request has succeeded, no call waits for its source *)
(* to be applied, whatever was lost before; and nothing is committed for   *)
(* it, unless a call was lost: then its executor may still make the        *)
(* worktree again and commit.                                              *)
CommitsWereAccepted ==
    /\ \A x \in Made :
          /\ \E i \in DOMAIN record.attempts :
                record.attempts[i].accepted = x /\ record.attempts[i].draft = x
                    /\ record.attempts[i].state \in Live
          /\ Cardinality({i \in DOMAIN tree.commits : tree.commits[i] = x}) = 1
    /\ record.withdrawn = "succeeded" =>
          /\ \A c \in Calls : call[c].at # "applying"
          /\ env.stops = 0 => Made = {}

(* Source that is recorded as created ends in the commit of the draft; and *)
(* what the service merged, or recorded as merged, is that source.         *)
CreatedIsTheDraft ==
    \A i \in DOMAIN record.attempts :
        LET attempt == record.attempts[i] IN
        attempt.state = "source-created" =>
            /\ attempt.receipt # <<>> /\ attempt.receipt[Len(attempt.receipt)] = attempt.draft
            /\ attempt.draft = attempt.accepted
            /\ \A p \in Known :
                  \/ remote.pulls[p].state = "merged"
                  \/ attempt.control["merge"] = "succeeded" /\ p = attempt.pull
                  => remote.pulls[p].head = attempt.receipt

(* A save replaces only what its operator had read.                        *)
SavesReplaceWhatWasRead ==
    \A i \in DOMAIN record.saves : record.saves[i].read = record.saves[i].over
=============================================================================

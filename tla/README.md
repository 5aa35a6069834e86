# A verification project for the operator orchestration service

TLA+ models of the service in `src/`, checked with TLC on small instances and,
where that is possible, proved with TLAPS for every instance. `PROJECT.json`
lists the components, the runs, the mutants that show that each property can
fail, the source lines that each definition stands for, the hazards and the
theorems.

Contents: [1 the system](#1-the-system), [2 the modules](#2-the-modules),
[3 the runs](#3-the-runs), [4 fairness](#4-fairness), [5 proofs](#5-proofs),
[6 where code and documentation differ](#6-where-code-and-documentation-differ),
[7 plan](#7-plan), [8 not modelled](#8-not-modelled).

## 1. The system

The service coordinates operators and owner systems. It owns little business
data: OpenProject, Git hosts, the governance service (WGCF), the Platform and
Temporal do. What it owns is *ordering*: which effect was asked for, whether it
was applied, and what may happen next. It keeps that in three ways.

- **Temporal workflows** (`orchestration/`, `refinement/`): code that is replayed
  from a durable history, controlled by signals and observed by queries.
- **Journals of private files** (`*/store.js`, `persistence/`, the work sessions of
  `delivery-art/`): a record per request, rewritten under a lock before and after
  an external effect.
- **Records in OpenProject** (`openproject-client.js` and the services over it):
  read, patched with a lock version, and read again.

### Inventory

| Component | State | Operations | What is hard | What makes it correct | Status |
|---|---|---|---|---|---|
| Run projection (`orchestration/run-projection.js`) | the aggregate record of a run: state, attempts, receipts, controls, availability | one pure function per transition; each passes `assertRunProjection` | windows that roll over, copied availability, outcomes that must match | every reachable projection is accepted; the history is complete | modelled, proved |
| Validation-readiness workflow (`workflows.js`) | pending controls, accepted keys, active activity scope, projection | signal handler, execution loop, control loop, close | signals that interleave with the activity; cancellation that waits; controls that go stale in the queue | cancel is never lost; bounded attempts, each asked for; closed means terminal | partly, proved |
| Run control API (`service.js`, `temporal-adapter.js`) | none; a call reads, signals, reads back | `startRun`, `getRun`, `controlRun` | lost answers, races of operators, reads before the effect | a success stays true; one key applies once | partly, proved |
| Generation start registry (`generation-start-registry.js`) | the run ids of an activation generation, the seal | register, seal | updates handled after the drain; capacity; two seals | it names every run that starts; its seal is final | modelled, proved |
| Generation retirement (`worker.js`, `generation-retirement.js`) | a process that may die at any step; a pinned manifest that expires | authorize, seal, reconcile, signal, drain, issue a receipt | crashes, refreshed manifests, runs of other generations | the receipt accounts for the generation and stays true | partly, proved |
| Controlled proof (`controlled-proof-*.js`, `workflows.js`) | one run per authorization and scenario, mounted contexts, evidence | start, scenario controls, receipt | an outcome and a cancel in one task; an authorization that expires | a scenario passes only on its own evidence | partly, safety proved |
| Private file transactions, saved work (`persistence/`, `saved-work/`) | files and locks; revisions of a draft | save, preserve, read | a crash between two writes, two sessions | no acknowledged save is lost; recovery copies are complete | modelled, proved |
| Refinement (`refinement/`) | a run that applies an accepted draft | apply each operation, read back, persist a receipt | attempts that go on after their timeout, partial application | a receipt only for what was read back | partly, proved |
| Repository custody (`repository-custody/`) | a record per request | create, link, correct, read back, recover | crash after the provider call, lost answers, the lock file | one repository per request; nobody else's is taken or changed | partly, proved |
| Repository lifecycle, owner bootstrap | an aggregate and a journal | archive at the provider, change of the workspace record; scaffold and publish | two records written one after the other | history and provider agree | partly, proved |
| Lifecycle transitions | one journal file under a child-held lock | create, supersede, append | the lock lost in mid-transaction; events that withdraw earlier ones | applied is earned; stops are explained; no acknowledged event is lost | modelled, proved |
| Product publication, platform operations | leases and preparations of a source credential | issue, renew, revoke, publish | a stop between check and effect; lost answers | no effect after a stop | partly, safety proved |
| Model operations, profile requests | records with revisions | configure, sign in, cancel | late readbacks, restarts | the outcome is the owner's | partly, safety proved |
| Agent actions, activity views | none of their own | enforce a pinned policy, list | - | - | not modelled |
| Proposal workflow, target application | a record and its activity comments in OpenProject; a journal | submit, review, decide, hand off, apply | mutation and event are two writes; repairs | the history tells the commits | modelled, proved |
| Work design, delivery change, closeout | acceptance and result comments of a package | accept, dispatch, report | a stop between acceptance and result; overlapping commands | an owner is asked once; results are true | partly, proved |
| Delivery ART (`delivery-art/`) | work sessions, commands, architecture, review packets, cleanup manifests | start, refresh, recover, command, land, close | stale locks, crashes in mid-step, people working in the same worktree | effects begin once; readiness is of the packet; nobody's work is removed | partly, commands, landing and cleanup proved |
| Prototype landing, maturity, closure | journals over an owner's repository | prepare, publish, review, finish | partial effects, pull requests merged by hand | success is a reviewed merge | partly, proved |
| Workspace intake and inventory | journals over the governance repository | intake, promote, change | as the prototypes | as the prototypes | partly, proved |
| Source authoring | attempts, drafts, commits | draft, accept, execute, publish, cancel | an executor that goes on after its caller; hand edits | committed source is the accepted draft | partly, proved |
| Ideas and deliveries over OpenProject (`openproject-client.js`) | work packages, relations, comments | create, update, plan, move, complete, review | lost updates, creates repeated after a lost answer, paged reads | no update is lost; one delivery; plans that are answered are there | partly, ideas, items and board proved |
| Catalog | an entry of the package | update; list | as the package commands | as the package commands | partly, proved |
| Activation evidence, definition catalog | pinned files | resolve, check | expiry | pure checks | not modelled |
| HTTP application, configuration, CLIs | none | route, authenticate, compose | none of their own | - | not modelled |

How they interact: `app.js` authenticates a request and calls one service. The
orchestration service talks to Temporal through its adapter; workers
(`worker.js`) poll Temporal and run the workflow code, which calls WGCF as an
activity. The other services write their journal, call an owner client, read
the owner back, and write the journal again. The Platform stops replicas and
workers and pins evidence files; the service only checks what they attest.
OpenProject, Git hosts and Temporal are modelled as far as the code relies on
them, and marked external in the map.

## 2. The modules

| Module | What it is |
|---|---|
| `RunProjection` | the pure transitions of a projection and `assertRunProjection` as operators |
| `ValidationReadinessRun` | the workflow `validationReadinessRunV1`, its signal handler and its activity; extends `RunProjection` |
| `RunLifecycle` | the abstract specification of a durable run: what an operator may rely on |
| `RunControlApi` | operators calling `controlRun`; extends the workflow |
| `GenerationRetirement` | start registration, the registry workflow, the retirement process, the Platform around them |
| `ControlledProof` | the second workflow with its scenarios, contexts, worker, evidence and receipt |
| `RefinementRun` | preparation, start and run of an accepted refinement draft against other editors |
| `RequestLock` | the lock file of one request, as system calls of several processes |
| `RepositoryCustody` | a custody request from submission to result: calls, journal, provider |
| `RepositoryLifecycle` | archive and workspace record of a repository in custody: aggregate, request records, provider |
| `OwnerReview` | what the workflows over an owner's repository share: journal, lock, branch, pull request; extended by `WorkspaceIntake`, `InventoryChange`, `PrototypeLanding`, `PrototypeMaturity`, `PrototypeClosure`, `ProposalTarget` |
| `SourceCredential` | preparation, leases, renewal and revocation of a source credential, and the effects made with it |
| `ModelOperations` | a request to the model platform and the process that dispatches it |
| `LifecycleTransition` | the projection of a lifecycle transition, event by event |
| `TransitionJournal` | the journal file of the transitions, its lock process, its save |
| `SavedWork` | a saved draft, its recovery copies and their index, file by file |
| `SessionCommands` | the commands of a work session, their records, locks and revisions |
| `SessionArchitecture` | the architecture packet of a session: refresh, reconstruction, recovery, succession |
| `SessionCleanup` | the retirement of a session's worktree and branches |
| `DeliveryLifecycle` | one Landing Unit from its drafted work start to its finalized merge |
| `SourceRealization` | drafts, acceptance, executor, publication, cancellation of authored source, and the bootstrap of an owner |
| `ProposalWorkflow` | one Proposal in OpenProject: commands, gate, hand-off, events and their repair |
| `WorkPackage` | read, patch with a lock version, replay after a conflict; extended by `IdeaRecord` and `DeliveryItem` |
| `DeliveryPlan` | the plan of a Delivery, the creation of an item, the planning repair |
| `DeliveryBoard` | dependencies, roadmap, quality pack and gates, which read page by page |
| `PackageCommands` | accepted commands on a package: change, closeout, Work Design, Catalog |
| `MC*` | instances for TLC; `MCSessions`, `MCOwners`, `MCRecords` and `MCProgress` compose several modules |
| `RunProofs` | theorems about the run and its API |
| `GenerationRetirementProofs` | theorems about registration, seal and receipt |
| `OwnersProofs` | theorems about `MCOwners`: custody, reviews, credential, lifecycle, model, controlled proof |
| `SessionsProofs` | theorems about `MCSessions`: journal of transitions, saved work, commands, cleanup, landing, board |
| `SourceRealizationProofs` | theorems about authored source |
| `PackageCommandsProofs` | theorems about the commands on a package |
| `RecordsProofs` | theorems about `MCRecords`: transitions, refinements, ideas, items, proposals, packages |
| `RequestLock` | has its theorems at its end |

Throughout, an action is one passage of the code from one place where it gives
way (an await, a system call, the end of a Temporal activation) to the next,
with everything it does on the way. What others may do meanwhile is in actions
of their own.

### ValidationReadinessRun

Workflow code is single-threaded. `pc` names the places: the three awaits
(`start`, `activity`, `controls`) and the places inside one activation (`loop`,
`settled`, `take`), where neither a signal is handled nor a query answered.
`ApplyQueuedCancel`, for example, splices the queue, records the control,
cancels the run and returns.

| Code | Model |
|---|---|
| `pendingControls`, `queuedControlKeys`, `generationRetirementControlQueued` | `pending`, `queuedKeys`, `retirementQueued` |
| `activeActivityScope` and the activity in Temporal | `activity`: idle, executing, returned; tries; cancellation requested; outcome |
| signal handler, `enqueueRunControl` | `HandleSignal` = `EnqueueRetirementControl`, `EnqueueOperatorControl` or `IgnoreControl` |
| expiry check before the loop | `Begin`, on `approvalExpired`, chosen in `Init` |
| head of the loop | `LoopHead` = cancel, start an attempt, or finish |
| the `try` around the activity | `ActivitySettles` with `SettledProjection` |
| after the activity | `AfterActivity` with `CloseOrHold` |
| control loop, `takeAvailableRunControl` | `TakeControl`, `WakeForControl` |

Temporal is external and modelled by how the code uses it: signals wait in
`inbox` until the next activation; all signals of an activation are handled
before the code they unblock goes on (`inbox = << >>` in the resuming steps); a
run is not closed over an undelivered signal; the activity is tried up to
`MaxTries` times, and a cancelled one is still awaited
(`WAIT_CANCELLATION_COMPLETED`). The order in which the first activation handles
a signal that came with the start depends on the SDK, so the model has both.

Abstracted: timestamps are "set or not"; an owner receipt is an id and a digest;
`artifact_refs` follow `receipt_refs` and are left out; the events window is the
number of its last event; the non-ready statuses of the owner are one. Two
branches of the code cannot be reached: `finishExhaustedRun` at the head of the
loop, and the outcome `failed-with-retained-evidence`.

### RunControlApi

A call has three steps: `Admit` reads the projection and tests availability,
`SignalRun` or `SignalFails` sends, `ReadBack` reads and answers. Everything else
happens in between. `Readable` says when a query is answered: once the worker has
caught up with the history, so never in mid-activation; a closed run is read from
its result. Runs that Temporal itself closes (failed, terminated) are not
modelled.

### GenerationRetirement

A registration has three parts, sent (`RequestRegistration`), handled
(`HandleRegistration`) and used (`StartRun`), and the replica may die between any
two. `HandleSeal` is the seal update with its validator at the time of handling.
The retirement process is `retire.at`: one action per external call or
re-authorization; `RetireFails` stands for each failed check, lost connection and
crash. The Platform's promise is `ManifestMayIssue`: it attests a drained ingress
and a stopped ordinary worker, and these stay so. That monotone drain stands for
the freshness (300 s) and lifetime (900 s) checks. Reading a run's state and
signalling it are one step because no worker polls the run between the two.
Signing, parsing and the digests of manifests are a manifest number.

### ControlledProof and RefinementRun

`ControlledProof` has one run per authorization and scenario, whichever context
names it. `Tick` lets the authorization expire; `WorkerStarts` and its context say
whether anybody polls; `WorkflowTask` handles the signals Temporal holds and then
goes from the current await to the next; the callers start, control and ask for
the receipt. The checks of evidence files are one verdict each. Each attempt takes
at most two controls of the 16 that a projection has room for
(`controlled-proof-run-projection.js:646`), so `MaxProofAttempts` is at most 8; the
code has 3 attempts, and the instance 2.

`RefinementRun` keeps the canonical tree per cell (an operation and its target),
because a receipt is about the values that were read back. Every read of the tree,
by the service for a request (`ReadForRequest`) and by an activity (`ReadPage`), goes
page after page as `listProjectWorkPackages` does, with writes of others between
two pages, and ends when it has found as many items as the list then has
(`Complete`); so what a packet or a read back says of the tree may never have held
together. An activity attempt that timed out stays in `attempts` and may still
write (`MaxStrays` of them); other clients edit; the service starts, and Temporal
retries, as the code configures them. `held` is history: the cells that had their
accepted value after the last operation was done.

### RequestLock

One action per system call of `withRequestLock`. Calls of one process cannot run
between two of them (`MayRun`), calls of other processes can. `file.by` is whose
`open` created the file, that is, its inode: a pid written to a file that was
unlinked meanwhile is lost. Processes stop at any point and start again under any
free pid. `repository-lifecycle/store.js` holds the same lock.

### RepositoryCustody

| Code | Model |
|---|---|
| record files, `persist` | `store`, `Persist` |
| one `execute` and the place where it awaits | `calls[c].at`; `Locked` is the request lock |
| `execute` up to the readiness call | `Begin`; refusals and replays change nothing |
| readiness answers | `ReadinessFails`, `ReadinessDenies`, `ReadinessAllows...` |
| `linkExisting` | `Link` |
| `provision`: first lookup, recovery, create | `Probe`, `Recover`, `SendCreate`, `CreateAcknowledged`, `CreateUnknown`, `CreateRefused` |
| `completeApprovedBaseline` | `Complete`, `ApplySettings`, `Reread`, `Judge` |
| GitHub | `repos`, `inflight`, `CreateLands`, `OthersCreate`, `OthersChange` |

A create is sent, takes effect and is answered in three steps, each of which may
be the last. Content is the approved settings, one value standing for target,
settings, custody and operator; all creations are for one name. The failure
classes are the two the code tells apart: 5xx (`retryable`) and anything else
(`refused`). A settings change that takes effect after its caller gave up is not
modelled; it would write the approved settings once more.

### OwnerReview and the workflows over it

Seven workflows change an owner's repository in the same way: they keep a record
in a journal under a lock, publish one branch and pull request, and wait for a
person to merge or close it. `OwnerReview` has the record (`journal`), the owner's
repository (`source`), the lock and the call that works on a copy. The modules
that extend it give the operations each workflow adds: `WorkspaceIntake`
(evaluate, prepare, finish), `InventoryChange` (promotion, lifecycle action,
staleness), `PrototypeLanding` (readiness that expires), `PrototypeMaturity`
(decisions that publish nothing), `PrototypeClosure` (readback and disposition
after the merge), `ProposalTarget` (restart under a newer authority). A call
that lost the child process which holds its lock goes on until its next write, as
the code does. A pull request that was closed stays closed: that somebody reopens
it by hand is not modelled.

`RepositoryLifecycle` has the aggregate and the request record as two writes with
a possible stop between them. A request to archive is composed for an active
repository only (`Composable`), which is the contract's condition on
`current_state`. Without it the archive of an archived repository would leave the
baseline as it was, and a request that stopped before its last write could succeed
twice; the proof of `SuccessIsTheOwners` met this and a larger instance confirmed it.
Unarchiving is the archive in the other direction and is
not modelled. `SourceCredential` and `ModelOperations` keep the
record, the lock and what the platform was asked apart, because the code holds no
lock while it asks.

### The journal of transitions

`LifecycleTransition` is the fold of `applyEvent` over the events of a transition,
kept up to date, with `assertEventTransition` as its guard and `nextAction` as
`NextOwner`. What a stop leaves (gate, correction, deferral, rejection, decision)
carries the sequence of its event, so that a property can tell it from what an
earlier stop left. `TransitionJournal` is the file: lock, read, write, with the death of
the lock process in between. The first says what an event means, the second that
it stays.

### Sessions

`SavedWork` has one action per rename. `SessionCommands` has the record of a
command, the four locks a command takes in order, and the fact that a lock is a
directory that goes stale when its owner stops or is busy for too long.
`SessionArchitecture` and `SessionCleanup` have one action per durable write of
the controller, with a stop possible after each, and developers who commit, push
and merge meanwhile. `DeliveryLifecycle` is the controller's derivation of the
next action (`Controller`) over the files, the checkout, the pull request and the
ART scope, each of which may change between the look and the act.
`SourceRealization` has the drafts of an attempt, the executor as a process that
outlives its caller, and the review; `subject` selects delivery, prototype or the
bootstrap of an owner.

### OpenProject

`WorkPackage` is the shared part: a call reads, builds a PATCH and sends it with
the lock version of the read; a refused PATCH is sent once more with a fresh
version and the old values. `IdeaRecord` and `DeliveryItem` add the fields of each
operation. Notes and texts are the calls that made them, which is what a lost
update is about. `DeliveryPlan` makes, places and fills work packages in separate
requests, any of which may fail or lose its answer. `DeliveryBoard` has readers
that take the items page by page. `ProposalWorkflow` has the commands, the resolution of
the repository gate, the application to Delivery and the acknowledgement of one to
a Prototype; its workflow state keeps the last `ReceiptWindow` receipts, as
`state.js` keeps eight. `ProposalWorkflow` and `PackageCommands` have a
record and a sequence of comments; a command is a mutation and a comment, in the
order of the code.

## 3. The runs

Deadlock checking is off in all configurations: a closed run, a finished
retirement or a set of terminal requests stops, as the code does.

| Run | Question |
|---|---|
| `run_safety` | Does a run keep its history, its authority and its final outcome in every order of controls and outcomes, and does it implement `RunLifecycle`? |
| `api_safety` | Is what operators were told of a control true? |
| `progress` | Does what has begun end? |
| `retirement_safety` | Does a retirement receipt account for its generation? |
| `sessions` | Do the stores that share a directory keep what they acknowledged, and a session what others made? |
| `owners` | Does a request that changes what an owner keeps end as its record says? |
| `records` | Do the records of the workflows agree with what was done? |
| `run_burned_keys`, `custody_collision`, `proposal_routed`, `cleanup_repeated`, `lifecycle_stuck` | statements of the documentation that the code does not keep, section 6 |

`api_safety` and `progress` are both of `MCProgress`: the first of its API alone
(`ApiOnly`), the second of all its kinds. In `sessions`, `owners`, `records` and
`progress` a variable `kind` says which module a behaviour is about; the other variables stay as they are. The state
spaces of the kinds add up and are not multiplied, since kinds do not share state
in the code either.

### Bounds

- `run_safety`: two attempts; windows of 4 controls and 12 events, exactly what
  `2 * MaxAttempts` and `5 * MaxAttempts + 2` allow, so that one control or event
  more would roll a window over; two digests of one receipt id, so that receipts
  may conflict across attempts; six controls of all kinds, two with a shared key,
  and retirement; four signals, enough for a defer, a resume, a rival and a cancel
  in one behaviour; two automatic tries. The code's own bounds (3 attempts, 16
  controls, 32 events) leave the windows slack; the proofs cover them.
- `api_safety`: three operators, two of whom share an idempotency key, two calls
  each, three signals, retirement.
- `progress`: three operators with one call each and two tries; two runs under one
  manifest; one draft of one item; one context and two scenarios.
- `retirement_safety`: three run ids over a registry of two, so that capacity
  bites; two manifests, so that one may expire and be resumed by the next;
  symmetric in the run ids.
- `owners`: two calls over each request. Custody has a creation, a linkage and a
  correction, which is also submitted with other content; two repository ids, so
  that somebody else may take the name before or after the service; two attempts,
  so that a create may be retried while the first is still in flight. One stop of a
  process, one move of the owner's main line, one renewal of a lease, one restart of
  the model service: the second of each meets the same code in the same states. Two
  contexts of one authorization and five scenarios for the controlled proof.
- `records`: two transitions, one with up to eight events, which is the shortest
  history with a block, a second validation and an application after it, and one
  with up to three, enough to be superseded in every live state; two writers, two
  commands, one resolution and one hand-off on a Proposal with five versions, so
  that a repair follows a later command, and a window of two receipts, so that a
  third command drops one; three calls on an idea or item, so that one write falls
  between the read and the PATCH of another and a third observes; plans of three
  wishes (complete, partial, retiring) over two trees, one move and one failure; two
  attempts of an activity, one edit by others, and one attempt that goes on after
  its time. A read of one item is two pages, of the item and of the root, and an
  edit may fall between them.
- `sessions`: three calls of one process over the request lock; two writers of the
  journal and two requests under one idempotency key; two browser sessions and four
  saves; two processes, two callers, two commands on two items with one takeover
  of a lock; two commits and one crash in cleanup; two versions of an architecture
  and three revisions of a manifest, so that a refresh can be interrupted and
  repeated; two attempts of a draft with five revisions of its record; two heads of
  a landing branch; one disturbance by others for each.

### Properties

| Hazard | Property |
|---|---|
| a cancel loses to a result | `CancelNeverLost`, `RetirementClosesTheRun` |
| an attempt nobody asked for | `AttemptsAuthorized` |
| a projection is refused and the run is stuck | `ProjectionAlwaysAccepted` |
| a window drops history | `HistoryIsComplete`, `SuccessIsRetained` |
| evidence is lost or contradicts itself | `ReceiptsBoundToOneDigest`, `KeepsPromise` |
| an answer misleads an operator | `SuccessIsRetained`, `NotAppliedOnClosedRunIsFinal`, `KeyAppliesOnce` |
| something never ends | `CancelClosesTheRun`, `CallsAreAnswered`, `DrainEnds`, `RunsEnd` |
| a receipt omits or misstates a run | `StartedRunsAreRegistered`, `ReceiptIsSound`, `ReceiptCitesItsSeal` |
| a repository is created, lost to a crash or a lost answer, and created again | `EffectsAreJournalled`, `NoCreateAfterAcknowledgement` |
| a repository of others is taken for the created one, or changed | `AcknowledgedIsOwn`, `OthersKeepTheirSettings` |
| a record says success where the owner has none, or the reverse | `SuccessIsTheOwners`, `EndedLeavesNothingOpen`, `StopIsKept` |
| two calls work on one request | `MutualExclusion`, `HolderKeepsItsLock` |
| an acknowledged event or save is gone | `AcknowledgedEventsSurvive`, `AcknowledgedSavesSurvive`, `RecoveryIsComplete` |
| an effect begins twice, or a withdrawn draft is committed | `EffectsBeginOnce` |
| cleanup removes what somebody else made | `CleanupKeepsOthersWork`, `SessionLeavesItsReceipt` |
| a merge, a gate or a done item rests on something older than it names | `ReadinessIsOfThePacket` |
| an applied or stopped transition whose reasons were withdrawn | `AppliedIsEarned`, `StopIsExplained` |
| comments and record tell different histories | `HistoryTellsTheCommits` |
| two clients patch one work package | `NoUpdateIsLost`, `DeliveryKeepsItsWork` |
| a create repeated after a lost answer | `OneDelivery`, `DeliveryKeepsItsWork` |
| a receipt of a refinement that was not applied | `CompletionIsReadBack` |

A property of a composing module such as `ReadinessIsOfThePacket` asks the same
question of several components and is a conjunction with one part for each kind;
the parts are stated, with the lines of the code and documents they come from,
in the component's module.

### The abstract run

`RunLifecycle` has four variables and says: at most `MaxAttempts` executions, one
at a time, each from a queued or held run; evidence grows only during an
execution; one final outcome that claims no more than the evidence supports.
`KeepsPromise` maps the workflow to it. `settled` still counts as executing:
nobody can see the projection between the activity's end and the end of that
activation.

## 4. Fairness

`Fairness` of a run is weak fairness of the workflow code (a worker polls: the
deployment runs one while a generation is active, and retirement runs one to
drain) and of the activity's return (`startToCloseTimeout` and `maximumAttempts`
bound it). No operator is assumed to act. The API adds weak fairness of the read
back, which the calling code performs without waiting for anyone. Retirement adds
the process going on until it dies, and each signalled run closing while polled,
which is `CancelClosesTheRun` of the run. A refinement run is fair in its
activation and in the end of its attempts, which Temporal bounds. A controlled
proof is fair in time, its worker, its tasks and its activities, and is promised
to end only when a context stays mounted. `cleanup_repeated` has an operator who
repeats a close and a process that goes on with it, so that its counterexample is
about the code and not about somebody who stopped. A custody call is fair because
every request it waits for is answered or fails with its connection (the requests
set no timeout of their own; the HTTP client's defaults bound them).

## 5. Proofs

Every theorem below is for all values of the constants that satisfy the named
assumptions. Where a theorem states a property of a run, the run shows it on one
instance and the theorem on all of them.

| Module | Theorem | What it says | Property of a run |
|---|---|---|---|
| `RunProofs` | `TypeCorrect`, `InductiveInvariant` | types; `IInv` | |
| | `AlwaysAccepted` | `assertRunProjection` accepts every published projection | `ProjectionAlwaysAccepted` |
| | `CapacityRemains` | the head of the loop always finds an attempt | |
| | `ClosedIsTerminal` | a closed run is terminal | |
| | `CancelDecides` | an accepted cancel decides the outcome | `CancelNeverLost` |
| | `AvailabilityStaysCurrent` | published availability is never stale where it is read | |
| | `WindowsSuffice` | the windows never drop an element | `HistoryIsComplete` |
| | `HistoryInvariant`, `AttemptsAreAuthorized` | each further attempt has a control of its own | `AttemptsAuthorized` |
| | `RetirementCloses` | retirement ends the run and is cited last | `RetirementClosesTheRun` |
| | `EvidenceInvariant`, `ReceiptsAreBound` | one digest per receipt id over all attempts | `ReceiptsBoundToOneDigest` |
| | `PromiseIsKept` | the workflow implements `RunLifecycle` | `KeepsPromise` |
| | `ApiRunsTheRun` | a behaviour of the API is one of the run | |
| | `RepliesAreTrue`, `SuccessStays` | an answered success stays in the history | `SuccessIsRetained` |
| | `NotAppliedStays` | "not applied" of a closed run is final | `NotAppliedOnClosedRunIsFinal` |
| | `OneControlPerKey` | one of several controls under a key applies | `KeyAppliesOnce` |
| `GenerationRetirementProofs` | `RetirementInvariant`, `RetirementTypes` | the invariant; registries and counts stay finite | |
| | `RegistryNamesEveryRun` | a started run is registered | `StartedRunsAreRegistered` |
| | `ReceiptAccountsForAll` | a receipt accounts for every run and stays true | `ReceiptIsSound` |
| | `ReceiptCitesSeal`, `SealIsFinal` | a receipt cites the seal, and a seal never changes | `ReceiptCitesItsSeal` |
| `OwnersProofs` | `CustodyInvariant`, `RecordsAreTyped` | the invariant; the shape `validateStored` demands | |
| | `JournalKnowsTheEffects` | no created repository without a journalled command | `EffectsAreJournalled` |
| | `AcknowledgedIsOfTheLineage` | an acknowledged id is of the request or of what it corrects | `AcknowledgedIsOwn` |
| | `NothingIsCreatedTwice` | no create after an acknowledgement | `NoCreateAfterAcknowledgement` |
| | `SettingsOfOthersAreKept` | others' settings change only over a lost name | `OthersKeepTheirSettings` |
| | `OwnerInvariant` | the invariant of reviews, credential, lifecycle, model and controlled proof | |
| | `SuccessesAreTheOwners` | what a record calls a success is one at its owner | `SuccessIsTheOwners` |
| | `NothingIsLeftOpen` | an ended request leaves no open review and no unaccounted credential | `EndedLeavesNothingOpen` |
| | `StopsAreKept` | no cancel over a merge, no effect after a stop, no change of a finished run | `StopIsKept` |
| `RequestLock` | `LockExcludes`, `LockIsKept` | one holder, in one process | `MutualExclusion`, `HolderKeepsItsLock` |
| `RecordsProofs` | `RecordsAreSound`, `EndsAreFinal` | the invariant; an ended transition refuses every event | |
| | `AppliedWasEarned` | applied means validated, admitted and applied | `AppliedIsEarned` |
| | `StopsAreExplained` | a stop is explained by its own event, and asks whom that event names, section 6 | `StopIsExplained` |
| | `CompletedRunsWereRead` | a completed refinement wrote or found every target, and each had its value after that | `CompletionIsReadBack` |
| | `IdeasHaveOneDelivery` | an idea has one Delivery | `OneDelivery` |
| | `UpdatesAreKept` | fields of ideas and items are what their calls asked for | `NoUpdateIsLost` |
| | `HistoryIsTold` | events of proposals and packages tell the commits | `HistoryTellsTheCommits` |
| `PackageCommandsProofs` | `OwnersAreAskedOnce` | an owner is asked once for a command; results are true | part of `HistoryTellsTheCommits` |
| `SessionsProofs` | `EventsSurvive` | an acknowledged event stays in the journal | `AcknowledgedEventsSurvive` |
| | `SavedWorkIsRecoverable` | the revision before the current one and indexed originals are kept | `RecoveryIsComplete` |
| | `SavesSurvive` | an acknowledged save is replaced only by who has read it | part of `AcknowledgedSavesSurvive` |
| | `WhatWasSavedStays` | ... and so is a draft of source; dependencies and places on the roadmap stay | `AcknowledgedSavesSurvive` |
| | `CommandsBeginOnce` | the effects of a command begin once | part of `EffectsBeginOnce` |
| | `NothingBeginsTwice` | ... and so do the artifacts of a landing and the commits of a draft | `EffectsBeginOnce` |
| | `OthersWorkIsKept` | a close removes nobody else's work and no last copy | `CleanupKeepsOthersWork` |
| | `ReceiptIsLeft` | a session that is gone left its receipt and manifest | `SessionLeavesItsReceipt` |
| `SourceRealizationProofs` | `AcceptedSourceOnly` | commits are of accepted drafts, once; no apply goes on behind a withdrawal; drafts replace what was read | part of both |

### Assumptions

- `AttemptsAssumption`, `WindowAssumption`: at least one attempt; the windows hold
  two controls and five events per attempt and two events more. The code has 3
  attempts, 16 controls and 32 events. `WindowsSuffice` needs it, and everything
  that reads the history.
- `ControlAssumption`: actions are those of the contract; the control of a
  retirement has an id and a key of its own (`workflows.js` builds them).
- `CallerAssumption`: each caller has one control of the contract.
- `GenerationAssumption`: capacity and manifests are numbers. The set of run ids
  may be infinite.
- `CustodyAssumption`: a submission is what `contracts.js` accepts: one of the two
  actions, a causation that is none or a request, and for a linkage an id that is
  positive, as the schema of the request demands.
- `LockAssumption`, and `OneProcess` for the two theorems: all calls are of one
  process. Without it both are false, which section 6 describes; that is the reason
  for the hypothesis, and one service process is what the deployment runs.
- `CallsAssumption`, `RunnersAssumption`: the value that stands for nobody is the
  name of no call.
- `ProofAssumption`: an attempt at least, and at most eight, by the room of a
  projection for controls (see section 2).
- `JournalAssumption`: two requests with one transition id have one idempotency key,
  because the id is its digest (`lifecycle-transition/contracts.js:161-169`).
- `SourceAssumption`, and `NamesDiffer` for `AcceptedSourceOnly`: a change set is
  named neither as "none" nor as a commit by hand, and no call as nobody.
- `IdsAssumption`: an id is that of one command, one resolution or one application;
  the code tells them apart by their kind.

### How the proofs go

*The run.* `IInv` says, for each place in the code, which projections can be there
(`AtStart`, `AtLoop`, ...), and `Sound`, which bounds the controls and events that
are recorded by the attempts that were started. The properties are not inductive by
themselves: that a window never drops an element needs the budget, the budget needs
that a control is recorded only where the place allows it, and this needs
availability to be current. The operators of `RunProjection` preserve `Sound` by one
lemma each, and a step is then a chain of such lemmas.

*What a run promises.* `HistoryInv` adds the queue: accepted controls are
remembered by id and key, pending ones are new and distinct, and a retirement
stands first. It follows that a retry or resume in the history belongs to one
attempt only. `EvidenceInv` adds that the effect is verified between the end of an
execution and the end of its activation and nowhere else, unless the run is closed.
With both, each action maps to a step of `RunLifecycle` or to none.

*The API.* A step of a caller leaves the run alone or sends it a signal, so every
theorem about the run holds under its API. Two facts about steps of the run carry
the rest: the retained controls only grow, and a closed run never changes.

*Retirement.* The invariant has a part for each party: the replicas, the
Platform's manifests, the process, the receipt. The decisive one is that a run
starts only after the handled registration that its replica waits for, and that a
process which works on a manifest works on the registry that this manifest, or one
it resumes, has sealed.

*Custody.* `IInv` says what a call that waits knows of the journal. Before its
first checkpoint, the record (or absence) that it read is still there: `ReadInv`.
After it, the record is the one it wrote: `WorkInv`. That rests on the lock for the
call's own record, and for the record that it corrects, which is read without a
lock, on that record being final. Every write then has one of two forms, a
checkpoint or a last put, with one lemma each, and each action shows the same few
facts: attempts do not shrink, and an id is the one of the record before, of the
corrected one, or of the answer to the call's own create. `Lineage` is the least set
that is closed under corrections, so that the theorem covers chains of any length;
the instance of the run has one correction.

*The lock.* In one process no two calls are between the same two system calls, so
a file that a call looks at is still what it saw.

*Transitions.* `Sound` is a property of one projection, kept by every event and true
of a new one; it counts the validations and admissions that the state needs, and it
bounds the sequence of every decision by that of the projection. A state in which
nothing holds the transition back shows nothing of a stop (`Clear`), since every way
out of a stop clears what it left; so what a stop shows has the sequence of its own
event. A decision that defers stays with its authority until that authority decides
again, which is the one exception the theorem has.

*The journal of transitions.* While no transaction overran its lock, the call that
has the lock read what the journal still holds, and the file it is about to write
has all of its events (`HolderKnowsTheJournal`). An append that is about to be
acknowledged is in that file, and then in the journal (`Made`).

*Saved work.* Between the two renames of a save, the record that it replaces is
already the recovery copy, and the tab that saves still waits (`WriteIsPrepared`).
So a stop at any step leaves the current revision and the one before it.

*Session commands.* A call that may still begin effects is the only one that holds
the lock of its command, and until the command is in the journal nobody else can
have taken that lock (`OneMayBegin`, `NewHasOneHolder`). A lock is taken from a
running call only when it is blocked in a child process, which is after the
journal was written; this is why the effects begin once.

*Cleanup.* `OwnedIsNotForeign` covers what a close owns and what it is about to
own; `StepsInOrder` says what each step of a close left behind before it.

*Authored source.* A call that is inside, and waits, has the session, so what it
read of the record stays (`InsideHolds`, `Prepared`); what the executor works on was
accepted, and an accepted draft stays until it is refused
(`ExecutionsAreAccepted`). A withdrawal first stops the credential, after which no
call comes to the executor, and only then looks at the source
(`WithdrawnIsStill`). A call that applies source has the lease, and a withdrawal
succeeds only when nobody has it, so that no call applies behind it. What a call that
stopped, or was cut off, has asked of the executor is another matter: the executor
may still commit it (section 6). Each draft is committed by one execution, which looks for its
own commit first (`MadeOnce`). The theorem of the run has the bounds of its two
instances; `AcceptedSourceOnly` has it for all.

*Landing.* A durable artifact is what the service makes of its candidate, with
nothing from outside but the readiness receipt, and this is written once
(`ArtifactsAreSettled`). The controller issues a receipt only when it saw none, and
what it saw is still so (`ProcessHolds`). So a candidate that is sent again after a
stop gives the same artifact.

*The board.* What is sent for an item puts it in its place, if it is still as it was
read (`SendsInPlace`). A call that takes out duplicates leaves a relation that is older than
each of them (`LeavesOne`). When others delete that one, they have an older one
still, so that one relation always remains.

*Refinements.* An attempt is about all targets of its operation, and a run has the
results of the operations behind it (`OperationsAreWhole`); the packet of a draft
does not change once it was sent. A read back that is under way has read only cells
which the accepted value has been in since the last operation, if that value is what
it found there: this is kept page by page, and at the last page it is about all
targets.

*Ideas and items.* `PatchIsRight` says what a patch carries, relative to what the
call saw; the lock version ties this to the record, and texts only grow. While no
two consumptions are at their create, there is no Delivery before it and one after
(`OneEpic`).

*Proposals.* A command commits at the version after the one it was submitted for;
both are written once, so whoever finds a command in a record, or in a stale copy of
it, knows its commit. Comments that are repaired from such a copy are right.

*Package commands.* While no two acceptances of a command overlap, all its
acceptances are of one call, and the call that goes on to the owner is the one
that wrote it (`AskedByOne`). While fewer than three calls have come, one of the
calls that would wait for each other works (`WorkAlone`), and before its comment
there is none (`Uncommented`). What a result says is known when it is written
(`TrueSoFar`).

*Owner reviews.* What the six workflows share is proved once of `OwnerReview`, and
each of them is shown to take its steps. While no lock was lost, one call works on a
request and its copy is the record until it writes (`ReviewAlone`); what a record
says of the review is `TellsTheReview`. Of a call that lost its lock only
the proof behind a success is kept.

*The credential.* What was stopped as never issued was never approved, and no
command is made without an approval. A call that is about to make its effect holds
the lock that a stop needs.

*The lifecycle.* No baseline comes back: the custody of a state names the last
change of the history (`LastChange`), and an archived aggregate stays archived. A
request that has its success in the history therefore does not find the baseline
that it was composed for again, and cannot be applied a second time.

*The model.* A change that the owner made is of the attempt that the record is at,
and until the receipt is kept the record says that the owner may have been called.

*The controlled proof.* `RunInv` has a part for an open run and one for a closed
run. An open run has no evidence and no result, its controls are bounded by its
attempts (`Budget`), and a queued signal is not yet recorded (`Controls`); a run is
closed only with the evidence of its scenario (`Passes`), and then never changes.

### What is only model-checked

- The liveness properties of `progress`, for they depend on fairness and `ENABLED`.
- `DeliveryKeepsItsWork` and `ReadinessIsOfThePacket`. They are about `DeliveryPlan`,
  `SessionArchitecture`, the heads in `DeliveryLifecycle`, the reviews in
  `SourceRealization`, and the judgements of the readers in `DeliveryBoard`.
  Nothing in these properties is out of the provers' reach; their inductive
  invariants are not written.

No model declares a recursive operator, so the proof modules reach none, and no
theorem rests on an induction over data.

## 6. Where code and documentation differ

Five runs end in a violation on purpose: the property is a sentence of the
documentation, and the counterexample is a behaviour of the code.

| Run | The sentence | What the code does |
|---|---|---|
| `run_burned_keys` | "The operator may review the retained state and retry the same idempotent control when it is still available" (`docs/contracts/durable-orchestration-v1.md:261`) | a control that was accepted and then dropped as unavailable stays in `queuedControlKeys`, and its id and key are ignored for the rest of the run |
| `custody_collision` | provisioning does not "adopt a name collision" (`docs/operations/repository-custody-workflow.md:117`) | a retry of a request that never sent a create finds the repository by its name, takes it for its own if the settings agree, and reports success |
| `proposal_routed` | the hand-off "is limited to accepted Proposals whose prepared route targets Delivery" (`docs/contracts/proposal-workflow-v1.md:114`) | the route is checked before the Epic is created and not after it, so a Proposal that was parked meanwhile is marked applied |
| `cleanup_repeated` | "This makes repeated close and restart recovery idempotent" (`docs/contracts/delivery-workflow-api-v1.md:577`) | a close that fails at its receipt records a new generation of the manifest, and every repetition is refused as different from it |
| `lifecycle_stuck` | "On retry, OOS reads fresh provider truth: a completed target is reconciled without repeating the mutation" (`docs/contracts/repository-lifecycle-workflow-v1.md:34`) | after a stop between the aggregate and the request, the retry compares the aggregate with the state of the approval and answers 409 before it reads the provider |

### Other divergences met

These were met while modelling. Some are in the models, whose properties are
worded so that they hold; others concern code that is abstracted.

Runs and generations
- A blocked run with attempts left refuses resume after a contract rejection
  (`run-projection.js:296`), while the contract offers resume as long as an attempt
  remains.
- A refinement request that is repeated while its run exists can be refused, because
  the preparation is compared with the tree that the run has changed meanwhile;
  `refinement-v1.md:127` says a retry returns the same run or receipt.
- `finishControlledProofAttempts` at the head of the loop of the controlled proof is
  unreachable. A start before the session begins is admitted by the API and ends the
  scenario's only run as failed (`workflows.js:410`). A cancel whose outcome arrives
  in the same task overwrites a passed projection with a failed one.

Repositories and transitions
- A retry that readiness denies becomes "denied" although its create was sent
  (`repository-custody/service.js:446`); the contract puts a denial before provider
  access.
- Settings are changed by owner and name, and the id is compared in the answer
  (`provider-client.js:326`), so the repository of others that has taken the name is
  changed before that is noticed. `OthersKeepTheirSettings` says that this is the only
  way.
- The request lock excludes calls of one process. The contract calls it
  process-safe, and a process that is given the pid of a dead one takes that lock
  for its own (`repository-custody-workflow-v1.md:100`, `store.js:165`).
- In the repository lifecycle a later denial or failure contradicts the success in
  the aggregate, and the workspace path "recovered" cannot be reached.
- A deferred transition asks the first authority whose deferral is undecided, which
  may be of an earlier stop than the event that deferred it last
  (`lifecycle-transition/service.js:636-641`). `StopIsExplained` has this as its one
  exception and holds every other deferral to its own event.
- A blocked validation shows its first blocked gate (`service.js:523`), while the
  contract asks a fix of some blocked gate only (`contracts.js:235-237`), so a blocked
  transition need not name a fix although `project-lifecycle.yaml:413` says that it does.
  `StopIsExplained` has this exception: every other gate names its fix.
- A refinement run compares the accepted values with a read of several pages, while
  `refinement-v1.md` speaks of one fresh snapshot: values that others overwrite and
  restore between the pages are confirmed though they never held together.
  `CompletionIsReadBack` says of each value that it held, each at a moment of its own.

Owner reviews, credentials, models
- An answer that is lost while a person merges or closes by hand ends the
  workflow in a state its recovery table does not have
  (`prototype-landing/service.js`, and the same in maturity and proposal targets).
- A model sign-in that is cancelled or rejected after a failed readback can be live
  at the owner (`model-operations/service.js:125-138`). With two processes a late
  failure can overwrite "completed" with "unknown".
- A platform operation that is lost between record and dispatch stays blocked: a
  replay never dispatches.

Proposals and packages
- A command repeated after its Proposal moved on is refused, and not answered
  with its first result (`proposal-workflow-v1.md:106-108`).
- `delivery-change` has no serialization in the process: two overlapping calls of one
  command both dispatch. In closeout and Work Design a third call makes two waiters
  run at once, and overlapping Work Design applications can leave a history that is
  unreadable for good ("receipt_history_invalid").
- One unfinished acceptance blocks all later closeouts of the package, and nothing
  resolves a "reconciliation required". A dispatch whose answer is lost is recorded
  as rejected although the package changed; the same in the Catalog, where a retry
  after success is refused as stale. A failed read of the automation user is cached
  for ever (`automationUserRefPromise ??=`).

Sessions and source
- A crash in `archiveRecoveredSession` leaves a session active under the id of an
  archived one (`delivery-workflow-operator-surface.md:651`), and a continue then makes
  the receipt unreadable. A command is accepted against a revision, and its effects
  may begin on a later one (`delivery-workflow-api-v1.md:307`). Reconstruction removes the session before it has the replacement. A
  crash after the worktree is created and before the manifest leaves the worktree.
- A local draft whose ART scope changed before it was evaluated is refused on every
  continue and never drafted again. A head pushed between draft and merge-ready
  leaves a blocked gate. `PROJECT_REVIEW_EVIDENCE` overwrites results written by hand.
  After the merge, operating evidence edited by hand is accepted, and an exception
  that expired meanwhile is not looked at.
- Two candidates of an architecture may supersede the same packet; the later becomes
  current without notice, and a persist repeated after a crash makes an architecture
  current again over its successor. A work start may become ready on an architecture
  that was superseded between its check and its registration.
- An executor that stops between its first file and its commit leaves a dirty
  worktree: recovery is refused as drift and cancellation is not allowed. A commit
  by hand between the executor's look at HEAD and its own commit ends under the
  accepted one (`work-session-cli-adapters.js:1153-1190`). After a lost answer a
  repeated cancellation can succeed while the executor's apply is queued, which then
  makes the worktree again and commits.
- Publishing looks for open pull requests only, so a publication repeated after a
  merge or close by hand opens another; it pushes the head of that time and not the
  validated one. A bootstrap that was cancelled as unapplied can still be committed
  by an accept that holds the lease, and a bootstrap closes only while the main line
  stands exactly at its merge.

Ideas, items, board
- A decision after a stale status check can reopen an implemented idea. Overlapping
  consumptions leave duplicates. A replayed PATCH carries the values of its first
  read. Several patches (demo, inspection, PI review, completion) carry no lock
  version.
- A create that fails between its POST and the PATCH of its parent leaves an item
  that a retry does not find and makes again. Duplicates are looked for among open
  siblings only, and two overlapping creates both pass
  (`delivery-workflow-api-v1.md:1892`).
- The sweep of a plan parks or retires done children and reopens done items when a
  status is given. The gate of a PI (`delivery-workflow-api-v1.md:1007`) counts
  nothing as retained under park, so that grandchildren of a removed feature stay
  committed without an objective. Planning repair and bulk update answer with an
  error and leave earlier repairs applied.
- `manageDeliveryParking` changes a blocked status, which
  `delivery-workflow-operator-surface.md:256-257` reserves to the blocker workflow. A
  generic update may retire an item that keeps its Target PI.
- Gates are a read and then a PATCH with the lock version of the Epic alone, so an
  item that was reopened between is missed. The closing gate and the scoped review
  disagree about a predecessor outside the project. Paged reads can skip an item
  when one is deleted between pages.

### What the properties except

A property that the code cannot keep in one situation excepts that situation, by
a condition in its statement, and shows that there is no other. What is excepted is
not caught:

- `HistoryIsComplete`: at the bounds of the run only the window of events rolls over;
  of the controls the theorem `WindowsSuffice` speaks.
- `KeepsPromise`: an owner try that runs on after Temporal has settled its activity.
- `MutualExclusion`, `HolderKeepsItsLock`: two processes, and a pid that was given
  again; both are stated of one process.
- `OthersKeepTheirSettings`: a name that changes hands between the read and the change.
- `AcknowledgedEventsSurvive`: a lock lost between `assertHeld` and the rename.
- `EndedLeavesNothingOpen`: landing and maturity, and requests whose lock was lost.
- `NoUpdateIsLost`: a PATCH that is sent again, or that carries no lock version.
- `OneDelivery`, `DeliveryKeepsItsWork`: consumptions and steps of plans that
  overlap, and an item left unplaced because the PATCH after its POST failed.
- `HistoryTellsTheCommits`: two acceptances that overlap; a command recorded as
  rejected that its owner had done is not contradicted.
- `EffectsBeginOnce`: that nothing is committed behind a withdrawal is said of
  behaviours without a lost call, answer or executor; with them only that no call
  still applies.
- `ReadinessIsOfThePacket`: work that went backward, reopened or parked, while the
  pages of a review were read.

## 7. Plan

Done: the survey, the run with its API and retirement, the stores, the owner
workflows, the sessions, the OpenProject records; the proofs of section 5.

Left, in this order:

1. `SessionArchitecture`: `ReadinessIsOfThePacket`, by what each durable write of a
   refresh leaves for a recovery.
2. `DeliveryLifecycle`: `PacketsAreEarned` and `FinalizedContinues`, by the heads at
   which each part of a packet was found.
3. `DeliveryPlan`: `DeliveryKeepsItsWork`, by what a plan has made of its tree when it
   answers.
4. Operations that `openproject-client.js` has and no module (attachments, comments,
   portfolio reads), where they get an effect of their own.

To let a theorem name the property of a run that composes several components, the
`MC` module extends one component (`MCRecords` extends `LifecycleTransition`,
`MCOwners` extends `RepositoryCustody`) and instantiates the others, and a proof
module extends the `MC` module.

## 8. Not modelled

| What | Why |
|---|---|
| HTTP application, configuration, authentication | no state of its own; routes call one service each |
| Command-line tools (`art-cli.js` and the scripts) | clients of the API; they print and retry nothing |
| Activation evidence, definition catalog | pure checks of pinned files; a check is one verdict in the models that use it |
| Agent action enforcement, activity and console views | pure checks and read models over other components |
| Parsing, digests, signatures, schemas | a document is valid or not, and equal or not |
| Listing, paging and search of services other than the board | read only |
| Profile requests, dev-integration views, work-session reports | read only, or a single write with no second party |
| OpenProject, Git hosts, Temporal, WGCF, the Platform | external; modelled as far as the code relies on them |

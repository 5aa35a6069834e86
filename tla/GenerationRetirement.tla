------------------------ MODULE GenerationRetirement ------------------------
(***************************************************************************)
(* One activation generation from its first run to its retirement.         *)
(*   - API replicas register each start in the generation's registry, then *)
(*     start the run (startRun, registerGenerationStart in                 *)
(*     temporal-adapter.js).  A replica may die between the two.           *)
(*   - The registry is the workflow generationStartRegistryV1              *)
(*     (workflows.js): a capped set of run ids, closed by its first seal.  *)
(*   - retireOrchestrationGeneration (worker.js) seals the registry,       *)
(*     signals the runs it names, polls their queue until they are all     *)
(*     terminal and issues a receipt.  It may fail or die at any step and  *)
(*     be run again, under the same manifest or under a fresh one.         *)
(* The Platform is external: it stops the replicas and the ordinary worker *)
(* and pins retirement manifests, which expire.  All manifests of the      *)
(* generation carry one retirement_id; a number stands for a digest.       *)
(***************************************************************************)
EXTENDS Integers, FiniteSets, TLC

CONSTANTS Runs,         \* stable run ids, also the Temporal workflow ids
          Capacity,     \* maximum_registration_count (512)
          MaxManifests  \* bound on the retirement manifests pinned

ASSUME GenerationAssumption == Capacity \in Nat /\ MaxManifests \in Nat \ {0}

VARIABLES
    ingress,      \* "open" or "drained": replicas that may start runs
    ordinary,     \* the ordinary worker polls both queues of the generation
    starts,       \* per run id: the step of the API call that starts it
    requested,    \* registration updates that wait for a registry worker
    registry,     \* status, registered ids and the manifest that sealed it
    runs,         \* per run id: its execution and the generation it is of
    signalled,    \* runs that hold the retirement control
    pinned,       \* the pinned manifest, 0 before the first
    live,         \* manifests inside their lifetime
    resume,       \* per manifest: registry_seal_resume, 0 when null
    sealRequests, \* seal updates that wait for a registry worker
    retire,       \* the retirement process
    receipt       \* its receipt

platform == <<pinned, live, resume>>
api == <<starts, requested>>
vars == <<ingress, ordinary, starts, requested, registry, runs, signalled,
          platform, sealRequests, retire, receipt>>

Manifests == 1..MaxManifests
Absent == [status |-> "none", generation |-> "none"]
NoReceipt == [manifest |-> 0, matched |-> {}, uncommitted |-> 0,
              targets |-> 0, terminal |-> 0]
Idle == [at |-> "idle", under |-> 0, todo |-> {}, matched |-> {},
         uncommitted |-> 0, targets |-> 0]

OwnRuns == {w \in Runs : runs[w].generation = "this"}
Sealed == registry.seal # 0

-----------------------------------------------------------------------------
(* API replicas.                                                           *)

(* Update-with-Start: the registry is created by the first registration;   *)
(* a registry that has closed rejects it.                                  *)
OpenRegistry == [registry EXCEPT !.status = IF @ = "absent" THEN "open" ELSE @]

RequestRegistration(w) ==
    /\ ingress = "open" /\ starts[w] = "idle" /\ ~Sealed
    /\ starts' = [starts EXCEPT ![w] = "requesting"]
    /\ requested' = requested \cup {w}
    /\ registry' = OpenRegistry
    /\ UNCHANGED <<ingress, ordinary, runs, signalled, platform, sealRequests,
                   retire, receipt>>

(* Mutant: the start does not wait for its registration.                   *)
StartRunUnregistered(w) ==
    /\ starts[w] # "idle"
    /\ starts' = [starts EXCEPT ![w] = "idle"]
    /\ runs' = IF runs[w].status # "none" THEN runs
               ELSE [runs EXCEPT ![w] = [status |-> "running",
                                         generation |-> "this"]]
    /\ UNCHANGED <<ingress, ordinary, requested, registry, signalled, platform,
                   sealRequests, retire, receipt>>

(* A closed or reused workflow id makes the start a duplicate, without     *)
(* effect, whichever generation the retained run is of.                    *)
StartRun(w) ==
    /\ starts[w] = "registered"
    /\ starts' = [starts EXCEPT ![w] = "idle"]
    /\ runs' = IF runs[w].status # "none" THEN runs
               ELSE [runs EXCEPT ![w] = [status |-> "running",
                                         generation |-> "this"]]
    /\ UNCHANGED <<ingress, ordinary, requested, registry, signalled, platform,
                   sealRequests, retire, receipt>>

(* The replica dies: its call stops, an update already sent does not.      *)
ReplicaFails(w) ==
    /\ starts[w] # "idle"
    /\ starts' = [starts EXCEPT ![w] = "idle"]
    /\ UNCHANGED <<ingress, ordinary, requested, registry, runs, signalled,
                   platform, sealRequests, retire, receipt>>

(* Replicas of another generation start runs under the same ids.           *)
StartElsewhere(w) ==
    /\ runs[w].status = "none"
    /\ runs' = [runs EXCEPT ![w] = [status |-> "running",
                                    generation |-> "other"]]
    /\ UNCHANGED <<ingress, ordinary, api, registry, signalled, platform,
                   sealRequests, retire, receipt>>

-----------------------------------------------------------------------------
(* The registry workflow.  Its updates are handled while some worker polls *)
(* the registry queue: the ordinary one, or that of a retirement process.  *)

RegistryPolled == ordinary \/ retire.at \in {"polling", "sealing"}

Registrable(w) == \/ w \in registry.ids
                  \/ Cardinality(registry.ids) < Capacity

HandleRegistration(w) ==
    /\ w \in requested /\ RegistryPolled
    /\ requested' = requested \ {w}
    /\ IF ~Sealed /\ Registrable(w)
       THEN /\ registry' = [registry EXCEPT !.ids = @ \cup {w}]
            /\ starts' = [starts EXCEPT ![w] =
                             IF @ = "requesting" THEN "registered" ELSE @]
       ELSE /\ registry' = registry
            /\ starts' = [starts EXCEPT ![w] =
                             IF @ = "requesting" THEN "idle" ELSE @]
    /\ UNCHANGED <<ingress, ordinary, runs, signalled, platform, sealRequests,
                   retire, receipt>>

(* The seal is authorized by the lifetime it carries, at handling time.    *)
(* The registry workflow then completes: its ids are final.                *)
SealAuthorized(m) == m \in live /\ ~Sealed

HandleSeal(m) ==
    /\ m \in sealRequests /\ RegistryPolled
    /\ sealRequests' = sealRequests \ {m}
    /\ registry' = IF SealAuthorized(m)
                   THEN [registry EXCEPT !.seal = m, !.status = "closed"]
                   ELSE registry
    /\ retire' = IF ~SealAuthorized(m) /\ retire.at = "sealing"
                    /\ retire.under = m /\ ~Sealed
                 THEN Idle ELSE retire
    /\ UNCHANGED <<ingress, ordinary, api, runs, signalled, platform, receipt>>

-----------------------------------------------------------------------------
(* Runs progress while a worker polls their queue.  ValidationReadinessRun *)
(* has their detail: a run may close on its own, and one that holds the    *)
(* retirement control does close.                                          *)

RunPolled(w) == \/ runs[w].generation = "other"
                \/ ordinary
                \/ retire.at = "draining"

RunCloses(w) ==
    /\ runs[w].status = "running" /\ RunPolled(w)
    /\ runs' = [runs EXCEPT ![w].status = "terminal"]
    /\ UNCHANGED <<ingress, ordinary, api, registry, signalled, platform,
                   sealRequests, retire, receipt>>

-----------------------------------------------------------------------------
(* The Platform.                                                           *)

(* Replicas are scaled to zero; a start that was in flight is over.        *)
DrainIngress ==
    /\ ingress = "open"
    /\ ingress' = "drained"
    /\ starts' = [w \in Runs |-> "idle"]
    /\ UNCHANGED <<ordinary, requested, registry, runs, signalled, platform,
                   sealRequests, retire, receipt>>

StopOrdinaryWorker ==
    /\ ordinary
    /\ ordinary' = FALSE
    /\ UNCHANGED <<ingress, api, registry, runs, signalled, platform,
                   sealRequests, retire, receipt>>

(* Mutant: only the poller has to stop.                                    *)
ManifestMayIssueUndrained == ~ordinary

(* A manifest attests a drained ingress and a stopped poller.  A refreshed *)
(* one may name an earlier manifest in registry_seal_resume.               *)
ManifestMayIssue == ingress = "drained" /\ ~ordinary

PinManifest ==
    /\ ManifestMayIssue /\ pinned < MaxManifests
    /\ pinned' = pinned + 1
    /\ live' = live \cup {pinned'}
    /\ \E earlier \in 0..pinned :
          resume' = [resume EXCEPT ![pinned'] = earlier]
    /\ UNCHANGED <<ingress, ordinary, api, registry, runs, signalled,
                   sealRequests, retire, receipt>>

Expire(m) ==
    /\ m \in live
    /\ live' = live \ {m}
    /\ UNCHANGED <<ingress, ordinary, api, registry, runs, signalled, pinned,
                   resume, sealRequests, retire, receipt>>

-----------------------------------------------------------------------------
(* The retirement process.                                                 *)

(* resolveSameGenerationRetirement: the manifest the process started under *)
(* is still pinned and inside its lifetime.                                *)
StillAuthorized == retire.under = pinned /\ pinned \in live

Move(to) == retire' = [retire EXCEPT !.at = to]
ProcessOnly == UNCHANGED <<ingress, ordinary, api, registry, runs, signalled,
                           platform, sealRequests, receipt>>

RetireBegin ==
    /\ retire.at = "idle" /\ pinned \in live
    /\ retire' = [Idle EXCEPT !.at = "starting", !.under = pinned]
    /\ ProcessOnly

(* sealGenerationStartRegistry: poll the registry queue, then send a seal. *)
PollRegistry ==
    /\ retire.at = "starting" /\ StillAuthorized
    /\ Move("polling") /\ ProcessOnly

RequestSeal ==
    /\ retire.at = "polling" /\ StillAuthorized
    /\ Move("sealing")
    /\ IF Sealed THEN UNCHANGED <<registry, sealRequests>>
       ELSE /\ sealRequests' = sealRequests \cup {retire.under}
            /\ registry' = OpenRegistry
    /\ UNCHANGED <<ingress, ordinary, api, runs, signalled, platform, receipt>>

ReadSealedRegistry ==
    /\ retire.at = "sealing" /\ Sealed
    /\ Move("sealed") /\ ProcessOnly

(* Mutant: any seal will do.                                               *)
SealAcceptedAny == Sealed

(* assertGenerationStartRegistryAuthorization                              *)
SealAccepted == \/ registry.seal = retire.under
                \/ registry.seal = resume[retire.under]

CheckAuthorization ==
    /\ retire.at = "sealed" /\ StillAuthorized /\ SealAccepted
    /\ retire' = [retire EXCEPT !.at = "reconciling", !.todo = registry.ids]
    /\ ProcessOnly

Uncommitted(w) == runs[w].generation # "this"

(* A registered start that was never committed, or that another generation *)
(* committed.                                                              *)
SkipRegistration(w) ==
    /\ retire.at = "reconciling" /\ w \in retire.todo /\ Uncommitted(w)
    /\ retire' = [retire EXCEPT !.todo = @ \ {w}, !.uncommitted = @ + 1]
    /\ ProcessOnly

MatchClosedRun(w) ==
    /\ retire.at = "reconciling" /\ w \in retire.todo /\ ~Uncommitted(w)
    /\ runs[w].status = "terminal"
    /\ retire' = [retire EXCEPT !.todo = @ \ {w}, !.matched = @ \cup {w}]
    /\ ProcessOnly

(* Mutant: the run is counted but not signalled.                           *)
SignalRunningRunSilently(w) ==
    /\ retire.at = "reconciling" /\ w \in retire.todo /\ ~Uncommitted(w)
    /\ runs[w].status = "running" /\ StillAuthorized
    /\ retire' = [retire EXCEPT !.todo = @ \ {w}, !.matched = @ \cup {w},
                                !.targets = @ + 1]
    /\ ProcessOnly

(* No worker polls the run between describe and signal: one step.          *)
SignalRunningRun(w) ==
    /\ retire.at = "reconciling" /\ w \in retire.todo /\ ~Uncommitted(w)
    /\ runs[w].status = "running" /\ StillAuthorized
    /\ signalled' = signalled \cup {w}
    /\ retire' = [retire EXCEPT !.todo = @ \ {w}, !.matched = @ \cup {w},
                                !.targets = @ + 1]
    /\ UNCHANGED <<ingress, ordinary, api, registry, runs, platform,
                   sealRequests, receipt>>

(* The one-shot worker: authorized to start, it may outlive the manifest.  *)
StartDrain ==
    /\ retire.at = "reconciling" /\ retire.todo = {} /\ StillAuthorized
    /\ SealAccepted
    /\ Move("draining") /\ ProcessOnly

AllTerminal == \A w \in retire.matched : runs[w].status = "terminal"

ReceiptCountsAgree(r) ==
    /\ Cardinality(r.matched) + r.uncommitted = Cardinality(registry.ids)
    /\ r.terminal = Cardinality(r.matched)
    /\ r.targets <= Cardinality(r.matched)

IssueReceipt ==
    /\ retire.at = "draining" /\ AllTerminal
    /\ LET r == [manifest |-> retire.under, matched |-> retire.matched,
                 uncommitted |-> retire.uncommitted,
                 targets |-> retire.targets,
                 terminal |-> Cardinality(retire.matched)]
       IN  receipt' = IF ReceiptCountsAgree(r) THEN r ELSE receipt
    /\ retire' = Idle
    /\ UNCHANGED <<ingress, ordinary, api, registry, runs, signalled, platform,
                   sealRequests>>

(* A failed check, a lost connection or a crash ends the process.          *)
RetireFails ==
    /\ retire.at # "idle"
    /\ retire' = Idle
    /\ ProcessOnly

-----------------------------------------------------------------------------
Init ==
    /\ ingress = "open"
    /\ ordinary = TRUE
    /\ starts = [w \in Runs |-> "idle"]
    /\ requested = {}
    /\ registry = [status |-> "absent", ids |-> {}, seal |-> 0]
    /\ runs = [w \in Runs |-> Absent]
    /\ signalled = {}
    /\ pinned = 0
    /\ live = {}
    /\ resume = [m \in Manifests |-> 0]
    /\ sealRequests = {}
    /\ retire = Idle
    /\ receipt = NoReceipt

RetirementProcess ==
    \/ RetireBegin \/ PollRegistry \/ RequestSeal
    \/ ReadSealedRegistry \/ CheckAuthorization
    \/ \E w \in Runs : SkipRegistration(w) \/ MatchClosedRun(w) \/ SignalRunningRun(w)
    \/ StartDrain \/ IssueReceipt

Next == \/ \E w \in Runs : \/ RequestRegistration(w) \/ StartRun(w)
                           \/ ReplicaFails(w) \/ StartElsewhere(w)
                           \/ HandleRegistration(w) \/ RunCloses(w)
        \/ \E m \in Manifests : HandleSeal(m) \/ Expire(m)
        \/ DrainIngress \/ StopOrdinaryWorker \/ PinManifest
        \/ RetirementProcess \/ RetireFails

Spec == Init /\ [][Next]_vars

(* The retirement process and the workers go on until the process dies; a  *)
(* run that holds the retirement control closes when it is polled.         *)
FairSpec ==
    /\ Spec
    /\ WF_vars(RetirementProcess)
    /\ \A m \in Manifests : WF_vars(HandleSeal(m))
    /\ \A w \in Runs : WF_vars(w \in signalled /\ RunCloses(w))

-----------------------------------------------------------------------------
(* The values the variables may take.                                      *)
TypeOK ==
    /\ ingress \in {"open", "drained"}
    /\ ordinary \in BOOLEAN
    /\ starts \in [Runs -> {"idle", "requesting", "registered"}]
    /\ requested \subseteq Runs
    /\ registry \in [status : {"absent", "open", "closed"},
                     ids : SUBSET Runs, seal : 0..MaxManifests]
    /\ runs \in [Runs -> [status : {"none", "running", "terminal"},
                          generation : {"none", "this", "other"}]]
    /\ signalled \subseteq Runs
    /\ pinned \in 0..MaxManifests
    /\ live \subseteq 1..pinned
    /\ resume \in [Manifests -> 0..MaxManifests]
    /\ sealRequests \subseteq Manifests
    /\ retire \in [at : {"idle", "starting", "polling", "sealing", "sealed",
                         "reconciling", "draining"},
                   under : 0..MaxManifests, todo : SUBSET Runs,
                   matched : SUBSET Runs, uncommitted : Nat, targets : Nat]
    /\ receipt \in [manifest : 0..MaxManifests, matched : SUBSET Runs,
                    uncommitted : Nat, targets : Nat, terminal : Nat]

(* A run of the generation is in the registry before it is started.        *)
StartedRunsAreRegistered == OwnRuns \subseteq registry.ids

(* A receipt accounts for the generation: it names every run that the      *)
(* generation started, all are terminal, and no later start, refreshed     *)
(* manifest or second retirement makes it false.                           *)
ReceiptIsSound ==
    receipt # NoReceipt =>
        /\ receipt.matched = OwnRuns
        /\ \A w \in OwnRuns : runs[w].status = "terminal"

(* The receipt's manifest sealed the registry, or names the one that did.  *)
ReceiptCitesItsSeal ==
    receipt # NoReceipt =>
        registry.seal \in {receipt.manifest, resume[receipt.manifest]}

(* The drain ends: with a receipt, or because its process died.            *)
DrainEnds == retire.at = "draining" ~> retire.at = "idle"

(* For TLC: no action tells two runs apart.                                *)
Symmetry == Permutations(Runs)
=============================================================================

--------------------- MODULE GenerationRetirementProofs ---------------------
(***************************************************************************)
(* Machine-checked theorems about GenerationRetirement: for every set of   *)
(* runs, every capacity and any number of manifests, the registry names    *)
(* each run that starts, and a receipt accounts for all of them and cites  *)
(* the manifest of its seal.                                               *)
(***************************************************************************)
EXTENDS GenerationRetirement, FiniteSetTheorems, TLAPS

-----------------------------------------------------------------------------
(* Types.  The registry is finite although there may be infinitely many    *)
(* run ids, and what a process has in hand is of the registry: so the      *)
(* counts of a receipt are numbers.                                        *)

Registries == [status : {"absent", "open", "closed"},
               ids : SUBSET Runs, seal : 0..MaxManifests]
Processes == [at : {"idle", "starting", "polling", "sealing", "sealed",
                    "reconciling", "draining"},
              under : 0..MaxManifests, todo : SUBSET Runs,
              matched : SUBSET Runs, uncommitted : Nat, targets : Nat]
Receipts == [manifest : 0..MaxManifests, matched : SUBSET Runs,
             uncommitted : Nat, targets : Nat, terminal : Nat]
StartStates == [Runs -> {"idle", "requesting", "registered"}]
Executions == [Runs -> {Absent} \cup [status : {"running", "terminal"},
                                       generation : {"this", "other"}]]

TypeInv ==
    /\ ingress \in {"open", "drained"} /\ ordinary \in BOOLEAN
    /\ starts \in StartStates /\ requested \subseteq Runs
    /\ registry \in Registries /\ runs \in Executions
    /\ signalled \subseteq Runs
    /\ pinned \in 0..MaxManifests /\ live \subseteq 1..pinned
    /\ resume \in [Manifests -> 0..MaxManifests]
    /\ sealRequests \subseteq Manifests
    /\ retire \in Processes /\ receipt \in Receipts
    /\ IsFiniteSet(registry.ids)
    /\ retire.todo \subseteq registry.ids
    /\ retire.matched \subseteq registry.ids

(* TypeInv says TypeOK, with names for its sets.                           *)
LEMMA TypeInvIsTypeOK == TypeInv => TypeOK
  BY DEF TypeInv, TypeOK, Registries, Processes, Receipts, StartStates, Executions, Absent

(* Nothing is registered at first.                                        *)
LEMMA InitTypeInv == Init => TypeInv
<1>. SUFFICES ASSUME Init PROVE TypeInv
  OBVIOUS
<1>1. registry \in Registries /\ retire \in Processes /\ receipt \in Receipts
  BY GenerationAssumption DEF Init, Registries, Processes, Receipts, Idle, NoReceipt
<1>2. starts \in StartStates /\ runs \in Executions
  BY DEF Init, StartStates, Executions, Absent
<1>3. IsFiniteSet(registry.ids)
  BY FS_EmptySet DEF Init
<1>. QED
  BY <1>1, <1>2, <1>3, GenerationAssumption DEF Init, TypeInv, Manifests, Idle

(* The records that the steps build.                                       *)
LEMMA IdleIsProcess == Idle \in Processes /\ Idle.todo = {} /\ Idle.matched = {}
  BY GenerationAssumption DEF Idle, Processes

(* A process that goes on to its next phase keeps what it has in hand.    *)
LEMMA MovedProcess ==
    ASSUME NEW r \in Processes,
           NEW to \in {"idle", "starting", "polling", "sealing", "sealed",
                       "reconciling", "draining"}
    PROVE  /\ [r EXCEPT !.at = to] \in Processes
           /\ [r EXCEPT !.at = to].at = to
           /\ [r EXCEPT !.at = to].todo = r.todo
           /\ [r EXCEPT !.at = to].matched = r.matched
           /\ [r EXCEPT !.at = to].under = r.under
  BY DEF Processes

(* The first registration or seal request opens the registry, no more.    *)
LEMMA OpenedRegistry ==
    ASSUME registry \in Registries
    PROVE  /\ OpenRegistry \in Registries
           /\ OpenRegistry.ids = registry.ids
           /\ OpenRegistry.seal = registry.seal
  BY DEF Registries, OpenRegistry

(* A seal closes the registry and leaves its ids.                         *)
LEMMA SealedRegistry ==
    ASSUME NEW r \in Registries, NEW m \in 0..MaxManifests
    PROVE  /\ [r EXCEPT !.seal = m, !.status = "closed"] \in Registries
           /\ [r EXCEPT !.seal = m, !.status = "closed"].ids = r.ids
           /\ [r EXCEPT !.seal = m, !.status = "closed"].seal = m
  BY DEF Registries

(* A process is done with a registration, of a run it matched or not.      *)
LEMMA DoneProcess ==
    ASSUME NEW r \in Processes, NEW w \in Runs
    PROVE  LET skipped == [r EXCEPT !.todo = @ \ {w}, !.uncommitted = @ + 1]
               closed == [r EXCEPT !.todo = @ \ {w}, !.matched = @ \cup {w}]
               running == [r EXCEPT !.todo = @ \ {w}, !.matched = @ \cup {w},
                                    !.targets = @ + 1]
           IN  /\ skipped \in Processes /\ closed \in Processes /\ running \in Processes
               /\ \A q \in {skipped, closed, running} :
                     q.at = r.at /\ q.under = r.under /\ q.todo = r.todo \ {w}
               /\ skipped.matched = r.matched
               /\ closed.matched = r.matched \cup {w}
               /\ running.matched = r.matched \cup {w}
<1>1. r.todo \ {w} \in SUBSET Runs /\ r.matched \cup {w} \in SUBSET Runs
  BY DEF Processes
<1>2. r.targets + 1 \in Nat /\ r.uncommitted + 1 \in Nat
  BY DEF Processes
<1>. QED BY <1>1, <1>2 DEF Processes

(* Every step keeps the types.                                            *)
LEMMA NextTypeInv == TypeInv /\ [Next]_vars => TypeInv'
<1>. SUFFICES ASSUME TypeInv, [Next]_vars PROVE TypeInv'
  OBVIOUS
<1>. USE GenerationAssumption
<1>1. CASE UNCHANGED vars
  BY <1>1 DEF vars, platform, api, TypeInv
<1>2. ASSUME NEW w \in Runs, RequestRegistration(w) PROVE TypeInv'
  <2>1. starts' \in StartStates
    BY <1>2 DEF TypeInv, RequestRegistration, StartStates
  <2>. QED
    BY <1>2, <2>1, OpenedRegistry DEF TypeInv, RequestRegistration, platform
<1>3. ASSUME NEW w \in Runs, StartRun(w) PROVE TypeInv'
  <2>1. starts' \in StartStates
    BY <1>3 DEF TypeInv, StartRun, StartStates
  <2>2. runs' \in Executions
    BY <1>3 DEF TypeInv, StartRun, Executions, Absent
  <2>. QED BY <1>3, <2>1, <2>2 DEF TypeInv, StartRun, platform
<1>4. ASSUME NEW w \in Runs, ReplicaFails(w) PROVE TypeInv'
  <2>1. starts' \in StartStates
    BY <1>4 DEF TypeInv, ReplicaFails, StartStates
  <2>. QED BY <1>4, <2>1 DEF TypeInv, ReplicaFails, platform
<1>5. ASSUME NEW w \in Runs, StartElsewhere(w) PROVE TypeInv'
  <2>1. runs' \in Executions
    BY <1>5 DEF TypeInv, StartElsewhere, Executions, Absent
  <2>. QED BY <1>5, <2>1 DEF TypeInv, StartElsewhere, platform, api
<1>6. ASSUME NEW w \in Runs, HandleRegistration(w) PROVE TypeInv'
  <2>1. starts' \in StartStates
    BY <1>6 DEF TypeInv, HandleRegistration, StartStates
  <2>2. /\ registry' \in Registries
        /\ registry'.ids \in {registry.ids, registry.ids \cup {w}}
    BY <1>6 DEF TypeInv, HandleRegistration, Registries
  <2>3. IsFiniteSet(registry'.ids)
    BY <2>2, FS_AddElement DEF TypeInv
  <2>. QED BY <1>6, <2>1, <2>2, <2>3 DEF TypeInv, HandleRegistration, platform
<1>7. ASSUME NEW w \in Runs, RunCloses(w) PROVE TypeInv'
  <2>1. runs' \in Executions
    BY <1>7 DEF TypeInv, RunCloses, Executions, Absent
  <2>. QED BY <1>7, <2>1 DEF TypeInv, RunCloses, platform, api
<1>8. ASSUME NEW m \in Manifests, HandleSeal(m) PROVE TypeInv'
  <2>1. registry' \in Registries /\ registry'.ids = registry.ids
    <3>1. m \in 0..MaxManifests
      BY DEF Manifests
    <3>2. /\ [registry EXCEPT !.seal = m, !.status = "closed"] \in Registries
          /\ [registry EXCEPT !.seal = m, !.status = "closed"].ids = registry.ids
      BY <3>1, SealedRegistry DEF TypeInv
    <3>. QED BY <1>8, <3>2 DEF TypeInv, HandleSeal
  <2>2. /\ retire' \in Processes
        /\ retire'.todo \subseteq registry.ids
        /\ retire'.matched \subseteq registry.ids
    BY <1>8, IdleIsProcess DEF TypeInv, HandleSeal
  <2>. QED BY <1>8, <2>1, <2>2 DEF TypeInv, HandleSeal, platform, api
<1>9. ASSUME NEW m \in Manifests, Expire(m) PROVE TypeInv'
  BY <1>9 DEF TypeInv, Expire, api
<1>10. CASE DrainIngress
  BY <1>10 DEF TypeInv, DrainIngress, StartStates, platform
<1>11. CASE StopOrdinaryWorker
  BY <1>11 DEF TypeInv, StopOrdinaryWorker, platform, api
<1>12. CASE PinManifest
  <2>1. /\ pinned' \in 0..MaxManifests /\ live' \subseteq 1..pinned'
        /\ resume' \in [Manifests -> 0..MaxManifests]
    BY <1>12 DEF TypeInv, PinManifest, Manifests
  <2>. QED BY <1>12, <2>1 DEF TypeInv, PinManifest, api
<1>13. CASE RetireBegin
  <2>1. retire' \in Processes /\ retire'.todo = {} /\ retire'.matched = {}
    BY <1>13, IdleIsProcess DEF TypeInv, RetireBegin, Processes
  <2>. QED BY <1>13, <2>1 DEF TypeInv, RetireBegin, ProcessOnly, platform, api
<1>14. CASE PollRegistry
  BY <1>14, MovedProcess DEF TypeInv, PollRegistry, Move, ProcessOnly, platform, api
<1>15. CASE RequestSeal
  <2>1. /\ retire' \in Processes /\ retire'.todo = retire.todo
        /\ retire'.matched = retire.matched
    BY <1>15, MovedProcess DEF TypeInv, RequestSeal, Move
  <2>2. registry' \in Registries /\ registry'.ids = registry.ids
    BY <1>15, OpenedRegistry DEF TypeInv, RequestSeal
  <2>3. retire.under \in Manifests
    BY <1>15 DEF TypeInv, RequestSeal, StillAuthorized, Manifests
  <2>. QED
    BY <1>15, <2>1, <2>2, <2>3 DEF TypeInv, RequestSeal, platform, api
<1>16. CASE ReadSealedRegistry
  BY <1>16, MovedProcess DEF TypeInv, ReadSealedRegistry, Move, ProcessOnly, platform, api
<1>17. CASE CheckAuthorization
  <2>1. /\ retire' \in Processes /\ retire'.todo = registry.ids
        /\ retire'.matched = retire.matched
    BY <1>17 DEF TypeInv, CheckAuthorization, Processes, Registries
  <2>. QED BY <1>17, <2>1 DEF TypeInv, CheckAuthorization, ProcessOnly, platform, api
<1>18. ASSUME NEW w \in Runs, SkipRegistration(w) PROVE TypeInv'
  <2>1. /\ retire' \in Processes /\ retire'.todo = retire.todo \ {w}
        /\ retire'.matched = retire.matched
    BY <1>18, DoneProcess DEF TypeInv, SkipRegistration
  <2>. QED BY <1>18, <2>1 DEF TypeInv, SkipRegistration, ProcessOnly, platform, api
<1>19. ASSUME NEW w \in Runs, MatchClosedRun(w) PROVE TypeInv'
  <2>1. /\ retire' \in Processes /\ retire'.todo = retire.todo \ {w}
        /\ retire'.matched = retire.matched \cup {w}
    BY <1>19, DoneProcess DEF TypeInv, MatchClosedRun
  <2>2. w \in registry.ids
    BY <1>19 DEF TypeInv, MatchClosedRun
  <2>. QED BY <1>19, <2>1, <2>2 DEF TypeInv, MatchClosedRun, ProcessOnly, platform, api
<1>20. ASSUME NEW w \in Runs, SignalRunningRun(w) PROVE TypeInv'
  <2>1. /\ retire' \in Processes /\ retire'.todo = retire.todo \ {w}
        /\ retire'.matched = retire.matched \cup {w}
    BY <1>20, DoneProcess DEF TypeInv, SignalRunningRun
  <2>2. w \in registry.ids
    BY <1>20 DEF TypeInv, SignalRunningRun
  <2>. QED BY <1>20, <2>1, <2>2 DEF TypeInv, SignalRunningRun, platform, api
<1>21. CASE StartDrain
  BY <1>21, MovedProcess DEF TypeInv, StartDrain, Move, ProcessOnly, platform, api
<1>22. CASE IssueReceipt
  <2>1. Cardinality(retire.matched) \in Nat
    BY FS_Subset, FS_CardinalityType DEF TypeInv
  <2>2. receipt' \in Receipts
    BY <1>22, <2>1 DEF TypeInv, IssueReceipt, Receipts, Processes
  <2>. QED BY <1>22, <2>2, IdleIsProcess DEF TypeInv, IssueReceipt, platform, api
<1>23. CASE RetireFails
  BY <1>23, IdleIsProcess DEF TypeInv, RetireFails, ProcessOnly, platform, api
<1>. QED
  BY <1>1, <1>2, <1>3, <1>4, <1>5, <1>6, <1>7, <1>8, <1>9, <1>10, <1>11,
     <1>12, <1>13, <1>14, <1>15, <1>16, <1>17, <1>18, <1>19, <1>20, <1>21,
     <1>22, <1>23
  DEF Next, RetirementProcess

-----------------------------------------------------------------------------
(* The inductive invariant.                                                *)

(* What the replicas have in hand: a run is registered before it may be    *)
(* started, and none is in hand once they are drained.                     *)
ReplicasInv ==
    /\ \A w \in Runs : starts[w] = "registered" => w \in registry.ids
    /\ ingress = "drained" => \A w \in Runs : starts[w] = "idle"
    /\ StartedRunsAreRegistered

(* A pinned manifest attests the drain, and the seal is one that was       *)
(* pinned.                                                                 *)
PlatformInv ==
    /\ pinned > 0 => ingress = "drained" /\ ~ordinary
    /\ Sealed => pinned > 0

Reconciles == retire.at \in {"reconciling", "draining"}

(* What a retirement process has found: it works under a pinned manifest;  *)
(* past the seal it has a seal it accepts, and what it has matched are the *)
(* runs of the generation among the registrations it is done with.         *)
ProcessInv ==
    /\ retire.at # "idle" => retire.under \in 1..pinned
    /\ retire.at = "sealed" \/ Reconciles => Sealed
    /\ ~Reconciles => retire.matched = {}
    /\ Reconciles =>
          /\ SealAccepted
          /\ retire.matched = OwnRuns \cap (registry.ids \ retire.todo)
    /\ retire.at = "draining" => retire.todo = {}

(* What a receipt rests on.                                                *)
ReceiptInv ==
    receipt # NoReceipt =>
        /\ receipt.manifest \in 1..pinned
        /\ Sealed /\ ReceiptIsSound /\ ReceiptCitesItsSeal

IInv == TypeInv /\ ReplicasInv /\ PlatformInv /\ ProcessInv /\ ReceiptInv

-----------------------------------------------------------------------------
(* What no step does.                                                      *)

(* A seal is final: it stays, and so do the registrations it closed.       *)
SealStep == /\ registry.ids \subseteq registry'.ids
            /\ Sealed => registry'.ids = registry.ids /\ registry'.seal = registry.seal

(* What is drained stays drained, and a manifest keeps what it names.      *)
PlatformStep ==
    /\ ingress = "drained" => ingress' = "drained"
    /\ ordinary' => ordinary
    /\ pinned <= pinned'
    /\ \A m \in 1..pinned : resume'[m] = resume[m]

(* A run keeps its generation, once it is terminal stays so, and is        *)
(* started by a replica that has registered it only.                       *)
RunsStep ==
    /\ OwnRuns \subseteq OwnRuns'
    /\ \A w \in OwnRuns : runs[w].status = "terminal" => runs'[w].status = "terminal"
    /\ \A w \in OwnRuns' \ OwnRuns : starts[w] = "registered"

(* The actions that leave the process, or everything but it, alone.        *)
LEMMA ProcessFrame ==
    ASSUME TypeInv, RetirementProcess \/ RetireFails
    PROVE  /\ UNCHANGED <<ingress, ordinary, starts, requested, runs, pinned, live, resume>>
           /\ registry'.ids = registry.ids /\ registry'.seal = registry.seal
<1>1. CASE RequestSeal
  BY <1>1, OpenedRegistry DEF RequestSeal, TypeInv, platform, api
<1>2. CASE ~RequestSeal
  BY <1>2
  DEF RetirementProcess, RetireFails, RetireBegin, PollRegistry,
      ReadSealedRegistry, CheckAuthorization, SkipRegistration,
      MatchClosedRun, SignalRunningRun, StartDrain, IssueReceipt,
      ProcessOnly, platform, api
<1>. QED BY <1>1, <1>2

(* A sealed registry keeps its ids and its seal.                          *)
LEMMA SealStepHolds == TypeInv /\ [Next]_vars => SealStep
<1>. SUFFICES ASSUME TypeInv, [Next]_vars PROVE SealStep
  OBVIOUS
<1>1. ASSUME NEW w \in Runs, RequestRegistration(w) PROVE SealStep
  BY <1>1, OpenedRegistry DEF SealStep, RequestRegistration, TypeInv
<1>2. ASSUME NEW w \in Runs, HandleRegistration(w) PROVE SealStep
  BY <1>2 DEF SealStep, HandleRegistration, TypeInv, Registries
<1>3. ASSUME NEW m \in Manifests, HandleSeal(m) PROVE SealStep
  BY <1>3 DEF SealStep, HandleSeal, SealAuthorized, TypeInv, Registries
<1>4. CASE RetirementProcess \/ RetireFails
  BY <1>4, ProcessFrame DEF SealStep
<1>5. CASE UNCHANGED registry
  BY <1>5 DEF SealStep
<1>. QED
  BY <1>1, <1>2, <1>3, <1>4, <1>5
  DEF Next, vars, StartRun, ReplicaFails, StartElsewhere, RunCloses, Expire,
      DrainIngress, StopOrdinaryWorker, PinManifest

(* The drain is not undone, the manifests keep what they resume.          *)
LEMMA PlatformStepHolds == TypeInv /\ [Next]_vars => PlatformStep
<1>. SUFFICES ASSUME TypeInv, [Next]_vars PROVE PlatformStep
  OBVIOUS
<1>1. CASE UNCHANGED <<ingress, ordinary, pinned, resume>>
  BY <1>1 DEF PlatformStep, TypeInv
<1>2. CASE DrainIngress
  BY <1>2 DEF PlatformStep, DrainIngress, TypeInv, platform
<1>3. CASE StopOrdinaryWorker
  BY <1>3 DEF PlatformStep, StopOrdinaryWorker, TypeInv, platform
<1>4. CASE PinManifest
  <2>1. \A m \in 1..pinned : m \in Manifests /\ m # pinned + 1
    BY GenerationAssumption DEF TypeInv, Manifests
  <2>. QED BY <1>4, <2>1 DEF PlatformStep, PinManifest, TypeInv
<1>5. CASE RetirementProcess \/ RetireFails
  BY <1>1, <1>5, ProcessFrame
<1>. QED
  BY <1>1, <1>2, <1>3, <1>4, <1>5
  DEF Next, vars, platform, RequestRegistration, StartRun, ReplicaFails,
      StartElsewhere, HandleRegistration, RunCloses, HandleSeal, Expire

(* A run starts only where its replica has registered it, and stays ended.*)
LEMMA RunsStepHolds == TypeInv /\ [Next]_vars => RunsStep
<1>. SUFFICES ASSUME TypeInv, [Next]_vars PROVE RunsStep
  OBVIOUS
<1>1. CASE UNCHANGED runs
  BY <1>1 DEF RunsStep, OwnRuns
<1>2. ASSUME NEW w \in Runs, StartRun(w) PROVE RunsStep
  BY <1>2 DEF RunsStep, OwnRuns, StartRun, TypeInv, Executions, Absent
<1>3. ASSUME NEW w \in Runs, StartElsewhere(w) PROVE RunsStep
  BY <1>3 DEF RunsStep, OwnRuns, StartElsewhere, TypeInv, Executions, Absent
<1>4. ASSUME NEW w \in Runs, RunCloses(w) PROVE RunsStep
  BY <1>4 DEF RunsStep, OwnRuns, RunCloses, TypeInv, Executions, Absent
<1>5. CASE RetirementProcess \/ RetireFails
  BY <1>1, <1>5, ProcessFrame
<1>. QED
  BY <1>1, <1>2, <1>3, <1>4, <1>5
  DEF Next, vars, RequestRegistration, ReplicaFails, HandleRegistration,
      HandleSeal, Expire, DrainIngress, StopOrdinaryWorker, PinManifest

-----------------------------------------------------------------------------
(* The invariant, part by part.                                            *)

(* A replica that has registered, or has started its run, is in the registry.*)
LEMMA ReplicasInvNext ==
    TypeInv /\ ReplicasInv /\ [Next]_vars => ReplicasInv'
<1>. SUFFICES ASSUME TypeInv, ReplicasInv, [Next]_vars PROVE ReplicasInv'
  OBVIOUS
<1>0. SealStep /\ PlatformStep /\ RunsStep
  BY SealStepHolds, PlatformStepHolds, RunsStepHolds
<1>1. StartedRunsAreRegistered'
  <2>. SUFFICES ASSUME NEW w \in OwnRuns' PROVE w \in registry'.ids
    BY DEF StartedRunsAreRegistered
  <2>1. w \in Runs
    BY DEF OwnRuns
  <2>. QED
    BY <1>0, <2>1 DEF RunsStep, SealStep, ReplicasInv, StartedRunsAreRegistered
<1>2. ASSUME NEW w \in Runs, starts'[w] = "registered"
      PROVE  w \in registry'.ids
  <2>1. CASE starts[w] = "registered"
    BY <1>0, <2>1 DEF ReplicasInv, SealStep
  <2>2. CASE starts[w] # "registered"
    <3>1. HandleRegistration(w)
      BY <1>2, <2>2, ProcessFrame
      DEF Next, vars, api, RequestRegistration, StartRun, ReplicaFails,
          StartElsewhere, HandleRegistration, RunCloses, HandleSeal, Expire,
          DrainIngress, StopOrdinaryWorker, PinManifest, TypeInv, StartStates
    <3>. QED
      BY <1>2, <2>2, <3>1 DEF HandleRegistration, TypeInv, StartStates, Registries
  <2>. QED BY <2>1, <2>2
<1>3. ASSUME ingress' = "drained", NEW w \in Runs PROVE starts'[w] = "idle"
  <2>1. CASE DrainIngress
    BY <2>1 DEF DrainIngress
  <2>2. CASE ~DrainIngress
    <3>1. ingress = "drained" /\ \A v \in Runs : starts[v] = "idle"
      BY <1>3, <2>2, ProcessFrame
      DEF Next, vars, RequestRegistration, StartRun, ReplicaFails,
          StartElsewhere, HandleRegistration, RunCloses, HandleSeal, Expire,
          StopOrdinaryWorker, PinManifest, ReplicasInv
    <3>2. \A v \in Runs : ~RequestRegistration(v) /\ ~StartRun(v) /\ ~ReplicaFails(v)
      BY <3>1 DEF RequestRegistration, StartRun, ReplicaFails
    <3>. QED
      BY <2>2, <3>1, <3>2, ProcessFrame
      DEF Next, vars, api, StartElsewhere, HandleRegistration, RunCloses,
          HandleSeal, Expire, StopOrdinaryWorker, PinManifest, TypeInv, StartStates
  <2>. QED BY <2>1, <2>2
<1>. QED BY <1>1, <1>2, <1>3 DEF ReplicasInv

(* Once sealed, ingress is drained and no replica starts anything.        *)
LEMMA PlatformInvNext ==
    TypeInv /\ PlatformInv /\ [Next]_vars => PlatformInv'
<1>. SUFFICES ASSUME TypeInv, PlatformInv, [Next]_vars PROVE PlatformInv'
  OBVIOUS
<1>0. SealStep /\ PlatformStep /\ TypeInv'
  BY SealStepHolds, PlatformStepHolds, NextTypeInv
<1>1. ASSUME pinned' > 0 PROVE ingress' = "drained" /\ ~ordinary'
  <2>1. CASE PinManifest
    BY <2>1 DEF PinManifest, ManifestMayIssue
  <2>2. CASE ~PinManifest
    <3>1. pinned' = pinned
      BY <2>2, ProcessFrame
      DEF Next, vars, platform, RequestRegistration, StartRun, ReplicaFails,
          StartElsewhere, HandleRegistration, RunCloses, HandleSeal, Expire,
          DrainIngress, StopOrdinaryWorker
    <3>. QED BY <1>0, <1>1, <3>1 DEF PlatformInv, PlatformStep, TypeInv
  <2>. QED BY <2>1, <2>2
<1>2. ASSUME Sealed' PROVE pinned' > 0
  <2>1. CASE Sealed
    BY <1>0, <2>1 DEF PlatformInv, PlatformStep, TypeInv
  <2>2. CASE ~Sealed
    <3>1. PICK m \in Manifests : HandleSeal(m)
      BY <1>2, <2>2, ProcessFrame, OpenedRegistry
      DEF Next, vars, Sealed, RequestRegistration, StartRun, ReplicaFails,
          StartElsewhere, HandleRegistration, RunCloses, Expire,
          DrainIngress, StopOrdinaryWorker, PinManifest, TypeInv, Registries
    <3>2. m \in live
      BY <1>2, <2>2, <3>1 DEF HandleSeal, SealAuthorized, Sealed
    <3>. QED BY <1>0, <3>2 DEF TypeInv, PlatformStep
  <2>. QED BY <2>1, <2>2
<1>. QED BY <1>1, <1>2 DEF PlatformInv

(* Once the registry is sealed, the runs of the generation are those there *)
(* are.                                                                    *)
LEMMA GenerationIsComplete ==
    ASSUME TypeInv, ReplicasInv, PlatformInv, [Next]_vars, Sealed
    PROVE  /\ OwnRuns' = OwnRuns /\ Sealed'
           /\ registry'.ids = registry.ids /\ registry'.seal = registry.seal
<1>1. SealStep /\ RunsStep
  BY SealStepHolds, RunsStepHolds
<1>2. \A w \in Runs : starts[w] = "idle"
  BY DEF PlatformInv, ReplicasInv
<1>3. OwnRuns' \subseteq OwnRuns
  BY <1>1, <1>2 DEF RunsStep, OwnRuns
<1>. QED BY <1>1, <1>3 DEF SealStep, RunsStep, Sealed

(* A process that reconciles has matched what it took from the registry.  *)
LEMMA ProcessInvNext == IInv /\ [Next]_vars => ProcessInv'
<1>. SUFFICES ASSUME IInv, [Next]_vars PROVE ProcessInv'
  OBVIOUS
<1>0. TypeInv /\ ReplicasInv /\ PlatformInv /\ ProcessInv
  BY DEF IInv
<1>1. TypeInv' /\ PlatformStep
  BY <1>0, NextTypeInv, PlatformStepHolds
<1>2. Sealed => /\ OwnRuns' = OwnRuns /\ Sealed'
                /\ registry'.ids = registry.ids /\ registry'.seal = registry.seal
  BY <1>0, GenerationIsComplete
<1>3. retire.at # "idle" =>
         /\ retire.under \in 1..pinned /\ retire.under \in 1..pinned'
         /\ resume'[retire.under] = resume[retire.under]
  BY <1>0, <1>1 DEF ProcessInv, PlatformStep, TypeInv
<1>4. ASSUME retire' = Idle PROVE ProcessInv'
  BY <1>4 DEF ProcessInv, Idle, Reconciles
<1>5. ASSUME retire' = retire PROVE ProcessInv'
  BY <1>0, <1>2, <1>3, <1>5 DEF ProcessInv, Reconciles, SealAccepted
<1>6. CASE RetireBegin
  <2>1. /\ retire'.at = "starting" /\ retire'.under = pinned
        /\ retire'.matched = {}
    BY <1>6, IdleIsProcess DEF RetireBegin, Processes
  <2>2. pinned' = pinned /\ pinned \in 1..pinned
    BY <1>0, <1>6 DEF RetireBegin, ProcessOnly, platform, TypeInv
  <2>. QED BY <2>1, <2>2 DEF ProcessInv, Reconciles
<1>7. CASE PollRegistry \/ RequestSeal \/ ReadSealedRegistry
  <2>1. \E to \in {"polling", "sealing", "sealed"} :
           /\ to = "sealed" => Sealed
           /\ ~Reconciles /\ retire.at # "idle" /\ retire' = [retire EXCEPT !.at = to]
    BY <1>7
    DEF PollRegistry, RequestSeal, ReadSealedRegistry, Move, Reconciles
  <2>. QED
    BY <1>0, <1>2, <1>3, <2>1, MovedProcess DEF ProcessInv, Reconciles, TypeInv
<1>8. CASE CheckAuthorization
  <2>1. /\ retire'.at = "reconciling" /\ retire'.under = retire.under
        /\ retire'.todo = registry.ids /\ retire'.matched = {}
    BY <1>0, <1>8
    DEF CheckAuthorization, ProcessInv, Reconciles, TypeInv, Processes
  <2>2. SealAccepted'
    BY <1>0, <1>2, <1>3, <1>8, <2>1 DEF CheckAuthorization, SealAccepted, ProcessInv
  <2>. QED
    BY <1>0, <1>2, <1>3, <1>8, <2>1, <2>2
    DEF CheckAuthorization, ProcessInv, Reconciles
<1>9. ASSUME NEW w \in Runs,
             SkipRegistration(w) \/ MatchClosedRun(w) \/ SignalRunningRun(w)
      PROVE  ProcessInv'
  <2>. DEFINE todo == retire.todo \ {w}
              matched == retire.matched \cup {w}
              skipped == [retire EXCEPT !.todo = todo, !.uncommitted = retire.uncommitted + 1]
              closed == [retire EXCEPT !.todo = todo, !.matched = matched]
              running == [retire EXCEPT !.todo = todo, !.matched = matched,
                                        !.targets = retire.targets + 1]
  <2>10. /\ retire.at = "reconciling" /\ w \in retire.todo
         /\ retire' = IF w \notin OwnRuns THEN skipped
                      ELSE retire'
         /\ w \in OwnRuns => retire' \in {closed, running}
    BY <1>9 DEF SkipRegistration, MatchClosedRun, SignalRunningRun, Uncommitted, OwnRuns
  <2>11. /\ \A q \in {skipped, closed, running} :
               q.at = retire.at /\ q.under = retire.under /\ q.todo = todo
         /\ skipped.matched = retire.matched
         /\ closed.matched = matched /\ running.matched = matched
    BY <1>0, DoneProcess DEF TypeInv
  <2>12. retire' \in {skipped, closed, running}
    BY <2>10
  <2>1. /\ retire.at = "reconciling" /\ w \in retire.todo
        /\ retire'.at = "reconciling" /\ retire'.under = retire.under
        /\ retire'.todo = retire.todo \ {w}
        /\ retire'.matched = IF w \in OwnRuns THEN retire.matched \cup {w}
                                              ELSE retire.matched
    <3>. HIDE DEF skipped, closed, running
    <3>. QED BY <2>10, <2>11, <2>12
  <2>2. w \in registry.ids
    BY <1>0, <2>1 DEF TypeInv
  <2>3. SealAccepted'
    BY <1>0, <1>2, <1>3, <2>1 DEF SealAccepted, ProcessInv, Reconciles
  <2>4. retire'.matched = OwnRuns' \cap (registry'.ids \ retire'.todo)
    BY <1>0, <1>2, <2>1, <2>2 DEF ProcessInv, Reconciles
  <2>. QED
    BY <1>0, <1>2, <1>3, <2>1, <2>3, <2>4 DEF ProcessInv, Reconciles
<1>10. CASE StartDrain
  <2>1. /\ retire.at = "reconciling" /\ retire.todo = {}
        /\ retire'.at = "draining" /\ retire'.under = retire.under
        /\ retire'.todo = {} /\ retire'.matched = retire.matched
    BY <1>0, <1>10, MovedProcess DEF StartDrain, Move, TypeInv
  <2>2. SealAccepted'
    BY <1>0, <1>2, <1>3, <2>1 DEF SealAccepted, ProcessInv, Reconciles
  <2>. QED
    BY <1>0, <1>2, <1>3, <2>1, <2>2 DEF ProcessInv, Reconciles
<1>. QED
  BY <1>4, <1>5, <1>6, <1>7, <1>8, <1>9, <1>10
  DEF Next, RetirementProcess, vars, RequestRegistration, StartRun,
      ReplicaFails, StartElsewhere, HandleRegistration, RunCloses, HandleSeal,
      Expire, DrainIngress, StopOrdinaryWorker, PinManifest, IssueReceipt,
      RetireFails

(* An issued receipt stays sound: nothing it counts changes after the seal.*)
LEMMA ReceiptInvNext == IInv /\ [Next]_vars => ReceiptInv'
<1>. SUFFICES ASSUME IInv, [Next]_vars PROVE ReceiptInv'
  OBVIOUS
<1>0. /\ TypeInv /\ ReplicasInv /\ PlatformInv /\ ProcessInv /\ ReceiptInv
      /\ TypeInv' /\ PlatformStep /\ RunsStep
  BY NextTypeInv, PlatformStepHolds, RunsStepHolds DEF IInv
<1>1. CASE receipt' = receipt
  <2>. SUFFICES ASSUME receipt # NoReceipt PROVE ReceiptInv'
    BY <1>1 DEF ReceiptInv
  <2>1. /\ receipt.manifest \in 1..pinned /\ receipt.manifest \in 1..pinned'
        /\ resume'[receipt.manifest] = resume[receipt.manifest]
    BY <1>0 DEF ReceiptInv, PlatformStep, TypeInv
  <2>2. Sealed
    BY <1>0 DEF ReceiptInv
  <2>3. OwnRuns' = OwnRuns /\ registry'.seal = registry.seal /\ Sealed'
    BY <1>0, <2>2, GenerationIsComplete
  <2>4. ReceiptIsSound'
    BY <1>0, <1>1, <2>3 DEF ReceiptInv, ReceiptIsSound, RunsStep
  <2>5. ReceiptCitesItsSeal'
    BY <1>0, <1>1, <2>1, <2>3 DEF ReceiptInv, ReceiptCitesItsSeal
  <2>. QED
    BY <1>1, <2>1, <2>3, <2>4, <2>5 DEF ReceiptInv
<1>2. CASE receipt' # receipt
  <2>1. IssueReceipt
    BY <1>2
    DEF Next, RetirementProcess, vars, RequestRegistration, StartRun,
        ReplicaFails, StartElsewhere, HandleRegistration, RunCloses,
        HandleSeal, Expire, DrainIngress, StopOrdinaryWorker, PinManifest,
        RetireBegin, PollRegistry, RequestSeal, ReadSealedRegistry,
        CheckAuthorization, SkipRegistration, MatchClosedRun,
        SignalRunningRun, StartDrain, RetireFails, ProcessOnly
  <2>2. /\ receipt'.manifest = retire.under /\ receipt'.matched = retire.matched
        /\ UNCHANGED <<runs, registry, resume, pinned>>
        /\ retire.at = "draining" /\ AllTerminal
    BY <1>2, <2>1 DEF IssueReceipt, platform
  <2>3. retire.matched = OwnRuns /\ SealAccepted /\ Sealed /\ retire.under \in 1..pinned
    BY <1>0, <2>2 DEF ProcessInv, Reconciles, ReplicasInv, StartedRunsAreRegistered
  <2>. QED
    BY <2>2, <2>3
    DEF ReceiptInv, ReceiptIsSound, ReceiptCitesItsSeal, SealAccepted,
        AllTerminal, OwnRuns, Sealed
<1>. QED BY <1>1, <1>2

-----------------------------------------------------------------------------
(* The theorems.                                                           *)

(* The inductive invariant holds always.                                   *)
THEOREM RetirementInvariant == Spec => []IInv
<1>1. Init => IInv
  <2>. SUFFICES ASSUME Init PROVE IInv
    OBVIOUS
  <2>1. TypeInv
    BY InitTypeInv
  <2>. QED
    BY <2>1
    DEF Init, IInv, ReplicasInv, StartedRunsAreRegistered, OwnRuns, Absent,
        PlatformInv, Sealed, ProcessInv, Reconciles, Idle, ReceiptInv
<1>2. IInv /\ [Next]_vars => IInv'
  BY NextTypeInv, ReplicasInvNext, PlatformInvNext, ProcessInvNext,
     ReceiptInvNext
  DEF IInv
<1>. QED BY <1>1, <1>2, PTL DEF Spec

(* The variables keep their types; with any set of run ids the registry    *)
(* and the counts of a receipt stay finite.                                *)
THEOREM RetirementTypes == Spec => []TypeOK
<1>1. IInv => TypeOK
  BY TypeInvIsTypeOK DEF IInv
<1>. QED BY <1>1, RetirementInvariant, PTL

(* No run of the generation is missing from its registry: replicas die     *)
(* between registering and starting, never the other way round.            *)
THEOREM RegistryNamesEveryRun == Spec => []StartedRunsAreRegistered
<1>1. IInv => StartedRunsAreRegistered
  BY DEF IInv, ReplicasInv
<1>. QED BY <1>1, RetirementInvariant, PTL

(* A receipt names every run of the generation, all of them terminal, and  *)
(* stays true: crashes, refreshed manifests and second retirements         *)
(* included.                                                               *)
THEOREM ReceiptAccountsForAll == Spec => []ReceiptIsSound
<1>1. IInv => ReceiptIsSound
  BY DEF IInv, ReceiptInv, ReceiptIsSound
<1>. QED BY <1>1, RetirementInvariant, PTL

(* The manifest of a receipt sealed the registry or names the one that did.*)
THEOREM ReceiptCitesSeal == Spec => []ReceiptCitesItsSeal
<1>1. IInv => ReceiptCitesItsSeal
  BY DEF IInv, ReceiptInv, ReceiptCitesItsSeal
<1>. QED BY <1>1, RetirementInvariant, PTL

(* A sealed registry never changes again: a registration handled after the *)
(* seal is refused, and a second seal too.                                 *)
THEOREM SealIsFinal == Spec => [][SealStep]_vars
<1>1. IInv /\ [Next]_vars => SealStep
  BY SealStepHolds DEF IInv
<1>. QED BY <1>1, RetirementInvariant, PTL DEF Spec
=============================================================================

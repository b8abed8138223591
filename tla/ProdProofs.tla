----------------------------- MODULE ProdProofs -----------------------------
(* Proofs about the production deployments of Fleet, for every value of its  *)
(* constants: they follow the results of the builds, and a sync leaves none  *)
(* of them waiting for a request.                                            *)
EXTENDS FleetProofs

(* Outside a sync and a restart the map and its production deployments stay. *)
LEMMA ProdKept ==
    ASSUME [Next]_vars, ~Restart, \A by \in Syncers \union {"builder"} : ~BeginSync(by)
    PROVE  UNCHANGED <<inMap, prod>>
  <1> USE DEF mapVars, loaded, vars
  <1>1. CASE Syncs
    BY <1>1 DEF Syncs, SyncStep, SyncWithDb, EnqueueRead, EnqueueWrite, TurnToDowngrades, DowngradeRead,
                DowngradeWrite, Visit, Visited, SyncWithDbUnlocks, TriggerWorkers
  <1>2. CASE Builds
    BY <1>2 DEF Builds, BuildStep, BuilderRecv, GetContainerToBuild, SetupDb, MarkBuilding,
                BuildImage, BuildPanics, BuildSucceeds, BuildFails, RecordResult, KeepResult, EndBuild,
                BuilderLocks, BuilderUnlocks
  <1>3. CASE Requests \/ Environment \/ Cleanings
    BY <1>3 DEF Requests, Environment, InsertRow, DeleteRow, Cleanings, CleanerRecv,
                ListContainers, ListFails, RemoveContainer, RemoveFails, CleanerRests, IsContainerInUse
  <1> QED
    BY <1>1, <1>2, <1>3 DEF Next

(* Results change where a sync of the build worker is to follow, and there.  *)
LEMMA ResultKept ==
    ASSUME [Next]_vars, ~Restart, \A by \in Syncers \union {"builder"} : ~BeginSync(by),
           builder'.pc \notin {"finishStatus", "lock"}
    PROVE  UNCHANGED result
  <1> USE DEF mapVars, loaded, vars
  <1>1. CASE Syncs
    BY <1>1 DEF Syncs, SyncStep, SyncWithDb, EnqueueRead, EnqueueWrite, TurnToDowngrades, DowngradeRead,
                DowngradeWrite, Visit, Visited, SyncWithDbUnlocks, TriggerWorkers
  <1>2. CASE Builds
    BY <1>2 DEF Builds, BuildStep, BuilderRecv, GetContainerToBuild, SetupDb, MarkBuilding,
                BuildImage, BuildPanics, BuildSucceeds, BuildFails, RecordResult, KeepResult, EndBuild,
                BuilderLocks, BuilderUnlocks, BuilderGoto
  <1>3. CASE Requests \/ Environment \/ Cleanings
    BY <1>3 DEF Requests, Environment, InsertRow, DeleteRow, Cleanings, CleanerRecv,
                ListContainers, ListFails, RemoveContainer, RemoveFails, CleanerRests, IsContainerInUse
  <1> QED
    BY <1>1, <1>2, <1>3 DEF Next

(* Only the build worker's sync takes it away from "lock".                   *)
LEMMA LockIsLeftBySync ==
    ASSUME MapConstants, SyncHasOwner, [Next]_vars, ~Restart,
           \A by \in Syncers \union {"builder"} : ~BeginSync(by),
           builder.pc \in {"finishStatus", "lock"}
    PROVE  builder'.pc \in {"finishStatus", "lock"}
  <1> USE DEF workerVars, vars
  <1>0. ~BuilderUnlocks
    BY DEF BuilderUnlocks, SyncOver, SyncHasOwner, MapReadable, BuilderAt, MapConstants
  <1>1. CASE Builds
    BY <1>0, <1>1 DEF Builds, BuildStep, BuilderRecv, GetContainerToBuild, SetupDb, MarkBuilding,
                BuildImage, BuildPanics, BuildSucceeds, BuildFails, RecordResult, KeepResult, EndBuild,
                BuilderLocks, BuilderGoto, BuilderAt
  <1>2. CASE Syncs \/ Requests \/ Environment \/ Cleanings
    BY <1>2 DEF Syncs, Requests, Environment, Cleanings, CleanerRecv,
                ListContainers, ListFails, RemoveContainer, RemoveFails, CleanerRests, IsContainerInUse
  <1> QED
    BY <1>1, <1>2 DEF Next

(* An empty map, as before the first sync, has no production deployment.     *)
LEMMA EmptyMapHasNoProd ==
    ASSUME NEW results
    PROVE  ProdOfAll({}, results) = {}
  BY ProdIsInMap

(* The production deployment of every project is its latest built one, else  *)
(* its latest one (map.rs:181-226), but from the moment a build stores its   *)
(* result until the sync that the build worker runs next (build.rs:38-43).   *)
THEOREM ProdFollowsTheBuilds == Spec => []ProdFollowsResults
  <1>1. Init => ProdFollowsResults
    BY EmptyMapHasNoProd DEF Init, MapInit, ProdFollowsResults
  <1>2. SyncHasOwner /\ ProdFollowsResults /\ [Next]_vars => ProdFollowsResults'
    <2> SUFFICES ASSUME SyncHasOwner, ProdFollowsResults, [Next]_vars
                 PROVE  ProdFollowsResults'
      OBVIOUS
    <2>1. CASE Restart
      BY <2>1, EmptyMapHasNoProd DEF Restart, ProdFollowsResults
    <2>2. ASSUME NEW by \in Syncers \union {"builder"}, BeginSync(by)
          PROVE  ProdFollowsResults'
      BY <2>2 DEF BeginSync, ProdFollowsResults
    <2>3. CASE ~Restart /\ \A by \in Syncers \union {"builder"} : ~BeginSync(by)
      BY <2>3, ProdKept, ResultKept, LockIsLeftBySync, MapConstants DEF ProdFollowsResults
    <2> QED
      BY <2>1, <2>2, <2>3
  <1>3. OwnerInv => SyncHasOwner
    BY DEF OwnerInv
  <1> QED
    BY <1>1, <1>2, <1>3, OwnerInvHolds, PTL DEF Spec

-----------------------------------------------------------------------------
(* Production deployments are forced.  The invariant follows the visit of a  *)
(* sync: what is still Built is still to be visited.                         *)

Waiting == {c \in prod : Is(c, "Built")}
ForcedInv ==
    /\ sync.phase \in {"enqueue", "enqueueWrite"} => Waiting \subseteq sync.todo
    /\ sync.phase \in {"free", "downgrade", "downgradeWrite"} => Waiting = {}

NothingNewBuilt == \A c \in Containers : Is(c, "Built")' => Is(c, "Built")

(* A step that makes nothing Built leaves no more for a sync to visit.       *)
LEMMA StillForced ==
    ASSUME TypeInv, ForcedInv, NothingNewBuilt, UNCHANGED <<prod, sync>>
    PROVE  ForcedInv'
  BY DEF ForcedInv, Waiting, NothingNewBuilt, TypeInv, TypeOK, MapTypeOK, Apps

(* A sync visits every production deployment that is Built before it goes on *)
(* to the downgrades.                                                        *)
LEMMA SyncForces ==
    ASSUME TypeInv, ForcedInv, Syncs
    PROVE  ForcedInv'
  <1> USE DEF TypeInv, TypeOK, ContainerTypeOK, MapTypeOK, ForcedInv, Waiting, Is, Apps
  <1>1. ASSUME NEW c \in Containers, EnqueueRead(c)
        PROVE  ForcedInv'
    BY <1>1 DEF EnqueueRead, Visit, SyncGoto, containerVars, loaded
  <1>2. ASSUME NEW c \in Containers, DowngradeRead(c)
        PROVE  ForcedInv'
    BY <1>2 DEF DowngradeRead, Visit, SyncGoto, containerVars, loaded
  <1>3. CASE EnqueueWrite
    <2>1. Waiting' \subseteq Waiting \ {sync.c}
      BY <1>3 DEF EnqueueWrite, Visited, Write, Queued, loaded
    <2> QED
      BY <1>3, <2>1 DEF EnqueueWrite, Visited, SyncGoto
  <1>4. CASE TurnToDowngrades
    BY <1>4 DEF TurnToDowngrades, SyncGoto, containerVars, loaded
  <1>5. CASE DowngradeWrite
    <2>1. Waiting' \subseteq Waiting
      BY <1>5 DEF DowngradeWrite, Visited, Write, Plain, loaded
    <2> QED
      BY <1>5, <2>1 DEF DowngradeWrite, Visited, SyncGoto
  <1>6. ASSUME NEW s \in Syncers, SyncWithDb(s)
        PROVE  ForcedInv'
    BY <1>6 DEF SyncWithDb, BeginSync
  <1>7. ASSUME NEW s \in Syncers, SyncWithDbUnlocks(s)
        PROVE  ForcedInv'
    BY <1>7 DEF SyncWithDbUnlocks, SyncOver, NoSync, containerVars, loaded
  <1>8. ASSUME NEW s \in Syncers, TriggerWorkers(s)
        PROVE  ForcedInv'
    BY <1>8 DEF TriggerWorkers, loaded
  <1> QED
    BY <1>1, <1>2, <1>3, <1>4, <1>5, <1>6, <1>7, <1>8 DEF Syncs, SyncStep

(* The build worker makes no container Built.                                *)
LEMMA BuildForces ==
    ASSUME TypeInv, ForcedInv, Builds
    PROVE  ForcedInv'
  <1> USE DEF TypeInv, TypeOK, ContainerTypeOK, NothingNewBuilt, Is, mapVars, loaded
  <1>1. CASE BuilderLocks
    BY <1>1 DEF BuilderLocks, BeginSync, ForcedInv, Waiting
  <1>2. CASE BuilderUnlocks
    BY <1>2 DEF BuilderUnlocks, SyncOver, NoSync, containerVars, ForcedInv, Waiting
  <1>3. CASE MarkBuilding
    <2>1. NothingNewBuilt
      BY <1>3 DEF MarkBuilding, Write, Plain
    <2> QED
      BY <1>3, <2>1, StillForced DEF MarkBuilding
  <1>4. CASE BuildSucceeds \/ BuildFails
    <2>1. NothingNewBuilt
      BY <1>4 DEF BuildSucceeds, BuildFails, EndBuild, RecordResult, KeepResult, Write, Plain,
                  containerVars
    <2>2. UNCHANGED <<prod, sync>>
      BY <1>4 DEF BuildSucceeds, BuildFails, EndBuild, RecordResult, KeepResult
    <2> QED
      BY <2>1, <2>2, StillForced
  <1>5. CASE BuilderRecv \/ GetContainerToBuild \/ SetupDb \/ BuildImage \/ BuildPanics
    BY <1>5, StillForced
       DEF BuilderRecv, GetContainerToBuild, SetupDb, BuildImage, BuildPanics, containerVars
  <1> QED
    BY <1>1, <1>2, <1>3, <1>4, <1>5 DEF Builds, BuildStep

(* A request makes no container Built.                                       *)
LEMMA RequestForces ==
    ASSUME TypeInv, ForcedInv, Requests
    PROVE  ForcedInv'
  <1>1. PICK k \in Clients : ClientStep(k) \/ \E c \in Containers : Request(k, c)
    BY DEF Requests
  <1>2. UNCHANGED <<prod, sync>>
    BY DEF Requests, mapVars, loaded
  <1>3. NothingNewBuilt
    <2> USE DEF TypeInv, TypeOK, ContainerTypeOK, NothingNewBuilt, Is
    <2>1. CASE RequeueBuilt(k)
      BY <2>1 DEF RequeueBuilt, Write, Queued
    <2>2. CASE ClaimStart(k)
      BY <2>2 DEF ClaimStart, Write, Plain
    <2>3. CASE PublishReady(k)
      BY <2>3 DEF PublishReady, Write, Ready
    <2>4. CASE status' = status
      BY <2>4
    <2> QED
      BY <1>1, <2>1, <2>2, <2>3, <2>4
         DEF ClientStep, Request, Found, AccessReady, AccessClone, RefreshAccess, TriggerBuild,
             CreateContainer, RunContainer, IsOnline, AbandonStart, WaitReady, Done
  <1> QED
    BY <1>2, <1>3, StillForced

(* Between syncs no production deployment is left for a request to have it   *)
(* built: the sync that finds one Built queues it (map.rs:254-266).          *)
THEOREM ProdIsNeverLazy == Spec => []ProdIsForced
  <1>1. Init => ForcedInv
    BY DEF Init, MapInit, NoSync, ForcedInv, Waiting
  <1>2. TypeInv /\ ForcedInv /\ [Next]_vars => ForcedInv'
    <2> SUFFICES ASSUME TypeInv, ForcedInv, [Next]_vars
                 PROVE  ForcedInv'
      OBVIOUS
    <2>1. CASE UNCHANGED vars
      BY <2>1 DEF vars, containerVars, mapVars, loaded, ForcedInv, Waiting, Is
    <2>2. CASE Environment \/ Cleanings
      <3>1. UNCHANGED <<prod, sync>> /\ UNCHANGED status
        BY <2>2 DEF Environment, InsertRow, DeleteRow, ThirtySecondsPass, DockerExits, Cleanings,
                    CleanerRecv, ListContainers, ListFails, RemoveContainer, RemoveFails, CleanerRests,
                    IsContainerInUse, containerVars, mapVars, loaded
      <3> QED
        BY <3>1, StillForced DEF NothingNewBuilt, Is
    <2>3. CASE Restart
      BY <2>3 DEF Restart, NoSync, ForcedInv, Waiting
    <2> QED
      BY <2>1, <2>2, <2>3, SyncForces, BuildForces, RequestForces DEF Next
  <1>3. OwnerInv => TypeInv
    BY DEF OwnerInv
  <1>4. ForcedInv => ProdIsForced
    BY DEF ForcedInv, Waiting, ProdIsForced, MapReadable
  <1> QED
    BY <1>1, <1>2, <1>3, <1>4, OwnerInvHolds, PTL DEF Spec
=============================================================================

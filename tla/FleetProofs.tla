---------------------------- MODULE FleetProofs ----------------------------
(* Proofs about Fleet, for every value of its constants: its types, and that *)
(* no queued container is forgotten.                                         *)
EXTENDS Fleet, WellFoundedInduction, TLAPS

(* What TypeOK leaves out of the types: a Ready status and a request that    *)
(* holds a docker container remember an id, a request under way a container. *)
Holding == {"run", "poll", "publish", "refresh", "using"}
IdsKnown ==
    /\ \A c \in Containers : Is(c, "Ready") => status[c].id \in Ids
    /\ \A k \in Clients : client[k].pc \in Holding => client[k].id \in Ids
    /\ \A k \in Clients : ~At(k, "idle") => client[k].c \in Containers

TypeInv == TypeOK /\ IdsKnown

-----------------------------------------------------------------------------
(* Types.                                                                    *)

(* The production deployments are deployments of the map and of a default    *)
(* branch.                                                                   *)
LEMMA ProdIsInMap ==
    ASSUME NEW map, NEW results
    PROVE  ProdOfAll(map, results) \subseteq map \cap DefaultBranch
  BY DEF ProdOfAll, ProdOf, Latest

(* The three ways to make a status make one of the right type.               *)
LEMMA PlainTypes ==
    ASSUME ContainerConstants, NEW name \in StatusNames, NEW d \in Ids, NEW t \in 0..MaxInstant
    PROVE  /\ Plain(name) \in Statuses
           /\ Queued(t) \in Statuses
           /\ Ready(d) \in Statuses
  BY DEF ContainerConstants, Plain, Queued, Ready, Statuses, StatusNames

(* A step of a request keeps the types of the containers and of the          *)
(* requests, and holds an id where it should.                                *)
LEMMA ClientTypes ==
    ASSUME ContainerConstants, ContainerTypeOK, IdsKnown,
           NEW k \in Clients, ClientStep(k)
    PROVE  ContainerTypeOK' /\ IdsKnown'
  <1>0. ~At(k, "idle") => client[k].c \in Containers /\ status[client[k].c] \in Statuses
    BY DEF ContainerTypeOK, IdsKnown
  <1> USE DEF ContainerConstants, ContainerTypeOK, IdsKnown, Holding, At, Goto, Leave, AtRest,
              Hold, Is, ClientPCs, Owning
  <1>1. CASE AccessReady(k)
    BY <1>0, <1>1 DEF AccessReady, Statuses, StatusNames
  <1>2. CASE AccessClone(k)
    BY <1>0, <1>2 DEF AccessClone, Statuses, StatusNames
  <1>3. CASE RefreshAccess(k)
    BY <1>0, <1>3 DEF RefreshAccess
  <1>4. CASE RequeueBuilt(k)
    BY <1>0, <1>4 DEF RequeueBuilt, Write, Queued, Statuses, StatusNames
  <1>5. CASE TriggerBuild(k)
    BY <1>0, <1>5 DEF TriggerBuild
  <1>6. CASE ClaimStart(k)
    <2>1. CASE Is(client[k].c, "StandBy") /\ Write(client[k].c, Plain("Starting"))
               /\ Goto(k, "create") /\ UNCHANGED <<idle, docker, buildSignal, late>>
      <3>1. client[k].c \in Containers /\ Plain("Starting") \in Statuses
            /\ Plain("Starting").name # "Ready"
        BY <1>0, <1>6 DEF ClaimStart, Plain, Statuses, StatusNames
      <3>2. status' \in [Containers -> Statuses]
            /\ \A c \in Containers : Is(c, "Ready")' => status'[c] = status[c] /\ Is(c, "Ready")
        BY <2>1, <3>1 DEF Write
      <3>3. client' = [client EXCEPT ![k] = [pc |-> "create", c |-> client[k].c, id |-> client[k].id]]
            /\ UNCHANGED <<idle, docker, buildSignal, late>>
        BY <2>1
      <3> QED
        BY <3>1, <3>2, <3>3
    <2>2. CASE Is(client[k].c, "Ready") /\ Hold(k, "using", status[client[k].c].id)
               /\ UNCHANGED <<status, idle, docker, buildSignal, late>>
      BY <1>0, <1>6, <2>2 DEF ClaimStart
    <2>3. CASE (Goto(k, "wait") \/ Leave(k)) /\ At(k, "start")
               /\ UNCHANGED <<status, idle, docker, buildSignal, late>>
      BY <1>0, <2>3
    <2> QED
      BY <1>6, <2>1, <2>2, <2>3 DEF ClaimStart
  <1>7. CASE CreateContainer(k)
    BY <1>0, <1>7 DEF CreateContainer, DockerStates
  <1>8. CASE RunContainer(k)
    BY <1>0, <1>8 DEF RunContainer, DockerStates
  <1>9. CASE IsOnline(k)
    BY <1>0, <1>9 DEF IsOnline, DockerStates
  <1>10. CASE AbandonStart(k)
    BY <1>0, <1>10 DEF AbandonStart
  <1>11. CASE PublishReady(k)
    BY <1>0, <1>11 DEF PublishReady, Write, Ready, Statuses, StatusNames
  <1>12. CASE WaitReady(k)
    BY <1>0, <1>12 DEF WaitReady, Statuses, StatusNames
  <1>13. CASE Done(k)
    BY <1>0, <1>13 DEF Done
  <1> QED
    BY <1>0, <1>1, <1>2, <1>3, <1>4, <1>5, <1>6, <1>7, <1>8, <1>9, <1>10, <1>11, <1>12, <1>13
       DEF ClientStep

(* Every step of the others leaves the requests alone, so of IdsKnown only   *)
(* the part on statuses is at stake.                                         *)
StatusTypes == status \in [Containers -> Statuses]
               /\ \A c \in Containers : Is(c, "Ready") => status[c].id \in Ids

(* Writing a status of the right type keeps the types of all the statuses.   *)
LEMMA WriteTypes ==
    ASSUME ContainerConstants, status \in [Containers -> Statuses], IdsKnown,
           NEW c, NEW s \in Statuses, s.name = "Ready" => s.id \in Ids, Write(c, s)
    PROVE  StatusTypes'
  BY DEF StatusTypes, Write, Is, IdsKnown

(* The map part of a sync: what it loads is of the right type and Ready is   *)
(* not among it.                                                             *)
LEMMA BeginSyncTypes ==
    ASSUME ContainerConstants, MapConstants, TypeInv,
           NEW by \in Syncers \union {"builder"}, BeginSync(by)
    PROVE  /\ StatusTypes'
           /\ result' \in [Containers -> Results]
           /\ inMap' \subseteq Containers
           /\ prod' \subseteq Apps /\ prod' \subseteq inMap'
           /\ sync' \in [by : Syncers \union {"nobody", "builder"}, phase : SyncPhases,
                         todo : SUBSET Containers, c : Containers \union {NoContainer}]
  <1> USE DEF TypeInv, TypeOK, ContainerTypeOK, MapTypeOK, IdsKnown, BeginSync
  <1>1. inMap' \subseteq Containers
    BY DEF MapAfterSync, Live, Apps
  <1>2. prod' \subseteq inMap' /\ prod' \subseteq Apps
    BY ProdIsInMap DEF MapConstants
  <1>3. \A c \in Containers : InitialStatus(c) \in Statuses
                             /\ InitialStatus(c).name # "Ready"
                             /\ InitialResult(c) \in Results
    BY PlainTypes
       DEF InitialStatus, InitialResult, Plain, Apps, Results, Statuses, StatusNames,
           ContainerConstants
  <1>4. StatusTypes'
    BY <1>3 DEF StatusTypes, Is
  <1>5. result' \in [Containers -> Results]
    BY <1>3
  <1>6. sync' \in [by : Syncers \union {"nobody", "builder"}, phase : SyncPhases,
                  todo : SUBSET Containers, c : Containers \union {NoContainer}]
    BY <1>2 DEF SyncPhases, Apps
  <1> QED
    BY <1>1, <1>2, <1>4, <1>5, <1>6

(* A sync keeps the types.                                                   *)
LEMMA SyncTypes ==
    ASSUME ContainerConstants, MapConstants, TypeInv, Syncs
    PROVE  TypeInv'
  <1> USE DEF TypeInv, TypeOK, ContainerTypeOK, MapTypeOK, workerVars
  <1>1. ASSUME NEW c \in Containers, EnqueueRead(c) \/ DowngradeRead(c), UNCHANGED workerVars
        PROVE  TypeInv'
    BY <1>1 DEF EnqueueRead, DowngradeRead, Visit, SyncGoto, SyncPhases, containerVars, dbVars, loaded,
                IdsKnown, Is, At
  <1>2. ASSUME EnqueueWrite, UNCHANGED workerVars
        PROVE  TypeInv'
    <2>1. StatusTypes'
      <3>1. Queued(0) \in Statuses /\ Queued(0).name # "Ready"
        BY DEF Queued, Statuses, StatusNames, ContainerConstants
      <3> QED
        BY <1>2, <3>1, WriteTypes DEF EnqueueWrite
    <2> QED
      BY <1>2, <2>1 DEF EnqueueWrite, Visited, SyncGoto, SyncPhases, StatusTypes, dbVars, loaded,
                        IdsKnown, Is, At
  <1>3. ASSUME TurnToDowngrades, UNCHANGED workerVars
        PROVE  TypeInv'
    BY <1>3 DEF TurnToDowngrades, SyncGoto, SyncPhases, containerVars, dbVars, loaded, IdsKnown, Is, At, Apps
  <1>4. ASSUME DowngradeWrite, UNCHANGED workerVars
        PROVE  TypeInv'
    <2>1. StatusTypes'
      <3>1. Plain("StandBy") \in Statuses /\ Plain("StandBy").name # "Ready"
        BY DEF Plain, Statuses, StatusNames, ContainerConstants
      <3> QED
        BY <1>4, <3>1, WriteTypes DEF DowngradeWrite
    <2> QED
      BY <1>4, <2>1 DEF DowngradeWrite, Visited, SyncGoto, SyncPhases, StatusTypes, dbVars, loaded,
                        IdsKnown, Is, At
  <1>5. ASSUME NEW s \in Syncers, SyncWithDb(s), UNCHANGED workerVars
        PROVE  TypeInv'
    <2>1. BeginSync(s)
      BY <1>5 DEF SyncWithDb
    <2> QED
      BY <1>5, <2>1, BeginSyncTypes
         DEF SyncWithDb, BeginSync, StatusTypes, dbVars, IdsKnown, Is, At
  <1>6. ASSUME NEW s \in Syncers, SyncWithDbUnlocks(s), UNCHANGED workerVars
        PROVE  TypeInv'
    BY <1>6 DEF SyncWithDbUnlocks, NoSync, SyncPhases, containerVars, dbVars,
                loaded, IdsKnown, Is, At
  <1>7. ASSUME NEW s \in Syncers, TriggerWorkers(s), UNCHANGED workerVars
        PROVE  TypeInv'
    BY <1>7 DEF TriggerWorkers, dbVars, loaded, IdsKnown, Is, At
  <1> QED
    BY <1>1, <1>2, <1>3, <1>4, <1>5, <1>6, <1>7 DEF Syncs, SyncStep

(* The build worker keeps the types.                                         *)
LEMMA BuildTypes ==
    ASSUME ContainerConstants, MapConstants, TypeInv, Builds
    PROVE  TypeInv'
  <1> USE DEF TypeInv, TypeOK, ContainerTypeOK, MapTypeOK, BuilderPCs, BuilderAt, BuilderGoto
  <1>1. CASE BuilderRecv
    BY <1>1 DEF BuilderRecv, mapVars, dbVars, loaded, IdsKnown, Is, At
  <1>2. CASE GetContainerToBuild
    BY <1>2 DEF GetContainerToBuild, ToBuild, Resting, containerVars, mapVars, dbVars, loaded,
                IdsKnown, Is, At
  <1>3. CASE SetupDb \/ BuildImage \/ BuildPanics
    BY <1>3 DEF SetupDb, BuildImage, BuildPanics, containerVars, mapVars, dbVars, loaded, IdsKnown, Is, At
  <1>4. CASE MarkBuilding
    <2>1. StatusTypes'
      <3>1. Plain("Building") \in Statuses /\ Plain("Building").name # "Ready"
        BY DEF Plain, Statuses, StatusNames, ContainerConstants
      <3> QED
        BY <1>4, <3>1, WriteTypes DEF MarkBuilding
    <2> QED
      BY <1>4, <2>1 DEF MarkBuilding, StatusTypes, mapVars, dbVars, loaded, IdsKnown, Is, At
  <1>5. ASSUME NEW r \in Results, NEW next \in BuilderPCs, RecordResult(r, next) \/ KeepResult(r, next)
        PROVE  TypeInv'
    BY <1>5 DEF RecordResult, KeepResult, containerVars, dbVars, loaded, IdsKnown, Is, At
  <1>6. ASSUME NEW name \in {"StandBy", "Failed"}, NEW next \in BuilderPCs, EndBuild(name, next)
        PROVE  TypeInv'
    <2>1. StatusTypes'
      <3>1. Plain(name) \in Statuses /\ Plain(name).name # "Ready"
        BY DEF Plain, Statuses, StatusNames, ContainerConstants
      <3> QED
        BY <1>6, <3>1, WriteTypes DEF EndBuild
    <2> QED
      BY <1>6, <2>1 DEF EndBuild, StatusTypes, mapVars, dbVars, loaded, IdsKnown, Is, At
  <1>7. CASE BuildSucceeds \/ BuildFails
    BY <1>5, <1>6, <1>7 DEF BuildSucceeds, BuildFails, Results
  <1>8. CASE BuilderLocks
    <2>1. BeginSync("builder")
      BY <1>8 DEF BuilderLocks
    <2> QED
      BY <1>8, <2>1, BeginSyncTypes
         DEF BuilderLocks, BeginSync, StatusTypes, dbVars, IdsKnown, Is, At
  <1>9. CASE BuilderUnlocks
    BY <1>9 DEF BuilderUnlocks, NoSync, SyncPhases, containerVars, dbVars, loaded, IdsKnown, Is, At
  <1> QED
    BY <1>1, <1>2, <1>3, <1>4, <1>7, <1>8, <1>9 DEF Builds, BuildStep

(* The docker worker keeps the types.                                        *)
LEMMA CleaningTypes ==
    ASSUME ContainerConstants, TypeInv, Cleanings
    PROVE  TypeInv'
  <1> USE DEF TypeInv, TypeOK, ContainerTypeOK, MapTypeOK, containerVars, mapVars, dbVars, loaded,
              IdsKnown, Is, At
  <1>1. CASE CleanerRecv
    BY <1>1 DEF CleanerRecv, CleanerGoto
  <1>2. CASE ListContainers
    BY <1>2 DEF ListContainers, CleanerGoto
  <1>7. CASE ListFails
    BY <1>7 DEF ListFails, CleanerGoto
  <1>4. CASE RemoveContainer
    BY <1>4 DEF RemoveContainer, CleanerGoto, DockerStates
  <1>5. CASE RemoveFails
    BY <1>5 DEF RemoveFails, CleanerGoto
  <1>6. CASE CleanerRests
    BY <1>6 DEF CleanerRests, Cleaned
  <1>3. ASSUME NEW d \in Ids, IsContainerInUse(d)
        PROVE  TypeInv'
    BY <1>3 DEF IsContainerInUse, CleanerGoto
  <1> QED
    BY <1>1, <1>2, <1>3, <1>4, <1>5, <1>6, <1>7 DEF Cleanings

(* The docker worker writes no status, no request and nothing of the map.    *)
LEMMA CleaningsLeave ==
    ASSUME Cleanings
    PROVE  UNCHANGED <<status, idle, client, buildSignal, late, rows, dbResult, result, inMap, prod,
                       sync, syncer, builder, restarts>>
  <1> USE DEF containerVars, mapVars, dbVars, loaded
  <1>1. CASE CleanerRecv
    BY <1>1 DEF CleanerRecv
  <1>2. CASE ListContainers \/ ListFails
    BY <1>2 DEF ListContainers, ListFails
  <1>3. CASE RemoveContainer \/ RemoveFails
    BY <1>3 DEF RemoveContainer, RemoveFails
  <1>4. CASE CleanerRests \/ \E d \in Ids : IsContainerInUse(d)
    BY <1>4 DEF CleanerRests, IsContainerInUse
  <1> QED
    BY <1>1, <1>2, <1>3, <1>4 DEF Cleanings

(* A request finds its container in the map, and then its own steps type.    *)
LEMMA RequestTypes ==
    ASSUME ContainerConstants, TypeInv, Requests
    PROVE  TypeInv'
  <1>1. ContainerTypeOK' /\ IdsKnown'
    <2>1. PICK k \in Clients : ClientStep(k) \/ \E c \in Containers : Request(k, c)
      BY DEF Requests
    <2>2. CASE ClientStep(k)
      BY <2>2, ClientTypes DEF TypeInv, TypeOK
    <2>3. ASSUME NEW c \in Containers, Request(k, c)
          PROVE  ContainerTypeOK' /\ IdsKnown'
      BY <2>3 DEF Request, Found, TypeInv, TypeOK, ContainerTypeOK, IdsKnown, Is, At, ClientPCs,
                  Holding
    <2> QED
      BY <2>1, <2>2, <2>3
  <1> QED
    BY <1>1 DEF Requests, TypeInv, TypeOK, MapTypeOK, mapVars, dbVars, loaded, workerVars

(* Time and docker only touch ids, the table only its rows.                  *)
LEMMA EnvironmentTypes ==
    ASSUME ContainerConstants, TypeInv, Environment
    PROVE  TypeInv'
  <1> USE DEF TypeInv, TypeOK, ContainerTypeOK, MapTypeOK, mapVars, dbVars, loaded, workerVars,
              IdsKnown, Is, At
  <1>1. ASSUME NEW c \in Containers, ThirtySecondsPass(c), UNCHANGED <<mapVars, workerVars>>
        PROVE  TypeInv'
    BY <1>1 DEF ThirtySecondsPass
  <1>2. ASSUME NEW d \in Ids, DockerExits(d), UNCHANGED <<mapVars, workerVars>>
        PROVE  TypeInv'
    BY <1>2 DEF DockerExits, DockerStates
  <1>3. ASSUME NEW c \in Apps, InsertRow(c) \/ DeleteRow(c), UNCHANGED workerVars
        PROVE  TypeInv'
    BY <1>3 DEF InsertRow, DeleteRow, containerVars
  <1> QED
    BY <1>1, <1>2, <1>3 DEF Environment

(* With every status Absent and every request at rest, nothing holds an id.  *)
LEMMA EmptyTypes ==
    ASSUME ContainerConstants
    PROVE  /\ Plain("Absent") \in Statuses /\ Plain("Absent").name # "Ready"
           /\ AtRest \in [pc : ClientPCs, c : Containers \union {NoContainer},
                          id : Ids \union {NoId}]
           /\ AtRest.pc \notin Holding /\ AtRest.pc = "idle"
  BY DEF ContainerConstants, Plain, AtRest, Statuses, StatusNames, ClientPCs, Owning, Holding

(* Everything a restart writes is an initial value, for the databases too.   *)
LEMMA RestartTypes ==
    ASSUME ContainerConstants, FleetConstants, TypeInv, Restart
    PROVE  TypeInv'
  <1>1. ContainerTypeOK' /\ IdsKnown'
    BY EmptyTypes DEF Restart, TypeInv, TypeOK, ContainerTypeOK, IdsKnown, Is, At
  <1>2. MapTypeOK'
    BY DEF Restart, TypeInv, TypeOK, MapTypeOK, NoSync, SyncPhases, Results, dbVars
  <1>3. restarts' \in 0..MaxRestarts
    BY DEF Restart, TypeInv, TypeOK, FleetConstants
  <1> QED
    BY <1>1, <1>2, <1>3 DEF Restart, TypeInv, TypeOK, Resting, Cleaned, BuilderPCs

(* The types hold initially.                                                 *)
LEMMA InitTypes ==
    ASSUME ContainerConstants, MapConstants, FleetConstants, Init
    PROVE  TypeInv
  <1>1. ContainerTypeOK /\ IdsKnown
    BY EmptyTypes DEF Init, ContainerInit, ContainerTypeOK, IdsKnown, DockerStates, Is, At
  <1>2. MapTypeOK
    BY DEF Init, MapInit, MapTypeOK, NoSync, SyncPhases, Results, Apps, MapConstants
  <1> QED
    BY <1>1, <1>2 DEF Init, TypeInv, TypeOK, Resting, Cleaned, BuilderPCs, FleetConstants

(* Every step keeps the types.                                               *)
LEMMA NextTypes ==
    ASSUME ContainerConstants, MapConstants, FleetConstants, TypeInv, [Next]_vars
    PROVE  TypeInv'
  <1>1. CASE UNCHANGED vars
    BY <1>1 DEF vars, containerVars, mapVars, dbVars, loaded, TypeInv, TypeOK, ContainerTypeOK,
                MapTypeOK, IdsKnown, Is, At
  <1> QED
    BY <1>1, RequestTypes, EnvironmentTypes, SyncTypes, BuildTypes, CleaningTypes, RestartTypes
       DEF Next

-----------------------------------------------------------------------------
(* A queued container is attended.  The invariant needs to know whose sync   *)
(* is running: it may queue a container, and its owner triggers afterwards.  *)

SyncHasOwner ==
    \/ MapReadable
    \/ sync.by = "builder" /\ BuilderAt("syncing")
    \/ sync.by \in Syncers /\ syncer[sync.by] = "syncing"

OwnerInv == TypeInv /\ SyncHasOwner

(* The order on the numbers as the relation the library speaks of.           *)
LEMMA LessIsRelated ==
    ASSUME NEW u \in Nat, NEW t \in Nat, u < t
    PROVE  <<u, t>> \in OpToRel(<, Nat)
  BY DEF OpToRel

(* Among natural numbers the least can be found, so a run of the build       *)
(* worker finds a container as long as one is queued.                        *)
LEMMA QueuedIsPicked ==
    ASSUME TypeInv, ToBuild = {}
    PROVE  \A c \in inMap : ~Is(c, "Queued")
  <1> DEFINE queued   == {c \in inMap : Is(c, "Queued")}
             accessed == {c \in queued : status[c].at > 0}
             times    == {status[c].at : c \in accessed}
  <1>1. times \subseteq Nat
    BY DEF TypeInv, TypeOK, ContainerTypeOK, MapTypeOK, Statuses
  <1>2. accessed = {}
    <2>1. SUFFICES ASSUME accessed # {} PROVE FALSE
      OBVIOUS
    <2>2. PICK t \in times : \A u \in times : ~(<<u, t>> \in OpToRel(<, Nat))
      <3>1. times # {}
        BY <2>1
      <3>2. IsWellFoundedOn(OpToRel(<, Nat), Nat)
        BY NatLessThanWellFounded
      <3> QED
        BY <1>1, <3>1, <3>2, WFMin
    <2>3. \A u \in times : t <= u
      <3>1. ASSUME NEW u \in times PROVE ~(u < t)
        BY <1>1, <2>2, LessIsRelated, Zenon
      <3>2. ASSUME NEW u \in Nat, NEW v \in Nat, ~(u < v) PROVE v <= u
        BY <3>2
      <3> HIDE DEF times
      <3> QED
        BY <1>1, <3>1, <3>2
    <2>4. PICK c \in accessed : status[c].at = t
      OBVIOUS
    <2>5. c \in ToBuild
      BY <2>1, <2>3, <2>4 DEF ToBuild
    <2> QED
      BY <2>5
  <1> QED
    BY <1>2 DEF ToBuild

(* Only SyncWithDb and BuilderLocks begin a sync, and only its owner ends it.*)
LEMMA SyncKeepsOwner ==
    ASSUME MapConstants, TypeInv, SyncHasOwner, [Next]_vars
    PROVE  SyncHasOwner'
  <1> USE DEF SyncHasOwner, MapReadable, BuilderAt, TypeInv, TypeOK, MapTypeOK, MapConstants
  <1>1. CASE UNCHANGED vars
    BY <1>1 DEF vars, mapVars
  <1>2. CASE Requests
    BY <1>2 DEF Requests, mapVars, workerVars
  <1>3. CASE Environment
    BY <1>3 DEF Environment, InsertRow, DeleteRow, mapVars, workerVars
  <1>4. CASE Syncs
    <2>1. CASE SyncStep /\ UNCHANGED workerVars
      BY <2>1 DEF SyncStep, EnqueueRead, EnqueueWrite, TurnToDowngrades, DowngradeRead,
                  DowngradeWrite, Visit, Visited, SyncGoto, workerVars
    <2>2. ASSUME NEW s \in Syncers, SyncWithDb(s), UNCHANGED workerVars
          PROVE  SyncHasOwner'
      BY <2>2 DEF SyncWithDb, BeginSync, workerVars
    <2>3. ASSUME NEW s \in Syncers, SyncWithDbUnlocks(s) \/ TriggerWorkers(s),
                 UNCHANGED workerVars
          PROVE  SyncHasOwner'
      BY <2>3 DEF SyncWithDbUnlocks, TriggerWorkers, NoSync, workerVars
    <2> QED
      BY <1>4, <2>1, <2>2, <2>3 DEF Syncs
  <1>5. CASE Builds
    <2> USE DEF BuilderGoto
    <2>1. CASE BuilderLocks
      BY <2>1 DEF BuilderLocks, BeginSync
    <2>2. CASE BuilderUnlocks
      BY <2>2 DEF BuilderUnlocks, NoSync
    <2>3. CASE BuildSucceeds \/ BuildFails
      BY <2>3 DEF BuildSucceeds, BuildFails, RecordResult, KeepResult, EndBuild, mapVars
    <2> QED
      BY <1>5, <2>1, <2>2, <2>3
         DEF Builds, BuildStep, BuilderRecv, SetupDb, MarkBuilding, BuildImage, BuildPanics,
             GetContainerToBuild, mapVars
  <1>6. CASE Cleanings
    BY <1>6, CleaningsLeave
  <1>7. CASE Restart
    BY <1>7 DEF Restart, NoSync
  <1> QED
    BY <1>1, <1>2, <1>3, <1>4, <1>5, <1>6, <1>7 DEF Next

(* The types hold and a sync in progress has an owner, always.               *)
LEMMA OwnerInvHolds == Spec => []OwnerInv
  <1>1. Init => OwnerInv
    <2>1. Init => TypeInv
      BY InitTypes, ContainerConstants, MapConstants, FleetConstants
    <2> QED
      BY <2>1 DEF OwnerInv, Init, MapInit, SyncHasOwner, MapReadable, NoSync
  <1>2. OwnerInv /\ [Next]_vars => OwnerInv'
    BY NextTypes, SyncKeepsOwner, ContainerConstants, MapConstants, FleetConstants DEF OwnerInv
  <1> QED
    BY <1>1, <1>2, PTL DEF Spec

(* Every variable keeps its type, whatever the number of containers,         *)
(* requests, docker ids and syncing tasks.                                   *)
THEOREM TypesAreCorrect == Spec => []TypeOK
  <1>1. OwnerInv => TypeOK
    BY DEF OwnerInv, TypeInv
  <1> QED
    BY <1>1, OwnerInvHolds, PTL

(* What is queued was queued before, and those who attend to it still do.    *)
AttendedBy ==
    \/ buildSignal
    \/ ~BuilderAt("recv")
    \/ \E s \in Syncers : syncer[s] \in {"syncing", "trigger"}
    \/ \E k \in Clients : At(k, "trigger")
NothingNewQueued == \A c \in inMap' : Is(c, "Queued")' => c \in inMap /\ Is(c, "Queued")

(* A step that queues nothing and sends nobody away who attends keeps the    *)
(* queue attended.                                                           *)
LEMMA StillAttended ==
    ASSUME QueuedIsAttended, NothingNewQueued, AttendedBy => AttendedBy'
    PROVE  QueuedIsAttended'
  BY DEF QueuedIsAttended, AttendedBy, NothingNewQueued, BuilderAt

(* A sync may queue containers; the task that runs it triggers the build     *)
(* worker when it is over.                                                   *)
LEMMA SyncStepAttends ==
    ASSUME MapConstants, TypeInv, SyncHasOwner, QueuedIsAttended, Syncs
    PROVE  QueuedIsAttended'
  <1> USE DEF AttendedBy, BuilderAt, At, TypeInv, TypeOK, MapTypeOK
  <1>1. ASSUME NEW c \in Containers, EnqueueRead(c) \/ DowngradeRead(c), UNCHANGED workerVars
        PROVE  QueuedIsAttended'
    BY <1>1 DEF EnqueueRead, DowngradeRead, Visit, containerVars, loaded, workerVars,
                QueuedIsAttended, Is
  <1>2. CASE EnqueueWrite /\ UNCHANGED workerVars
    BY <1>2 DEF EnqueueWrite, Visited, loaded, workerVars, QueuedIsAttended, SyncHasOwner,
                MapReadable
  <1>3. CASE TurnToDowngrades /\ UNCHANGED workerVars
    BY <1>3 DEF TurnToDowngrades, containerVars, loaded, workerVars, QueuedIsAttended, Is
  <1>4. CASE DowngradeWrite /\ UNCHANGED workerVars
    BY <1>4 DEF DowngradeWrite, Visited, loaded, workerVars, QueuedIsAttended, SyncHasOwner,
                MapReadable
  <1>5. ASSUME NEW s \in Syncers, SyncWithDb(s), UNCHANGED workerVars
        PROVE  QueuedIsAttended'
    BY <1>5 DEF SyncWithDb, QueuedIsAttended
  <1>6. ASSUME NEW s \in Syncers, SyncWithDbUnlocks(s), UNCHANGED workerVars
        PROVE  QueuedIsAttended'
    BY <1>6 DEF SyncWithDbUnlocks, QueuedIsAttended
  <1>7. ASSUME NEW s \in Syncers, TriggerWorkers(s), UNCHANGED workerVars
        PROVE  QueuedIsAttended'
    BY <1>7 DEF TriggerWorkers, QueuedIsAttended
  <1> QED
    BY <1>1, <1>2, <1>3, <1>4, <1>5, <1>6, <1>7 DEF Syncs, SyncStep

(* The build worker rests only when it finds nothing queued.                 *)
LEMMA BuildStepAttends ==
    ASSUME TypeInv, QueuedIsAttended, Builds
    PROVE  QueuedIsAttended'
  <1> USE DEF BuilderAt, BuilderGoto
  <1>1. CASE GetContainerToBuild
    <2>1. CASE ToBuild = {} /\ UNCHANGED containerVars /\ UNCHANGED mapVars
      BY <2>1, QueuedIsPicked DEF containerVars, mapVars, loaded, QueuedIsAttended, Is
    <2>2. ASSUME NEW c, builder' = [pc |-> "setup", c |-> c]
          PROVE  QueuedIsAttended'
      BY <2>2 DEF QueuedIsAttended
    <2> QED
      BY <1>1, <2>1, <2>2 DEF GetContainerToBuild
  <1>2. CASE BuilderLocks
    BY <1>2 DEF BuilderLocks, QueuedIsAttended
  <1>3. CASE BuildSucceeds \/ BuildFails
    BY <1>3 DEF BuildSucceeds, BuildFails, RecordResult, KeepResult, EndBuild, QueuedIsAttended
  <1>4. CASE BuilderRecv \/ SetupDb \/ MarkBuilding \/ BuildImage \/ BuildPanics \/ BuilderUnlocks
    BY <1>4 DEF BuilderRecv, SetupDb, MarkBuilding, BuildImage, BuildPanics, BuilderUnlocks, QueuedIsAttended
  <1> QED
    BY <1>1, <1>2, <1>3, <1>4 DEF Builds, BuildStep

(* A request queues a container only when it goes on to trigger the worker.  *)
LEMMA RequestAttends ==
    ASSUME TypeInv, QueuedIsAttended, Requests
    PROVE  QueuedIsAttended'
  <1>1. PICK k \in Clients : ClientStep(k) \/ \E c \in Containers : Request(k, c)
    BY DEF Requests
  <1>2. UNCHANGED <<mapVars, workerVars>>
    BY DEF Requests
  <1> USE <1>2 DEF mapVars, loaded, workerVars, At, Goto, Hold, Leave, TypeInv, TypeOK, ContainerTypeOK,
                   MapTypeOK, BuilderAt
  <1>3. CASE RequeueBuilt(k)
    BY <1>3 DEF RequeueBuilt, QueuedIsAttended
  <1>4. CASE TriggerBuild(k)
    BY <1>4 DEF TriggerBuild, QueuedIsAttended
  <1>5. CASE ClaimStart(k)
    <2>1. NothingNewQueued
      BY <1>5 DEF ClaimStart, Write, Plain, NothingNewQueued, Is
    <2>2. AttendedBy => AttendedBy'
      BY <1>5 DEF ClaimStart, AttendedBy
    <2> QED
      BY <2>1, <2>2, StillAttended
  <1>6. CASE PublishReady(k)
    <2>1. NothingNewQueued
      BY <1>6 DEF PublishReady, Write, Ready, NothingNewQueued, Is
    <2>2. AttendedBy => AttendedBy'
      BY <1>6 DEF PublishReady, AttendedBy
    <2> QED
      BY <2>1, <2>2, StillAttended
  <1>7. CASE AccessReady(k) \/ AccessClone(k) \/ RefreshAccess(k)
    BY <1>7 DEF AccessReady, AccessClone, RefreshAccess, QueuedIsAttended, Is
  <1>8. CASE CreateContainer(k) \/ RunContainer(k) \/ IsOnline(k) \/ AbandonStart(k)
    <2>1. ~At(k, "trigger")
      BY <1>8 DEF CreateContainer, RunContainer, IsOnline, AbandonStart
    <2>2. \A j \in Clients \ {k} : client'[j] = client[j]
      BY <1>8 DEF CreateContainer, RunContainer, IsOnline, AbandonStart
    <2>3. UNCHANGED <<status, inMap, buildSignal, syncer, builder>>
      BY <1>8 DEF CreateContainer, RunContainer, IsOnline, AbandonStart
    <2> QED
      BY <2>1, <2>2, <2>3 DEF QueuedIsAttended, Is
  <1>9. CASE WaitReady(k) \/ Done(k)
    BY <1>9 DEF WaitReady, Done, QueuedIsAttended, Is
  <1>10. ASSUME NEW c \in Containers, Request(k, c)
         PROVE  QueuedIsAttended'
    BY <1>10 DEF Request, Found, QueuedIsAttended, Is
  <1> QED
    BY <1>1, <1>3, <1>4, <1>5, <1>6, <1>7, <1>8, <1>9, <1>10 DEF ClientStep

(* Every step keeps the queue attended.                                      *)
LEMMA NextAttends ==
    ASSUME MapConstants, TypeInv, SyncHasOwner, QueuedIsAttended, [Next]_vars
    PROVE  QueuedIsAttended'
  <1>1. CASE UNCHANGED vars
    BY <1>1 DEF vars, containerVars, mapVars, loaded, QueuedIsAttended, Is, At, BuilderAt
  <1>2. CASE Environment
    BY <1>2 DEF Environment, ThirtySecondsPass, DockerExits, InsertRow, DeleteRow, containerVars,
                mapVars, loaded, workerVars, QueuedIsAttended, Is, At, BuilderAt
  <1>3. CASE Cleanings
    BY <1>3, CleaningsLeave DEF QueuedIsAttended, Is, At, BuilderAt
  <1>4. CASE Restart
    BY <1>4 DEF Restart, QueuedIsAttended
  <1> QED
    BY <1>1, <1>2, <1>3, <1>4, RequestAttends, SyncStepAttends, BuildStepAttends DEF Next

(* A queued container of the map is never forgotten: the build worker is at  *)
(* work or triggered, or the sync or request that queued it is about to      *)
(* trigger it (map.rs:254-266, container/mod.rs:392-398, manager.rs:180-189).*)
THEOREM QueuedIsNeverForgotten == Spec => []QueuedIsAttended
  <1>1. Init => QueuedIsAttended
    BY DEF Init, MapInit, QueuedIsAttended
  <1>2. OwnerInv /\ QueuedIsAttended /\ [Next]_vars => QueuedIsAttended'
    BY NextAttends, MapConstants DEF OwnerInv
  <1> QED
    BY <1>1, <1>2, OwnerInvHolds, PTL DEF Spec

=============================================================================

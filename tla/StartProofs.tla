---------------------------- MODULE StartProofs ----------------------------
(* Proofs about the starts and builds of Fleet, for every value of the       *)
(* constants, whatever the rows say when the process comes up and however    *)
(* often it restarts.  A socket is answered only after something listened on *)
(* it.  Starts and builds exclude each other, what is served is on record,   *)
(* and Fleet implements LazyContainer, of every container until a request    *)
(* queues it late; which none does where no row says that its deployment was *)
(* built, and the process does not restart.                                  *)
EXTENDS FleetProofs

-----------------------------------------------------------------------------
(* Sockets.  An id a request is still starting is known to nobody else.      *)

Up == {"online", "exited", "absent"}
Starting(k) == client[k].pc \in {"run", "poll"}
SocketInv ==
    /\ \A c \in Containers : Is(c, "Ready") => docker[status[c].id] \in Up
    /\ \A k \in Clients : client[k].pc \in {"publish", "refresh", "using"} =>
                              docker[client[k].id] \in Up
    /\ \A k \in Clients : Starting(k) =>
          /\ \A c \in Containers : status[c].id # client[k].id
          /\ \A j \in Clients \ {k} : client[j].id # client[k].id

(* Whoever is not a request only writes statuses that hold no id, and only   *)
(* stops or removes docker containers.                                       *)
IdsOnlyDropped ==
    \A c \in Containers : \/ status'[c] = status[c]
                          \/ status'[c].name # "Ready" /\ status'[c].id = NoId
UpStaysUp == \A d \in Ids : docker[d] \in Up => docker'[d] \in Up

(* What drops ids and leaves what is up up keeps the socket invariant.       *)
LEMMA SocketKept ==
    ASSUME ContainerConstants, TypeInv, SocketInv, IdsOnlyDropped, UpStaysUp, UNCHANGED client
    PROVE  SocketInv'
  <1> USE DEF SocketInv, IdsOnlyDropped, UpStaysUp, TypeInv, IdsKnown, Holding, Is
  <1>1. \A c \in Containers : Is(c, "Ready")' => docker'[status'[c].id] \in Up
    OBVIOUS
  <1>2. \A k \in Clients : client'[k].pc \in {"publish", "refresh", "using"} =>
            docker'[client'[k].id] \in Up
    OBVIOUS
  <1>3. \A k \in Clients : Starting(k)' =>
            /\ \A c \in Containers : status'[c].id # client'[k].id
            /\ \A j \in Clients \ {k} : client'[j].id # client'[k].id
    BY DEF Starting, ContainerConstants
  <1> QED
    BY <1>1, <1>2, <1>3

(* Syncs, builds, the docker worker and the environment drop ids at most,    *)
(* and bring down nothing but what they stop.                                *)
LEMMA OthersDropIds ==
    ASSUME ContainerConstants, MapConstants, TypeInv,
           Syncs \/ Builds \/ Environment \/ Cleanings \/ UNCHANGED vars
    PROVE  IdsOnlyDropped /\ UpStaysUp /\ UNCHANGED client
  <1> USE DEF IdsOnlyDropped, UpStaysUp, TypeInv, TypeOK, ContainerTypeOK, containerVars, mapVars, vars
  <1>1. ASSUME NEW by, BeginSync(by)
        PROVE  IdsOnlyDropped /\ UpStaysUp /\ UNCHANGED client
    <2>1. \A c \in Containers : InitialStatus(c).name # "Ready" /\ InitialStatus(c).id = NoId
      BY DEF InitialStatus, Plain, Apps, Results, MapTypeOK
    <2>2. \A c \in Containers : status'[c] = status[c] \/ status'[c] = InitialStatus(c)
      BY <1>1 DEF BeginSync
    <2>3. UNCHANGED <<docker, client>>
      BY <1>1 DEF BeginSync
    <2> QED
      BY <2>1, <2>2, <2>3
  <1>2. CASE Syncs
    <2>1. CASE EnqueueWrite \/ DowngradeWrite
      BY <2>1 DEF EnqueueWrite, DowngradeWrite, Visited, Write, Queued, Plain
    <2>2. CASE UNCHANGED <<status, docker, client>>
      BY <2>2
    <2> QED
      BY <1>1, <1>2, <2>1, <2>2
         DEF Syncs, SyncStep, SyncWithDb, EnqueueRead, TurnToDowngrades, DowngradeRead, Visit,
             SyncWithDbUnlocks, TriggerWorkers
  <1>3. CASE Builds
    BY <1>1, <1>3
       DEF Builds, BuildStep, BuilderRecv, GetContainerToBuild, SetupDb, MarkBuilding, BuildImage, BuildPanics,
           BuildSucceeds, BuildFails, RecordResult, KeepResult, EndBuild, BuilderLocks,
           BuilderUnlocks, Write, Plain
  <1>4. CASE Environment
    BY <1>4 DEF Environment, ThirtySecondsPass, DockerExits, InsertRow, DeleteRow, Up
  <1>5. CASE Cleanings
    <2>1. docker' = docker \/ docker' = [docker EXCEPT ![cleaner.id] = "absent"]
      BY <1>5 DEF Cleanings, CleanerRecv, ListContainers, ListFails, RemoveContainer, RemoveFails,
                  CleanerRests, IsContainerInUse
    <2> QED
      BY <1>5, <2>1, CleaningsLeave DEF Up
  <1> QED
    BY <1>1, <1>2, <1>3, <1>4, <1>5

(* A request shares the id of a docker container only after something        *)
(* listened on it.                                                           *)
LEMMA RequestSockets ==
    ASSUME ContainerConstants, TypeInv, SocketInv, Requests
    PROVE  SocketInv'
  <1>1. PICK k \in Clients : ClientStep(k) \/ \E c \in Containers : Request(k, c)
    BY DEF Requests
  <1>0. ~At(k, "idle") => client[k].c \in Containers
    BY DEF TypeInv, IdsKnown
  <1> USE <1>0 DEF TypeInv, TypeOK, ContainerTypeOK, IdsKnown, ContainerConstants, SocketInv, Starting,
                   Holding, Up, Is, At, Hold, Goto, Leave, AtRest
  <1>2. CASE AccessReady(k)
    BY <1>2 DEF AccessReady
  <1>3. CASE AccessClone(k)
    <2>1. UNCHANGED <<status, docker>> /\ At(k, "reread")
      BY <1>3 DEF AccessClone
    <2>2. CASE Is(client[k].c, "Ready") /\ Hold(k, "refresh", status[client[k].c].id)
      BY <2>1, <2>2
    <2>3. CASE Goto(k, "start") \/ Goto(k, "requeue") \/ Leave(k)
      BY <2>1, <2>3
    <2> QED
      BY <1>3, <2>2, <2>3 DEF AccessClone
  <1>4. CASE RefreshAccess(k)
    BY <1>4 DEF RefreshAccess
  <1>5. CASE RequeueBuilt(k)
    BY <1>5 DEF RequeueBuilt, Write, Queued
  <1>6. CASE TriggerBuild(k)
    BY <1>6 DEF TriggerBuild
  <1>7. CASE ClaimStart(k)
    BY <1>7 DEF ClaimStart, Write, Plain
  <1>8. CASE CreateContainer(k)
    BY <1>8 DEF CreateContainer, Fresh
  <1>9. CASE RunContainer(k)
    BY <1>9 DEF RunContainer
  <1>10. CASE IsOnline(k)
    BY <1>10 DEF IsOnline
  <1>11. CASE AbandonStart(k)
    BY <1>11 DEF AbandonStart
  <1>12. CASE PublishReady(k)
    BY <1>12 DEF PublishReady, Write, Ready
  <1>13. CASE WaitReady(k)
    BY <1>13 DEF WaitReady
  <1>14. CASE Done(k)
    BY <1>14 DEF Done
  <1>15. ASSUME NEW c \in Containers, Request(k, c)
         PROVE  SocketInv'
    BY <1>15 DEF Request, Found
  <1> QED
    BY <1>1, <1>2, <1>3, <1>4, <1>5, <1>6, <1>7, <1>8, <1>9, <1>10, <1>11, <1>12, <1>13, <1>14,
       <1>15 DEF ClientStep

(* A request is answered with a socket only after something listened on it   *)
(* (container/mod.rs:294-304 before 324-330): not with one that another      *)
(* request is still starting, even when docker gives an id again.            *)
THEOREM SocketsWereOnline == Spec => []SocketWasOnline
  <1>1. Init => SocketInv
    BY ContainerConstants
       DEF Init, ContainerInit, SocketInv, Starting, Plain, AtRest, Is, ContainerConstants
  <1>2. TypeInv /\ SocketInv /\ [Next]_vars => SocketInv'
    <2> SUFFICES ASSUME TypeInv, SocketInv, [Next]_vars
                 PROVE  SocketInv'
      OBVIOUS
    <2>1. CASE Requests
      BY <2>1, RequestSockets, ContainerConstants
    <2>2. CASE Restart
      BY <2>2 DEF Restart, SocketInv, Starting, Plain, AtRest, Is
    <2>3. CASE Syncs \/ Builds \/ Environment \/ Cleanings \/ UNCHANGED vars
      BY <2>3, OthersDropIds, SocketKept, ContainerConstants, MapConstants
    <2> QED
      BY <2>1, <2>2, <2>3 DEF Next
  <1>3. OwnerInv => TypeInv
    BY DEF OwnerInv
  <1>4. SocketInv => SocketWasOnline
    BY DEF SocketInv, Up, SocketWasOnline, At
  <1> QED
    BY <1>1, <1>2, <1>3, <1>4, OwnerInvHolds, PTL DEF Spec

-----------------------------------------------------------------------------
(* Starts and builds.  A sync only gives a status to containers that have    *)
(* none, and what it or a request queues was Built or Queued.                *)

(* New to the map: never loaded by a sync, so nothing was done to it.        *)
New(c) == c \notin inMap /\ (c \in Apps => rows[c] # "deleted")

BuilderAway == builder.pc \in {"recv", "pick", "syncing", "dead"}

QueuesUnbuilt ==
    sync.phase = "enqueueWrite" =>
        /\ sync.c \in Containers
        /\ sync.c \notin late => Unbuilt(sync.c) /\ (sync.c = builder.c => BuilderAt("lock"))
DowngradesReady ==
    sync.phase = "downgradeWrite" =>
        /\ sync.c \in Containers
        /\ sync.c \notin late => Is(sync.c, "Ready")
NewIsUntouched ==
    /\ \A c \in Containers : New(c) => Is(c, "Absent")
    /\ \A c \in inMap \cap Apps : rows[c] # "none"
BuilderIsLoaded ==
    /\ BuilderAway => builder.c = NoContainer
    /\ ~BuilderAway /\ ~BuilderAt("lock") => builder.c \in Containers /\ ~New(builder.c)

LifeInv ==
    /\ QueuesUnbuilt
    /\ DowngradesReady
    /\ NewIsUntouched
    /\ BuilderIsLoaded
    /\ StartIsExclusive
    /\ BuildIsExclusive

(* The environment, the docker worker and a stuttering step leave the        *)
(* statuses alone, and a row that is there stays.                            *)
LEMMA OthersLeave ==
    ASSUME TypeInv, Environment \/ Cleanings \/ UNCHANGED vars
    PROVE  /\ UNCHANGED <<status, client, late, sync, dbResult, result, inMap, builder>>
           /\ \A c \in Apps : \/ rows'[c] = rows[c]
                              \/ rows[c] = "none" /\ rows'[c] = "live"
                              \/ rows[c] = "live" /\ rows'[c] = "deleted"
           /\ \A c \in Containers : New(c)' => New(c)
  <1>1. UNCHANGED <<status, client, late, sync, dbResult, result, inMap, builder>>
    <2>1. CASE Environment
      BY <2>1 DEF Environment, ThirtySecondsPass, DockerExits, InsertRow, DeleteRow,
                  containerVars, mapVars, dbVars, loaded, workerVars
    <2> QED
      BY <2>1, CleaningsLeave DEF containerVars, mapVars, dbVars, loaded, vars
  <1>2. \A c \in Apps : \/ rows'[c] = rows[c]
                        \/ rows[c] = "none" /\ rows'[c] = "live"
                        \/ rows[c] = "live" /\ rows'[c] = "deleted"
    <2>1. CASE Environment
      BY <2>1 DEF Environment, InsertRow, DeleteRow, mapVars, dbVars, TypeInv, TypeOK, MapTypeOK
    <2> QED
      BY <2>1, CleaningsLeave DEF mapVars, dbVars, vars
  <1>3. \A c \in Containers : New(c)' => New(c)
    BY <1>1, <1>2 DEF New
  <1> QED
    BY <1>1, <1>2, <1>3

(* What a request or a sync holds, or a request has queued late, was loaded  *)
(* by a sync and has had a status since.                                     *)
LoadedInv ==
    /\ \A c \in inMap \union late : ~Is(c, "Absent")
    /\ \A k \in Clients : ~At(k, "idle") => ~Is(client[k].c, "Absent")
    /\ sync.phase \in {"enqueueWrite", "downgradeWrite"} =>
          sync.c \in Containers /\ ~Is(sync.c, "Absent")

(* No step but a restart takes the status of a container back to Absent.     *)
LoadedStays == \A c \in Containers : Is(c, "Absent")' => Is(c, "Absent")

(* It holds on while nothing is held that was not loaded.                    *)
LEMMA LoadedKept ==
    ASSUME TypeInv, LoadedInv, LoadedStays,
           inMap' \subseteq inMap,
           \A c \in late' : c \in late \/ (c \in Containers /\ ~Is(c, "Absent")),
           \A k \in Clients : \/ client'[k].pc = "idle"
                              \/ ~At(k, "idle") /\ client'[k].c = client[k].c
                              \/ client'[k].c \in inMap,
           \/ sync'.phase \notin {"enqueueWrite", "downgradeWrite"}
           \/ sync' = sync
           \/ sync'.c \in Containers /\ ~Is(sync'.c, "Absent")
    PROVE  LoadedInv'
  <1> USE DEF TypeInv, TypeOK, ContainerTypeOK, MapTypeOK, IdsKnown
  <1>1. \A c \in inMap' \union late' : ~Is(c, "Absent")'
    BY DEF LoadedInv, LoadedStays
  <1>2. \A k \in Clients : ~At(k, "idle")' =>
            client'[k].c \in Containers /\ ~Is(client'[k].c, "Absent")
    BY DEF LoadedInv, At
  <1>3. \A k \in Clients : ~At(k, "idle")' => ~(status'[client'[k].c].name = "Absent")
    BY <1>2 DEF LoadedStays, At, Is
  <1>4. sync'.phase \in {"enqueueWrite", "downgradeWrite"} =>
            sync'.c \in Containers /\ ~(status'[sync'.c].name = "Absent")
    BY DEF LoadedInv, LoadedStays, Is
  <1> QED
    BY <1>1, <1>3, <1>4 DEF LoadedInv, Is

(* A sync gives a status to what it loads.                                   *)
LEMMA BeginSyncLoadsAll ==
    ASSUME ContainerConstants, MapConstants, TypeInv, LoadedInv,
           NEW by \in Syncers \union {"builder"}, BeginSync(by)
    PROVE  LoadedInv'
  <1> DEFINE added == MapAfterSync \ inMap
  <1> USE DEF BeginSync, TypeInv, TypeOK, ContainerTypeOK, MapTypeOK, MapConstants, IdsKnown, dbVars
  <1>1. \A c \in Containers :
             IF c \in added THEN status'[c] = InitialStatus(c) ELSE status'[c] = status[c]
    OBVIOUS
  <1>2. \A c \in Containers : InitialStatus(c).name # "Absent"
    BY DEF InitialStatus, Plain, Apps, Results
  <1>3. UNCHANGED <<client, late>> /\ sync'.phase = "enqueue" /\ inMap' \subseteq inMap \union added
    OBVIOUS
  <1>4. inMap' \subseteq Containers /\ late \subseteq Containers
    BY DEF MapAfterSync, Live, Apps
  <1> HIDE DEF added, BeginSync
  <1>5. LoadedStays
    BY <1>1, <1>2 DEF LoadedStays, Is
  <1>6. \A c \in inMap' \union late' : ~Is(c, "Absent")'
    BY <1>1, <1>2, <1>3, <1>4, <1>5 DEF LoadedInv, LoadedStays, Is
  <1>7. \A k \in Clients : ~At(k, "idle")' => ~Is(client[k].c, "Absent")'
    BY <1>3, <1>5 DEF LoadedInv, LoadedStays, At
  <1> QED
    BY <1>3, <1>6, <1>7 DEF LoadedInv, Is

(* What a request queues it holds, and what it takes up is in the map.       *)
LEMMA RequestLoads ==
    ASSUME TypeInv, LoadedInv, Requests
    PROVE  LoadedInv'
  <1>1. PICK k \in Clients : ClientStep(k) \/ \E c \in Containers : Request(k, c)
    BY DEF Requests
  <1>2. UNCHANGED <<sync, inMap>>
    BY DEF Requests, mapVars, loaded
  <1> USE DEF TypeInv, TypeOK, ContainerTypeOK, IdsKnown, At, Goto, Hold, Leave, AtRest
  <1>3. CASE RequeueBuilt(k)
    <2>1. PICK b \in Containers : b = client[k].c /\ ~Is(b, "Absent")
      BY <1>3 DEF RequeueBuilt, LoadedInv
    <2>2. LoadedStays
      BY <1>3, <2>1 DEF RequeueBuilt, Write, Queued, LoadedStays, Is
    <2>3. \A c \in late' : c \in late \/ c = b
      BY <1>3, <2>1 DEF RequeueBuilt
    <2>4. \A j \in Clients : \/ ~At(j, "idle") /\ client'[j].c = client[j].c
                             \/ client'[j] = client[j]
      BY <1>3 DEF RequeueBuilt
    <2> QED
      BY <1>2, <2>1, <2>2, <2>3, <2>4, LoadedKept
  <1>4. CASE ClaimStart(k) \/ PublishReady(k)
    <2>1. LoadedStays
      BY <1>4 DEF ClaimStart, PublishReady, Write, Plain, Ready, LoadedStays, Is
    <2>2. UNCHANGED late
      BY <1>4 DEF ClaimStart, PublishReady
    <2>3. ~At(k, "idle") /\ \A j \in Clients : \/ client'[j] = client[j]
                                               \/ client'[j].pc = "idle"
                                               \/ j = k /\ client'[j].c = client[j].c
      BY <1>4 DEF ClaimStart, PublishReady
    <2> QED
      BY <1>2, <2>1, <2>2, <2>3, LoadedKept
  <1>5. CASE \/ AccessReady(k) \/ AccessClone(k) \/ RefreshAccess(k) \/ TriggerBuild(k)
             \/ CreateContainer(k) \/ RunContainer(k) \/ IsOnline(k) \/ AbandonStart(k)
             \/ WaitReady(k) \/ Done(k)
    <2>1. UNCHANGED <<status, late>> /\ ~At(k, "idle")
      BY <1>5 DEF AccessReady, AccessClone, RefreshAccess, TriggerBuild, CreateContainer,
                  RunContainer, IsOnline, AbandonStart, WaitReady, Done
    <2>2. \A j \in Clients : \/ client'[j] = client[j]
                             \/ client'[j].pc = "idle"
                             \/ j = k /\ client'[j].c = client[j].c
      BY <1>5 DEF AccessReady, AccessClone, RefreshAccess, TriggerBuild, CreateContainer,
                  RunContainer, IsOnline, AbandonStart, WaitReady, Done
    <2> QED
      BY <1>2, <2>1, <2>2, LoadedKept DEF LoadedStays, Is
  <1>6. ASSUME NEW c \in Containers, Request(k, c)
        PROVE  LoadedInv'
    <2>1. UNCHANGED <<status, late>>
      BY <1>6 DEF Request, Found
    <2>2. \A j \in Clients : client'[j] = client[j] \/ client'[j].c \in inMap
      BY <1>6 DEF Request, Found
    <2> QED
      BY <1>2, <2>1, <2>2, LoadedKept DEF LoadedStays, Is
  <1> QED
    BY <1>1, <1>3, <1>4, <1>5, <1>6 DEF ClientStep

(* A sync writes what it found loaded, and the build worker no Absent.       *)
LEMMA SyncOrBuildLoads ==
    ASSUME ContainerConstants, MapConstants, TypeInv, LoadedInv, Syncs \/ Builds
    PROVE  LoadedInv'
  <1> USE DEF TypeInv, TypeOK, ContainerTypeOK
  <1>1. CASE (\E s \in Syncers : SyncWithDb(s)) \/ BuilderLocks
    BY <1>1, BeginSyncLoadsAll DEF SyncWithDb, BuilderLocks
  <1>2. ASSUME UNCHANGED <<client, late, inMap>>, LoadedStays,
               \/ sync'.phase \notin {"enqueueWrite", "downgradeWrite"}
               \/ sync' = sync
               \/ sync'.c \in Containers /\ ~Is(sync'.c, "Absent")
        PROVE  LoadedInv'
    BY <1>2, LoadedKept DEF At
  <1>3. ASSUME NEW c \in Containers, EnqueueRead(c) \/ DowngradeRead(c)
        PROVE  LoadedInv'
    <2>1. UNCHANGED <<status, client, late, inMap>>
      BY <1>3 DEF EnqueueRead, DowngradeRead, Visit, containerVars, loaded
    <2>2. \/ sync'.phase \notin {"enqueueWrite", "downgradeWrite"}
          \/ sync'.c = c /\ ~Is(c, "Absent")
      BY <1>3 DEF EnqueueRead, DowngradeRead, Visit, SyncGoto, Is
    <2> QED
      BY <1>2, <2>1, <2>2 DEF LoadedStays, Is
  <1>4. CASE EnqueueWrite \/ DowngradeWrite
    <2>1. LoadedStays
      BY <1>4 DEF EnqueueWrite, DowngradeWrite, Write, Queued, Plain, LoadedStays, Is
    <2>2. UNCHANGED <<client, late, inMap>> /\ sync'.phase \in {"enqueue", "downgrade"}
      BY <1>4 DEF EnqueueWrite, DowngradeWrite, Visited, SyncGoto, loaded
    <2> QED
      BY <1>2, <2>1, <2>2
  <1>5. CASE TurnToDowngrades \/ \E s \in Syncers : SyncWithDbUnlocks(s) \/ TriggerWorkers(s)
    <2>1. UNCHANGED <<status, client, late, inMap>> /\
          (sync' = sync \/ sync'.phase \in {"free", "downgrade"})
      BY <1>5 DEF TurnToDowngrades, SyncWithDbUnlocks, TriggerWorkers, SyncGoto, NoSync,
                  containerVars, loaded
    <2> QED
      BY <1>2, <2>1 DEF LoadedStays, Is
  <1>6. ASSUME NEW name \in {"Building", "StandBy", "Failed"}, NEW next, EndBuild(name, next)
        PROVE  LoadedInv'
    <2>1. LoadedStays
      BY <1>6 DEF EndBuild, Write, Plain, LoadedStays, Is
    <2> QED
      BY <1>2, <1>6, <2>1 DEF EndBuild, mapVars, loaded
  <1>7. CASE MarkBuilding \/ BuildSucceeds \/ BuildFails
    <2>1. ASSUME NEW r, NEW next, RecordResult(r, next) \/ KeepResult(r, next)
          PROVE  UNCHANGED <<status, client, late, inMap, sync>>
      BY <2>1 DEF RecordResult, KeepResult, containerVars, loaded
    <2>2. ASSUME UNCHANGED <<status, client, late, inMap, sync>>
          PROVE  LoadedInv'
      BY <1>2, <2>2 DEF LoadedStays, Is
    <2> QED
      BY <1>6, <1>7, <2>1, <2>2 DEF MarkBuilding, BuildSucceeds, BuildFails, EndBuild
  <1>8. CASE BuilderRecv \/ SetupDb \/ BuildImage \/ BuildPanics \/ BuilderUnlocks \/ GetContainerToBuild
    <2>1. UNCHANGED <<status, client, late, inMap>> /\ (sync' = sync \/ sync'.phase = "free")
      BY <1>8 DEF BuilderRecv, SetupDb, BuildImage, BuildPanics, BuilderUnlocks,
                  GetContainerToBuild, NoSync, containerVars, mapVars, loaded
    <2> QED
      BY <1>2, <2>1 DEF LoadedStays, Is
  <1> QED
    BY <1>1, <1>3, <1>4, <1>5, <1>7, <1>8 DEF Syncs, SyncStep, Builds, BuildStep

(* So what is held was loaded, always.                                       *)
LEMMA LoadedInvHolds == Spec => []LoadedInv
  <1>1. Init => LoadedInv
    BY DEF Init, ContainerInit, MapInit, AtRest, NoSync, LoadedInv, At
  <1>2. OwnerInv /\ LoadedInv /\ [Next]_vars => LoadedInv'
    <2> SUFFICES ASSUME TypeInv, LoadedInv, [Next]_vars
                 PROVE  LoadedInv'
      BY DEF OwnerInv
    <2>1. CASE Restart
      BY <2>1 DEF Restart, AtRest, NoSync, LoadedInv, At
    <2>2. CASE Environment \/ Cleanings \/ UNCHANGED vars
      BY <2>2, OthersLeave DEF LoadedInv, Is, At
    <2> QED
      BY <2>1, <2>2, RequestLoads, SyncOrBuildLoads, ContainerConstants, MapConstants DEF Next
  <1> QED
    BY <1>1, <1>2, OwnerInvHolds, PTL DEF Spec

(* What a sync gives a status was new, and nothing becomes new.              *)
LEMMA SyncLoadsNew ==
    ASSUME ContainerConstants, MapConstants, TypeInv, LifeInv,
           NEW by \in Syncers \union {"builder"}, BeginSync(by)
    PROVE  /\ \A c \in Containers :
                 \/ status'[c] = status[c]
                 \/ /\ New(c) /\ Is(c, "Absent")
                    /\ status'[c].name \in {"Built", "Queued", "Failed", "StandBy"}
                    /\ Is(c, "Built")' => c \in Apps /\ dbResult[c] = "Built"
           /\ \A c \in Containers : New(c)' => New(c) /\ status'[c] = status[c]
           /\ NewIsUntouched'
  <1> DEFINE added == MapAfterSync \ inMap
  <1> USE DEF BeginSync, TypeInv, TypeOK, ContainerTypeOK, MapTypeOK, MapConstants, dbVars
  <1>1. \A c \in added : New(c)
    BY DEF MapAfterSync, Live, New, Apps
  <1>2. \A c \in added \cap Containers :
            /\ InitialStatus(c).name \in {"Built", "Queued", "Failed", "StandBy"}
            /\ InitialStatus(c).name = "Built" => c \in Apps /\ dbResult[c] = "Built"
    BY DEF InitialStatus, Plain, Apps, Results
  <1>3. \A c \in Containers :
             IF c \in added THEN status'[c] = InitialStatus(c) ELSE status'[c] = status[c]
    OBVIOUS
  <1>4. \A c \in Containers : New(c)' => New(c) /\ c \notin added
    BY DEF New, MapAfterSync, Live, LifeInv, NewIsUntouched, Apps
  <1>5. \A c \in inMap' \cap Apps : rows'[c] # "none"
    BY DEF MapAfterSync, Live, Apps
  <1>6. \A c \in added : Is(c, "Absent")
    BY <1>1 DEF LifeInv, NewIsUntouched, MapAfterSync, Live, Apps
  <1> HIDE DEF added, BeginSync
  <1>7. \A c \in Containers : New(c)' => New(c) /\ status'[c] = status[c]
    BY <1>3, <1>4
  <1>8. NewIsUntouched'
    BY <1>5, <1>7 DEF NewIsUntouched, LifeInv, Is, Apps
  <1> QED
    BY <1>1, <1>2, <1>3, <1>6, <1>7, <1>8 DEF Is

(* So a sync disturbs neither a start nor a build.                           *)
LEMMA BeginSyncLife ==
    ASSUME ContainerConstants, MapConstants, TypeInv, LifeInv,
           NEW by \in Syncers \union {"builder"}, BeginSync(by),
           builder' = builder \/ (builder'.pc = "syncing" /\ builder'.c = NoContainer)
    PROVE  LifeInv'
  <1>1. /\ \A c \in Containers :
              \/ status'[c] = status[c]
              \/ New(c) /\ Is(c, "Absent")
        /\ \A c \in Containers : New(c)' => New(c) /\ status'[c] = status[c]
        /\ NewIsUntouched'
    BY SyncLoadsNew
  <1>2. UNCHANGED <<client, late, dbVars>> /\ sync'.phase = "enqueue"
    BY DEF BeginSync
  <1>3. QueuesUnbuilt'
    BY <1>2 DEF QueuesUnbuilt
  <1>4. DowngradesReady'
    BY <1>2 DEF DowngradesReady
  <1>5. BuilderIsLoaded'
    BY <1>1 DEF LifeInv, BuilderIsLoaded, BuilderAway, BuilderAt
  <1>6. StartIsExclusive'
    BY <1>1, <1>2 DEF LifeInv, StartIsExclusive, Owns, Is
  <1>7. BuildIsExclusive'
    <2>1. CASE builder' = builder
      BY <1>1, <1>2, <2>1
         DEF LifeInv, BuildIsExclusive, BuilderIsLoaded, BuilderAway, BuilderAt, Owns, Is
    <2>2. CASE builder'.pc = "syncing" /\ builder'.c = NoContainer
      BY <1>2, <2>2
         DEF BuildIsExclusive, BuilderAt, Owns, Owning, TypeInv, IdsKnown, At, ContainerConstants
    <2> QED
      BY <2>1, <2>2
  <1> QED
    BY <1>1, <1>3, <1>4, <1>5, <1>6, <1>7 DEF LifeInv

(* Nobody is at work on a Ready container, so it can be downgraded; nor on   *)
(* one that was read Ready, but for those of which nothing is promised.      *)
LEMMA ReadyIsFree ==
    ASSUME ContainerConstants, LifeInv,
           NEW b \in Containers, ~Is(b, "Absent"), b \notin late => Is(b, "Ready"),
           status'[b].name = "StandBy",
           \A c \in Containers \ {b} : status'[c] = status[c],
           UNCHANGED <<client, late, rows, inMap, builder>>, sync'.phase = "downgrade"
    PROVE  LifeInv'
  <1>1. QueuesUnbuilt' /\ DowngradesReady'
    BY DEF QueuesUnbuilt, DowngradesReady
  <1>2. NewIsUntouched' /\ BuilderIsLoaded'
    BY DEF LifeInv, NewIsUntouched, BuilderIsLoaded, BuilderAway, BuilderAt, New, Is, Apps
  <1>3. StartIsExclusive'
    BY DEF LifeInv, StartIsExclusive, Owns, Is
  <1>4. BuildIsExclusive'
    <2>1. ~BuilderAway /\ ~BuilderAt("lock") => builder.c \in Containers
      BY DEF LifeInv, BuilderIsLoaded
    <2>2. builder.c \notin late /\
          builder.pc \in {"setup", "mark", "build", "finishHook", "finishResult", "finishStatus",
                         "failHook", "failStatus", "failResult"}
             => status'[builder.c] = status[builder.c]
      BY <2>1 DEF LifeInv, BuildIsExclusive, BuilderAway, BuilderAt, Is
    <2> QED
      BY <2>2 DEF LifeInv, BuildIsExclusive, BuilderAt, Owns, Is
  <1> QED
    BY <1>1, <1>2, <1>3, <1>4 DEF LifeInv

(* Nobody starts or builds a container that is Built, and a build of one     *)
(* that is Queued has not begun: to queue it disturbs neither, unless it is  *)
(* late.                                                                     *)
LEMMA QueueIsFree ==
    ASSUME ContainerConstants, TypeInv, LifeInv,
           NEW b \in Containers, ~Is(b, "Absent"), b \notin late' => Unbuilt(b),
           Is(b, "Queued")', late \subseteq late',
           \A c \in Containers \ {b} : status'[c] = status[c],
           UNCHANGED <<rows, inMap, builder>>, sync' = sync \/ sync'.phase = "enqueue",
           \A k \in Clients : client'[k] = client[k] \/ client'[k].pc \notin Owning
    PROVE  LifeInv'
  <1>1. QueuesUnbuilt' /\ DowngradesReady'
    BY DEF LifeInv, QueuesUnbuilt, DowngradesReady, Unbuilt, BuilderAt, Is
  <1>2. NewIsUntouched' /\ BuilderIsLoaded'
    BY DEF LifeInv, NewIsUntouched, BuilderIsLoaded, BuilderAway, BuilderAt, New, Unbuilt, Is, Apps
  <1>3. StartIsExclusive'
    <2> SUFFICES ASSUME NEW k \in Clients, NEW c \in Containers \ late', Owns(k, c)'
                 PROVE  Is(c, "Starting")' /\ \A j \in Clients : Owns(j, c)' => j = k
      BY DEF StartIsExclusive
    <2>1. c \notin late /\ Owns(k, c) /\ Is(c, "Starting")
      BY DEF LifeInv, StartIsExclusive, Owns
    <2>2. c # b
      BY <2>1 DEF Unbuilt, Is
    <2> QED
      BY <2>1, <2>2 DEF LifeInv, StartIsExclusive, Is, Owns
  <1>4. BuildIsExclusive'
    <2>1. ~BuilderAway /\ ~BuilderAt("lock") => builder.c \in Containers
      BY DEF LifeInv, BuilderIsLoaded
    <2>2. builder.c \notin late' /\ builder.pc \in {"setup", "mark"} => Is(builder.c, "Queued")'
      BY <2>1 DEF LifeInv, BuildIsExclusive, BuilderAway, BuilderAt, Is
    <2>3. builder.c \notin late' /\
          builder.pc \in {"build", "finishHook", "finishResult", "finishStatus", "failHook",
                         "failStatus", "failResult"}
             => status'[builder.c] = status[builder.c]
      BY <2>1 DEF LifeInv, BuildIsExclusive, BuilderAway, BuilderAt, Unbuilt, Is
    <2>4. builder.c \notin late' /\ ~BuilderAt("lock") => \A k \in Clients : ~Owns(k, builder.c)'
      BY DEF LifeInv, BuildIsExclusive, Owns
    <2> QED
      BY <2>2, <2>3, <2>4 DEF LifeInv, BuildIsExclusive, BuilderAt, Owns, Is
  <1> QED
    BY <1>1, <1>2, <1>3, <1>4 DEF LifeInv

(* What a sync finds Built is Built or Queued until it is queued, and what   *)
(* it finds Ready is Ready until it is downgraded, unless it is queued late. *)
LEMMA SyncLife ==
    ASSUME ContainerConstants, MapConstants, TypeInv, LoadedInv, LifeInv, Syncs
    PROVE  LifeInv'
  <1> USE DEF TypeInv, TypeOK, ContainerTypeOK, MapTypeOK, workerVars
  <1>1. ASSUME NEW c \in Containers, EnqueueRead(c) \/ DowngradeRead(c), UNCHANGED workerVars
        PROVE  LifeInv'
    <2>1. UNCHANGED <<status, client, late, rows, inMap, builder>>
      BY <1>1 DEF EnqueueRead, DowngradeRead, Visit, containerVars, dbVars, loaded
    <2>2. \/ sync'.phase \notin {"enqueueWrite", "downgradeWrite"}
          \/ sync'.phase = "enqueueWrite" /\ sync'.c = c /\ Is(c, "Built")
          \/ sync'.phase = "downgradeWrite" /\ sync'.c = c /\ Is(c, "Ready")
      BY <1>1 DEF EnqueueRead, DowngradeRead, Visit, SyncGoto
    <2>3. Is(c, "Built") /\ c = builder.c /\ c \notin late => BuilderAt("lock")
      BY DEF LifeInv, BuildIsExclusive, BuilderIsLoaded, BuilderAway, BuilderAt, BuilderPCs, Is,
             ContainerConstants
    <2>4. QueuesUnbuilt' /\ DowngradesReady'
      BY <2>1, <2>2, <2>3 DEF QueuesUnbuilt, DowngradesReady, Unbuilt, BuilderAt, Is
    <2> QED
      BY <2>1, <2>4 DEF LifeInv, NewIsUntouched, BuilderIsLoaded, BuilderAway, BuilderAt,
                        StartIsExclusive, BuildIsExclusive, Owns, New, Is
  <1>2. CASE EnqueueWrite /\ UNCHANGED workerVars
    <2>1. PICK b \in Containers : b = sync.c /\ ~Is(b, "Absent") /\ (b \notin late => Unbuilt(b))
      BY <1>2 DEF EnqueueWrite, LifeInv, QueuesUnbuilt, LoadedInv
    <2>2. Is(b, "Queued")' /\ \A c \in Containers \ {b} : status'[c] = status[c]
      BY <1>2, <2>1 DEF EnqueueWrite, Write, Queued, Is
    <2>3. UNCHANGED <<client, late, rows, inMap, builder>> /\ sync'.phase = "enqueue"
      BY <1>2 DEF EnqueueWrite, Visited, SyncGoto, dbVars, loaded
    <2> QED
      BY <2>1, <2>2, <2>3, QueueIsFree
  <1>3. CASE TurnToDowngrades /\ UNCHANGED workerVars
    BY <1>3 DEF TurnToDowngrades, SyncGoto, containerVars, dbVars, loaded, LifeInv,
                QueuesUnbuilt, DowngradesReady, NewIsUntouched, BuilderIsLoaded, BuilderAway,
                BuilderAt, StartIsExclusive, BuildIsExclusive, Owns, New, Is
  <1>4. CASE DowngradeWrite /\ UNCHANGED workerVars
    <2>1. PICK b \in Containers : b = sync.c /\ ~Is(b, "Absent") /\ (b \notin late => Is(b, "Ready"))
      BY <1>4 DEF DowngradeWrite, LifeInv, DowngradesReady, LoadedInv
    <2>2. status'[b].name = "StandBy" /\ \A c \in Containers \ {b} : status'[c] = status[c]
      BY <1>4, <2>1 DEF DowngradeWrite, Write, Plain
    <2>3. UNCHANGED <<client, late, rows, inMap, builder>> /\ sync'.phase = "downgrade"
      BY <1>4 DEF DowngradeWrite, Visited, SyncGoto, dbVars, loaded
    <2> QED
      BY <2>1, <2>2, <2>3, ReadyIsFree
  <1>5. ASSUME NEW s \in Syncers, SyncWithDb(s), UNCHANGED workerVars
        PROVE  LifeInv'
    BY <1>5, BeginSyncLife DEF SyncWithDb
  <1>6. ASSUME NEW s \in Syncers, SyncWithDbUnlocks(s) \/ TriggerWorkers(s), UNCHANGED workerVars
        PROVE  LifeInv'
    <2>1. UNCHANGED <<status, client, late, rows, inMap, builder>>
      BY <1>6 DEF SyncWithDbUnlocks, TriggerWorkers, containerVars, dbVars, loaded
    <2>2. sync' = sync \/ sync'.phase = "free"
      BY <1>6 DEF SyncWithDbUnlocks, TriggerWorkers, NoSync
    <2>3. QueuesUnbuilt' /\ DowngradesReady'
      BY <2>1, <2>2 DEF LifeInv, QueuesUnbuilt, DowngradesReady, Unbuilt, BuilderAt, Is
    <2> QED
      BY <2>1, <2>3 DEF LifeInv, NewIsUntouched, BuilderIsLoaded, BuilderAway, BuilderAt, Unbuilt,
                        StartIsExclusive, BuildIsExclusive, Owns, New, Is
  <1> QED
    BY <1>1, <1>2, <1>3, <1>4, <1>5, <1>6 DEF Syncs, SyncStep

(* The build worker only writes the status of a container it found Queued,   *)
(* and while it does so no request has that container to start, unless one   *)
(* queued it late.                                                           *)
LEMMA BuilderWrites ==
    ASSUME ContainerConstants, TypeInv, LifeInv, ~BuilderAway, ~BuilderAt("lock"),
           NEW name \in {"Building", "StandBy", "Failed"}, Write(builder.c, Plain(name)),
           UNCHANGED <<client, late, sync, rows, inMap>>, builder'.c = builder.c,
           ~BuilderAway',
           builder'.pc \in {"build", "finishHook", "finishResult", "finishStatus",
                            "failHook", "failStatus"} => name = "Building",
           builder'.pc = "failResult" => name = "Failed",
           builder'.pc \notin {"setup", "mark"}
    PROVE  LifeInv'
  <1> DEFINE b == builder.c
  <1>1. /\ b \in Containers /\ ~New(b)
        /\ b \notin late => status[b].name \in {"Queued", "Building", "Failed"}
    BY DEF LifeInv, BuilderIsLoaded, BuildIsExclusive, BuilderAway, BuilderAt, TypeInv, TypeOK,
           BuilderPCs, Is
  <1>2. status'[b].name = name /\ \A c \in Containers \ {b} : status'[c] = status[c]
    BY <1>1 DEF Write, Plain, TypeInv, TypeOK, ContainerTypeOK
  <1>3. b \notin late => \A k \in Clients : ~Owns(k, b)
    BY DEF LifeInv, BuildIsExclusive
  <1>4. \A c \in Containers : New(c)' <=> New(c)
    BY DEF New
  <1>9. QueuesUnbuilt'
    BY <1>2 DEF LifeInv, QueuesUnbuilt, Unbuilt, BuilderAt, Is
  <1> HIDE DEF b
  <1>5. DowngradesReady' /\ NewIsUntouched'
    BY <1>1, <1>2, <1>4 DEF LifeInv, DowngradesReady, NewIsUntouched, Is, Apps
  <1>6. BuilderIsLoaded'
    BY <1>1, <1>4 DEF b, BuilderIsLoaded, BuilderAway
  <1>7. StartIsExclusive'
    BY <1>1, <1>2, <1>3 DEF LifeInv, StartIsExclusive, Owns, Is
  <1>8. BuildIsExclusive'
    <2>1. builder'.c = b
      BY DEF b
    <2>2. b \notin late => \A k \in Clients : ~(client'[k].pc \in Owning /\ client'[k].c = b)
      BY <1>3 DEF b, Owns
    <2> QED
      BY <1>1, <1>2, <2>1, <2>2 DEF BuildIsExclusive, BuilderAt, Is, Owns
  <1> QED
    BY <1>5, <1>6, <1>7, <1>8, <1>9 DEF LifeInv

(* Its other steps go on with the same container, or leave it at the end.    *)
LEMMA BuilderMoves ==
    ASSUME ContainerConstants, TypeInv, LifeInv, ~BuilderAway, ~BuilderAt("lock"),
           UNCHANGED <<status, client, late, sync, rows, inMap>>,
           builder'.c = builder.c, ~BuilderAway',
           builder.c \notin late =>
              /\ builder'.pc \in {"setup", "mark"} => Is(builder.c, "Queued")
              /\ builder'.pc \in {"build", "finishHook", "finishResult", "finishStatus",
                                  "failHook", "failStatus"} => Is(builder.c, "Building")
              /\ builder'.pc = "failResult" => Is(builder.c, "Failed")
    PROVE  LifeInv'
  <1>1. \A c \in Containers : New(c)' <=> New(c)
    BY DEF New
  <1>2. builder.c \in Containers /\ ~New(builder.c)
    BY DEF LifeInv, BuilderIsLoaded
  <1>3. QueuesUnbuilt' /\ DowngradesReady' /\ StartIsExclusive'
    BY DEF LifeInv, QueuesUnbuilt, DowngradesReady, StartIsExclusive, Owns, Unbuilt, BuilderAt, Is
  <1>4. NewIsUntouched'
    BY <1>1, <1>2 DEF LifeInv, NewIsUntouched, Is, Apps
  <1>5. BuilderIsLoaded'
    BY <1>1, <1>2 DEF BuilderIsLoaded, BuilderAway
  <1>6. BuildIsExclusive'
    BY DEF LifeInv, BuildIsExclusive, BuilderAt, Owns, Is
  <1> QED
    BY <1>3, <1>4, <1>5, <1>6 DEF LifeInv

(* The build worker builds only what is Queued, which nobody starts.         *)
LEMMA BuildLife ==
    ASSUME ContainerConstants, MapConstants, TypeInv, SyncHasOwner, LifeInv, Builds
    PROVE  LifeInv'
  <1> USE DEF BuilderAt, BuilderGoto
  <1>1. CASE BuilderRecv \/ BuilderUnlocks
    <2>1. UNCHANGED <<status, client, late, rows, inMap>>
      BY <1>1 DEF BuilderRecv, BuilderUnlocks, containerVars, mapVars, dbVars, loaded
    <2>2. sync' = sync \/ sync'.phase = "free"
      BY <1>1 DEF BuilderRecv, BuilderUnlocks, mapVars, NoSync
    <2>3. BuilderAway /\ builder'.pc = "pick" /\ builder'.c = builder.c
      BY <1>1 DEF BuilderRecv, BuilderUnlocks, SyncOver, SyncHasOwner, MapReadable, MapConstants,
                  BuilderAway
    <2> QED
      BY <2>1, <2>2, <2>3
         DEF LifeInv, QueuesUnbuilt, DowngradesReady, NewIsUntouched, BuilderIsLoaded, BuilderAway,
             BuilderAt, StartIsExclusive, BuildIsExclusive, Owns, New, Unbuilt, Is
  <1>2. CASE GetContainerToBuild
    <2>1. /\ UNCHANGED <<status, client, late, sync, rows, inMap>> /\ builder.c = NoContainer
          /\ sync.phase = "free"
      BY <1>2 DEF GetContainerToBuild, MapReadable, containerVars, mapVars, dbVars, loaded,
                  LifeInv, BuilderIsLoaded, BuilderAway
    <2>2. \/ builder' = Resting
          \/ /\ builder'.pc = "setup"
             /\ builder'.c \in inMap \cap Containers /\ Is(builder'.c, "Queued")
      BY <1>2 DEF GetContainerToBuild, ToBuild, TypeInv, TypeOK, MapTypeOK
    <2>3. QueuesUnbuilt' /\ DowngradesReady' /\ NewIsUntouched' /\ StartIsExclusive'
      BY <2>1 DEF LifeInv, QueuesUnbuilt, DowngradesReady, NewIsUntouched, StartIsExclusive, Owns,
                  New, Is
    <2>4. BuilderIsLoaded'
      BY <2>1, <2>2 DEF BuilderIsLoaded, BuilderAway, New, Resting
    <2>5. BuildIsExclusive'
      <3>1. CASE builder' = Resting
        BY <2>1, <3>1 DEF Resting, BuildIsExclusive, Owns, Owning, TypeInv, IdsKnown, At,
                          ContainerConstants
      <3>2. CASE builder'.pc = "setup" /\ builder'.c \in Containers /\ Is(builder'.c, "Queued")
        BY <2>1, <3>2 DEF LifeInv, StartIsExclusive, BuildIsExclusive, Owns, Is
      <3> QED
        BY <2>2, <3>1, <3>2
    <2> QED
      BY <2>3, <2>4, <2>5 DEF LifeInv
  <1>3. CASE SetupDb /\ builder'.pc = "lock"
    BY <1>3 DEF SetupDb, containerVars, mapVars, dbVars, loaded, LifeInv, QueuesUnbuilt,
                DowngradesReady, NewIsUntouched, BuilderIsLoaded, BuilderAway,
                StartIsExclusive, BuildIsExclusive, Owns, New, Unbuilt, Is
  <1>4. CASE (SetupDb /\ builder'.pc = "mark") \/ BuildImage
    <2>1. UNCHANGED <<status, client, late, sync, rows, inMap>> /\ builder'.c = builder.c
      BY <1>4 DEF SetupDb, BuildImage, containerVars, mapVars, dbVars, loaded
    <2>2. \/ builder.pc = "setup" /\ builder'.pc = "mark"
          \/ builder.pc = "build" /\ builder'.pc \in {"finishHook", "failHook"}
      BY <1>4 DEF SetupDb, BuildImage
    <2> QED
      BY <2>1, <2>2, BuilderMoves DEF LifeInv, BuildIsExclusive, BuilderAway
  <1>5. CASE MarkBuilding
    BY <1>5, BuilderWrites DEF MarkBuilding, BuilderAway, mapVars, dbVars, loaded
  <1>6. CASE BuildSucceeds \/ BuildFails
    <2>1. ASSUME NEW name \in {"StandBy", "Failed"}, NEW next, EndBuild(name, next),
                 \/ builder.pc = "finishStatus" /\ next = "lock"
                 \/ builder.pc = "failStatus" /\ next = "failResult" /\ name = "Failed"
          PROVE  LifeInv'
      BY <2>1, BuilderWrites DEF EndBuild, BuilderAway, mapVars, dbVars, loaded
    <2>2. ASSUME NEW r, NEW next, RecordResult(r, next) \/ KeepResult(r, next),
                 \/ builder.pc = "finishHook" /\ next = "finishResult"
                 \/ builder.pc = "finishResult" /\ next = "finishStatus"
                 \/ builder.pc = "failHook" /\ next = "failStatus"
                 \/ builder.pc = "failResult" /\ next = "lock"
          PROVE  LifeInv'
      <3>1. UNCHANGED <<status, client, late, sync, rows, inMap>> /\ builder'.c = builder.c
        BY <2>2 DEF RecordResult, KeepResult, containerVars, dbVars, loaded
      <3>2. builder'.pc = next
        BY <2>2 DEF RecordResult, KeepResult
      <3> QED
        BY <2>2, <3>1, <3>2, BuilderMoves DEF LifeInv, BuildIsExclusive, BuilderAway
    <2> QED
      BY <1>6, <2>1, <2>2 DEF BuildSucceeds, BuildFails
  <1>8. CASE BuildPanics
    <2>1. UNCHANGED <<status, client, late, sync, rows, inMap>>
      BY <1>8 DEF BuildPanics, containerVars, mapVars, dbVars, loaded
    <2>2. ~BuilderAway /\ builder'.pc = "dead" /\ builder'.c = NoContainer
      BY <1>8 DEF BuildPanics, BuilderAway
    <2>3. QueuesUnbuilt' /\ DowngradesReady' /\ NewIsUntouched' /\ StartIsExclusive'
      BY <1>8, <2>1
         DEF BuildPanics, LifeInv, QueuesUnbuilt, DowngradesReady, NewIsUntouched,
             StartIsExclusive, Owns, New, Unbuilt, Is
    <2>4. BuilderIsLoaded'
      BY <2>2 DEF BuilderIsLoaded, BuilderAway
    <2>5. BuildIsExclusive'
      BY <2>1, <2>2 DEF BuildIsExclusive, Owns, Owning, TypeInv, IdsKnown, At, ContainerConstants
    <2> QED
      BY <2>3, <2>4, <2>5 DEF LifeInv
  <1>7. CASE BuilderLocks
    BY <1>7, BeginSyncLife DEF BuilderLocks
  <1> QED
    BY <1>1, <1>2, <1>3, <1>4, <1>5, <1>6, <1>7, <1>8 DEF Builds, BuildStep, SetupDb

(* A request writes a status to claim a start, as its owner, or to queue     *)
(* what it found Built, after which nothing is said of it if it was late.    *)
LEMMA RequestLife ==
    ASSUME ContainerConstants, TypeInv, LoadedInv, LifeInv, Requests
    PROVE  LifeInv'
  <1>1. PICK k \in Clients : ClientStep(k) \/ \E c \in Containers : Request(k, c)
    BY DEF Requests
  <1>2. UNCHANGED <<sync, rows, inMap, builder>>
    BY DEF Requests, mapVars, dbVars, loaded, workerVars
  <1>3. client' \in [Clients -> [pc : ClientPCs, c : Containers \union {NoContainer},
                                 id : Ids \union {NoId}]]
    BY <1>1, <1>2, RequestTypes DEF TypeInv, TypeOK, ContainerTypeOK
  <1>4. \A j \in Clients \ {k} : client'[j] = client[j]
    BY <1>1 DEF ClientStep, Request, Found, AccessReady, AccessClone, RefreshAccess, RequeueBuilt,
                TriggerBuild, ClaimStart, CreateContainer, RunContainer, IsOnline, AbandonStart,
                PublishReady, WaitReady, Done, Hold, Goto, Leave, TypeInv, TypeOK, ContainerTypeOK
  <1>5. BuilderIsLoaded'
    BY <1>2 DEF LifeInv, BuilderIsLoaded, BuilderAway, BuilderAt, New
  <1>6. CASE /\ UNCHANGED <<status, late>>
             /\ client'[k].pc \in Owning => client[k].pc \in Owning /\ client'[k].c = client[k].c
    BY <1>2, <1>4, <1>5, <1>6
       DEF LifeInv, QueuesUnbuilt, DowngradesReady, NewIsUntouched, StartIsExclusive,
           BuildIsExclusive, BuilderAt, Owns, New, Unbuilt, Is
  <1>7. ASSUME NEW b \in Containers, b = client[k].c, client'[k].c = b, UNCHANGED late,
               \A c \in Containers \ {b} : status'[c] = status[c],
               \/ /\ Is(b, "StandBy") /\ status'[b].name = "Starting"
                  /\ client'[k].pc = "create"
               \/ /\ Owns(k, b) /\ status'[b].name = "Ready"
                  /\ client'[k].pc = "using"
        PROVE  LifeInv'
    <2>0. ~Is(b, "Absent")
      BY <1>7 DEF LoadedInv, Owns, Owning, Is, At
    <2>1. b \notin late => Is(b, "StandBy") \/ Is(b, "Starting")
      BY <1>7 DEF LifeInv, StartIsExclusive
    <2>2. QueuesUnbuilt' /\ DowngradesReady' /\ NewIsUntouched'
      BY <1>2, <1>7, <2>0, <2>1
         DEF LifeInv, QueuesUnbuilt, DowngradesReady, NewIsUntouched, New, Unbuilt, BuilderAt, Is,
             Apps
    <2>3. StartIsExclusive'
      BY <1>4, <1>7 DEF LifeInv, StartIsExclusive, Owns, Owning, Is
    <2>4. BuildIsExclusive'
      <3>1. b \notin late /\ ~BuilderAt("lock") => builder.c # b
        BY <1>7, <2>1 DEF LifeInv, BuilderIsLoaded, BuildIsExclusive, BuilderAway, BuilderAt,
                          TypeInv, TypeOK, BuilderPCs, Is, ContainerConstants
      <3>2. builder.c \notin late /\
            builder.pc \in {"setup", "mark", "build", "finishHook", "finishResult", "finishStatus",
                           "failHook", "failStatus", "failResult"}
               => builder.c \in Containers /\ status'[builder.c] = status[builder.c]
        BY <1>7, <3>1 DEF LifeInv, BuilderIsLoaded, BuilderAway, BuilderAt
      <3> QED
        BY <1>2, <1>4, <1>7, <3>1, <3>2 DEF LifeInv, BuildIsExclusive, BuilderAt, Owns, Is
    <2> QED
      BY <1>5, <2>2, <2>3, <2>4 DEF LifeInv
  <1> USE DEF TypeInv, TypeOK, ContainerTypeOK, IdsKnown, At, Goto, Hold, Leave, AtRest, Owning
  <1>8. CASE RequeueBuilt(k)
    <2>1. client'[k].pc = "trigger" /\ client[k].pc = "requeue"
      BY <1>8 DEF RequeueBuilt
    <2>2. PICK b \in Containers : b = client[k].c /\ ~Is(b, "Absent")
      BY <2>1 DEF LoadedInv
    <2>5. (b \notin late' => Unbuilt(b)) /\ late \subseteq late'
      BY <1>8, <2>2 DEF RequeueBuilt
    <2>3. Is(b, "Queued")' /\ \A c \in Containers \ {b} : status'[c] = status[c]
      BY <1>8, <2>2 DEF RequeueBuilt, Write, Queued, Is
    <2>4. \A j \in Clients : client'[j] = client[j] \/ client'[j].pc \notin Owning
      BY <1>4, <2>1
    <2> QED
      BY <1>2, <2>2, <2>3, <2>4, <2>5, QueueIsFree
  <1>9. CASE ClaimStart(k)
    <2>1. client[k].c \in Containers /\ UNCHANGED late
      BY <1>9 DEF ClaimStart
    <2>2. CASE ~Is(client[k].c, "StandBy")
      BY <1>6, <1>9, <2>2 DEF ClaimStart, Is
    <2>3. CASE Is(client[k].c, "StandBy")
      <3>1. Write(client[k].c, Plain("Starting")) /\ Goto(k, "create")
        BY <1>9, <2>3 DEF ClaimStart, Is
      <3>2. PICK b \in Containers : b = client[k].c
        BY <2>1
      <3>3. client'[k].pc = "create" /\ client'[k].c = b
        BY <3>1, <3>2
      <3>4. status'[b].name = "Starting" /\ \A c \in Containers \ {b} : status'[c] = status[c]
        BY <3>1, <3>2 DEF Write, Plain
      <3> QED
        BY <1>7, <2>1, <2>3, <3>2, <3>3, <3>4
    <2> QED
      BY <2>2, <2>3
  <1>10. CASE PublishReady(k)
    BY <1>7, <1>10 DEF PublishReady, Write, Ready, Owns
  <1>11. CASE AccessReady(k) \/ RefreshAccess(k) \/ TriggerBuild(k)
    BY <1>6, <1>11 DEF AccessReady, RefreshAccess, TriggerBuild
  <1>12. CASE AccessClone(k)
    BY <1>6, <1>12 DEF AccessClone
  <1>13. CASE CreateContainer(k) \/ RunContainer(k) \/ IsOnline(k) \/ AbandonStart(k)
    BY <1>6, <1>13 DEF CreateContainer, RunContainer, IsOnline, AbandonStart
  <1>14. CASE WaitReady(k) \/ Done(k)
    BY <1>6, <1>14 DEF WaitReady, Done
  <1>15. ASSUME NEW c \in Containers, Request(k, c)
         PROVE  LifeInv'
    BY <1>6, <1>15 DEF Request, Found
  <1> QED
    BY <1>1, <1>8, <1>9, <1>10, <1>11, <1>12, <1>13, <1>14, <1>15 DEF ClientStep

(* So they keep the invariant.                                               *)
LEMMA OthersLive ==
    ASSUME TypeInv, LifeInv, Environment \/ Cleanings \/ UNCHANGED vars
    PROVE  LifeInv'
  <1>1. /\ UNCHANGED <<status, client, late, sync, inMap, builder>>
        /\ \A c \in Apps : \/ rows'[c] = rows[c]
                           \/ rows[c] = "none" /\ rows'[c] = "live"
                           \/ rows[c] = "live" /\ rows'[c] = "deleted"
        /\ \A c \in Containers : New(c)' => New(c)
    BY OthersLeave
  <1>2. QueuesUnbuilt' /\ DowngradesReady' /\ StartIsExclusive' /\ BuildIsExclusive'
    BY <1>1 DEF LifeInv, QueuesUnbuilt, DowngradesReady, StartIsExclusive, BuildIsExclusive,
                BuilderAt, Owns, Unbuilt, Is
  <1>3. NewIsUntouched' /\ BuilderIsLoaded'
    BY <1>1 DEF LifeInv, NewIsUntouched, BuilderIsLoaded, BuilderAway, BuilderAt, Is, Apps
  <1> QED
    BY <1>2, <1>3 DEF LifeInv

(* When the process comes up nobody is at work and nothing is loaded,        *)
(* whatever the rows are: the invariant holds initially.                     *)
LEMMA InitLife ==
    ASSUME Init
    PROVE  LifeInv
  <1>1. /\ \A c \in Containers : Is(c, "Absent")
        /\ \A k \in Clients : client[k].pc = "idle"
        /\ builder = Resting /\ sync = NoSync /\ inMap = {}
    BY DEF Init, ContainerInit, MapInit, Plain, AtRest, Is
  <1>2. QueuesUnbuilt /\ DowngradesReady /\ NewIsUntouched /\ BuilderIsLoaded
    BY <1>1 DEF QueuesUnbuilt, DowngradesReady, NewIsUntouched, BuilderIsLoaded, BuilderAway,
                BuilderAt, Resting, NoSync
  <1>3. StartIsExclusive /\ BuildIsExclusive
    BY <1>1 DEF StartIsExclusive, BuildIsExclusive, BuilderAt, Owns, Owning, Resting
  <1> QED
    BY <1>2, <1>3 DEF LifeInv

(* And it does so after a restart.                                           *)
LEMMA RestartLife ==
    ASSUME Restart
    PROVE  LifeInv'
  <1>1. /\ \A c \in Containers : Is(c, "Absent")'
        /\ \A k \in Clients : client'[k].pc = "idle"
        /\ builder' = Resting /\ sync' = NoSync /\ inMap' = {}
    BY DEF Restart, Plain, AtRest, Is
  <1>2. QueuesUnbuilt' /\ DowngradesReady' /\ NewIsUntouched' /\ BuilderIsLoaded'
    BY <1>1 DEF QueuesUnbuilt, DowngradesReady, NewIsUntouched, BuilderIsLoaded, BuilderAway,
                BuilderAt, Resting, NoSync
  <1>3. StartIsExclusive' /\ BuildIsExclusive'
    BY <1>1 DEF StartIsExclusive, BuildIsExclusive, BuilderAt, Owns, Owning, Resting
  <1> QED
    BY <1>2, <1>3 DEF LifeInv

(* Every step keeps the invariant.                                           *)
LEMMA NextLife ==
    ASSUME OwnerInv, LoadedInv, LifeInv, [Next]_vars
    PROVE  LifeInv'
  <1>1. CASE UNCHANGED vars \/ Environment \/ Cleanings
    BY <1>1, OthersLive DEF OwnerInv
  <1>2. CASE Restart
    BY <1>2, RestartLife
  <1>3. CASE Requests
    BY <1>3, RequestLife, ContainerConstants DEF OwnerInv
  <1>4. CASE Syncs \/ Builds
    BY <1>4, SyncLife, BuildLife, ContainerConstants, MapConstants DEF OwnerInv
  <1> QED
    BY <1>1, <1>2, <1>3, <1>4 DEF Next

(* So it holds always.                                                       *)
LEMMA LifeInvHolds == Spec => []LifeInv
  <1>1. Init => LifeInv
    BY InitLife
  <1>2. OwnerInv /\ LoadedInv /\ LifeInv /\ [Next]_vars => LifeInv'
    BY NextLife
  <1> QED
    BY <1>1, <1>2, OwnerInvHolds, LoadedInvHolds, PTL DEF Spec

(* No two requests start the same container at the same time                 *)
(* (container/mod.rs:129), and no sync or build takes the Starting status    *)
(* from the one that does, however often the process restarts and whatever   *)
(* it finds, until a request queues the container late (mod.rs:391-397).     *)
THEOREM StartsAreExclusive == Spec => []StartIsExclusive
  <1>1. LifeInv => StartIsExclusive
    BY DEF LifeInv
  <1> QED
    BY <1>1, LifeInvHolds, PTL

(* A build keeps the status of its container to itself until it is over, and *)
(* nobody starts the image it replaces, unless a request queued it late.     *)
THEOREM BuildsAreExclusive == Spec => []BuildIsExclusive
  <1>1. LifeInv => BuildIsExclusive
    BY DEF LifeInv
  <1> QED
    BY <1>1, LifeInvHolds, PTL

-----------------------------------------------------------------------------
(* What is served is on record.                                              *)

(* The build worker writes the row and the result before the status.         *)
BuildRecorded ==
    builder.c \in Apps \ late =>
        /\ builder.pc = "finishResult" => dbResult[builder.c] = "Built"
        /\ builder.pc = "finishStatus" =>
              dbResult[builder.c] = "Built" /\ result[builder.c] = "Built"
        /\ builder.pc = "failStatus" => dbResult[builder.c] = "Failed"

RecordInv == ServedIsRecorded /\ BuildRecorded

(* A sync gives a new container of a deployment the status of its row, and   *)
(* leaves the others their results.                                          *)
LEMMA BeginSyncRecords ==
    ASSUME MapConstants, TypeInv, LifeInv, RecordInv,
           NEW by \in Syncers \union {"builder"}, BeginSync(by),
           builder' = builder \/ (builder'.pc = "syncing" /\ builder'.c = NoContainer)
    PROVE  RecordInv'
  <1> DEFINE added == MapAfterSync \ inMap
  <1> USE DEF BeginSync, TypeInv, TypeOK, ContainerTypeOK, MapTypeOK, MapConstants, dbVars
  <1>1. \A c \in added : New(c)
    BY DEF MapAfterSync, Live, New, Apps
  <1>2. \A c \in Containers :
            IF c \in added THEN status'[c] = InitialStatus(c)
                           ELSE status'[c] = status[c] /\ result'[c] = result[c]
    OBVIOUS
  <1>3. \A c \in Apps : /\ InitialStatus(c).name \in {"Built", "Failed", "Queued"}
                        /\ InitialStatus(c).name = "Failed" => dbResult[c] = "Failed"
    BY DEF InitialStatus, Plain, Apps, Results
  <1>4. UNCHANGED <<dbResult, late>>
    OBVIOUS
  <1> HIDE DEF added, BeginSync
  <1>5. ServedIsRecorded'
    BY <1>2, <1>3, <1>4 DEF RecordInv, ServedIsRecorded, Is, Apps
  <1>6. BuildRecorded'
    <2>1. CASE builder' = builder
      <3>1. builder.pc = "finishStatus" => builder.c \notin added
        BY <1>1 DEF LifeInv, BuilderIsLoaded, BuilderAway, BuilderAt
      <3> QED
        BY <1>2, <1>4, <2>1, <3>1 DEF RecordInv, BuildRecorded, Apps
    <2>2. CASE builder'.pc = "syncing"
      BY <2>2 DEF BuildRecorded
    <2> QED
      BY <2>1, <2>2
  <1> QED
    BY <1>5, <1>6 DEF RecordInv

(* The rest of a sync writes StandBy over what is Ready, or queues.          *)
LEMMA SyncRecords ==
    ASSUME MapConstants, TypeInv, LifeInv, RecordInv, Syncs
    PROVE  RecordInv'
  <1>1. ASSUME NEW s \in Syncers, SyncWithDb(s), UNCHANGED workerVars
        PROVE  RecordInv'
    BY <1>1, BeginSyncRecords DEF SyncWithDb, workerVars
  <1>2. CASE DowngradeWrite /\ UNCHANGED workerVars
    <2>1. PICK b \in Containers : b = sync.c /\ (b \notin late => Is(b, "Ready"))
      BY <1>2 DEF DowngradeWrite, LifeInv, DowngradesReady
    <2>2. status'[b].name = "StandBy" /\ \A c \in Containers \ {b} : status'[c] = status[c]
      BY <1>2, <2>1 DEF DowngradeWrite, Write, Plain, TypeInv, TypeOK, ContainerTypeOK
    <2>3. UNCHANGED <<late, dbResult, result, builder>>
      BY <1>2 DEF DowngradeWrite, Visited, dbVars, loaded, workerVars
    <2> QED
      BY <2>1, <2>2, <2>3 DEF RecordInv, ServedIsRecorded, BuildRecorded, Is, Apps
  <1>3. CASE EnqueueWrite /\ UNCHANGED workerVars
    <2>1. \A c \in Containers : status'[c] = status[c] \/ Is(c, "Queued")'
      BY <1>3 DEF EnqueueWrite, Write, Queued, Is, TypeInv, TypeOK, ContainerTypeOK
    <2>2. UNCHANGED <<late, dbResult, result, builder>>
      BY <1>3 DEF EnqueueWrite, Visited, dbVars, loaded, workerVars
    <2> QED
      BY <2>1, <2>2 DEF RecordInv, ServedIsRecorded, BuildRecorded, Is, Apps
  <1>4. CASE UNCHANGED <<status, late, dbResult, result, builder>>
    BY <1>4 DEF RecordInv, ServedIsRecorded, BuildRecorded, Is
  <1> QED
    BY <1>1, <1>2, <1>3, <1>4
       DEF Syncs, SyncStep, EnqueueRead, DowngradeRead, TurnToDowngrades, Visit, SyncWithDbUnlocks,
           TriggerWorkers, containerVars, dbVars, loaded, workerVars

(* A build records its result while its container is Building.               *)
LEMMA BuildRecords ==
    ASSUME MapConstants, TypeInv, LifeInv, RecordInv, Builds
    PROVE  RecordInv'
  <1> DEFINE b == builder.c
  <1>0. /\ dbResult \in [Apps -> Results]
        /\ result \in [Containers -> Results]
        /\ status \in [Containers -> Statuses]
        /\ builder \in [pc : BuilderPCs, c : Containers \union {NoContainer}]
    BY DEF TypeInv, TypeOK, MapTypeOK, ContainerTypeOK
  <1>1. CASE BuilderLocks
    BY <1>1, BeginSyncRecords DEF BuilderLocks
  <1>2. CASE /\ UNCHANGED <<status, late, dbResult, result>>
             /\ builder'.pc \notin {"finishResult", "finishStatus", "failStatus"}
    BY <1>2 DEF RecordInv, ServedIsRecorded, BuildRecorded, Is
  <1>3. ASSUME NEW name \in {"Building", "StandBy", "Failed"}, NEW next, EndBuild(name, next),
               next \in {"build", "lock", "failResult"},
               name = "StandBy" => builder.pc = "finishStatus",
               name = "Failed" => builder.pc = "failStatus"
        PROVE  RecordInv'
    <2>1. \A c \in Containers : c # b => status'[c] = status[c]
      BY <1>0, <1>3 DEF EndBuild, Write
    <2>2. b \in Containers => status'[b].name = name
      BY <1>0, <1>3 DEF EndBuild, Write, Plain
    <2>3. UNCHANGED <<late, dbResult, result>> /\ builder'.pc = next
      BY <1>3 DEF EndBuild, BuilderGoto, mapVars, dbVars, loaded
    <2> QED
      BY <1>3, <2>1, <2>2, <2>3 DEF RecordInv, ServedIsRecorded, BuildRecorded, Is, Apps
  <1>4. ASSUME NEW r, NEW next, RecordResult(r, next),
               \/ builder.pc = "finishHook" /\ r = "Built" /\ next = "finishResult"
               \/ builder.pc = "failHook" /\ r = "Failed" /\ next = "failStatus"
        PROVE  RecordInv'
    <2>1. UNCHANGED <<status, late, result>> /\ builder' = [pc |-> next, c |-> b]
      BY <1>4 DEF RecordResult, BuilderGoto, containerVars, loaded
    <2>2. /\ \A c \in Apps : c # b => dbResult'[c] = dbResult[c]
          /\ b \in Apps => dbResult'[b] = r
      BY <1>0, <1>4 DEF RecordResult
    <2>3. b \notin late => Is(b, "Building")
      BY <1>4 DEF LifeInv, BuildIsExclusive
    <2> QED
      BY <1>4, <2>1, <2>2, <2>3 DEF RecordInv, ServedIsRecorded, BuildRecorded, Is
  <1>5. ASSUME NEW r, NEW next, KeepResult(r, next),
               \/ builder.pc = "finishResult" /\ r = "Built" /\ next = "finishStatus"
               \/ builder.pc = "failResult" /\ next = "lock"
        PROVE  RecordInv'
    <2>1. UNCHANGED <<status, late, dbResult>> /\ builder' = [pc |-> next, c |-> b]
      BY <1>5 DEF KeepResult, BuilderGoto, containerVars, dbVars
    <2>2. /\ \A c \in Containers : c # b => result'[c] = result[c]
          /\ b \in Containers => result'[b] = r
      BY <1>0, <1>5 DEF KeepResult
    <2>3. b \notin late => Is(b, "Building") \/ Is(b, "Failed")
      BY <1>5 DEF LifeInv, BuildIsExclusive
    <2> QED
      BY <1>5, <2>1, <2>2, <2>3 DEF RecordInv, ServedIsRecorded, BuildRecorded, Is, Apps
  <1>6. CASE BuilderRecv \/ SetupDb \/ BuildImage \/ BuildPanics \/ BuilderUnlocks \/ GetContainerToBuild
    BY <1>2, <1>6 DEF BuilderRecv, SetupDb, BuildImage, BuildPanics, BuilderUnlocks, GetContainerToBuild, Resting,
       BuilderGoto, containerVars, mapVars, dbVars, loaded
  <1>7. CASE MarkBuilding
    BY <1>3, <1>7 DEF MarkBuilding, EndBuild
  <1>8. CASE BuildSucceeds
    <2>1. CASE BuilderAt("finishHook") /\ RecordResult("Built", "finishResult")
      BY <1>4, <2>1 DEF BuilderAt
    <2>2. CASE BuilderAt("finishResult") /\ KeepResult("Built", "finishStatus")
      BY <1>5, <2>2 DEF BuilderAt
    <2>3. CASE BuilderAt("finishStatus") /\ EndBuild("StandBy", "lock")
      BY <1>3, <2>3 DEF BuilderAt
    <2> QED
      BY <1>8, <2>1, <2>2, <2>3 DEF BuildSucceeds
  <1>9. CASE BuildFails
    <2>1. CASE BuilderAt("failHook") /\ RecordResult("Failed", "failStatus")
      BY <1>4, <2>1 DEF BuilderAt
    <2>2. CASE BuilderAt("failStatus") /\ EndBuild("Failed", "failResult")
      BY <1>3, <2>2 DEF BuilderAt
    <2>3. CASE BuilderAt("failResult") /\ KeepResult("Failed", "lock")
      BY <1>5, <2>3 DEF BuilderAt
    <2> QED
      BY <1>9, <2>1, <2>2, <2>3 DEF BuildFails
  <1> QED
    BY <1>1, <1>6, <1>7, <1>8, <1>9 DEF Builds, BuildStep

(* A request only starts what stands by, or queues.                          *)
LEMMA RequestRecords ==
    ASSUME TypeInv, LifeInv, RecordInv, Requests
    PROVE  RecordInv'
  <1>1. PICK k \in Clients : ClientStep(k) \/ \E c \in Containers : Request(k, c)
    BY DEF Requests
  <1>2. UNCHANGED <<dbResult, result, builder>>
    BY DEF Requests, mapVars, dbVars, loaded, workerVars
  <1>3. CASE UNCHANGED <<status, late>>
    BY <1>2, <1>3 DEF RecordInv, ServedIsRecorded, BuildRecorded, Is
  <1>4. ASSUME NEW b \in Containers, b \notin late => status[b].name \in {"StandBy", "Starting"},
               UNCHANGED late,
               status'[b].name \in {"Starting", "Ready"},
               \A c \in Containers \ {b} : status'[c] = status[c]
        PROVE  RecordInv'
    BY <1>2, <1>4 DEF RecordInv, ServedIsRecorded, BuildRecorded, Is, Apps
  <1>5. CASE RequeueBuilt(k)
    <2>1. /\ \A c \in Containers : status'[c] = status[c] \/ Is(c, "Queued")'
          /\ late \subseteq late'
      BY <1>5 DEF RequeueBuilt, Write, Queued, Is, TypeInv, TypeOK, ContainerTypeOK
    <2> QED
      BY <1>2, <2>1 DEF RecordInv, ServedIsRecorded, BuildRecorded, Is, Apps
  <1>6. CASE ClaimStart(k)
    <2>1. client[k].c \in Containers
      BY <1>6 DEF ClaimStart, TypeInv, IdsKnown, At
    <2>4. UNCHANGED late
      BY <1>6 DEF ClaimStart
    <2>2. CASE UNCHANGED status
      BY <1>3, <2>2, <2>4
    <2>3. CASE Is(client[k].c, "StandBy") /\ Write(client[k].c, Plain("Starting"))
      BY <1>4, <2>1, <2>3, <2>4 DEF Write, Plain, Is, TypeInv, TypeOK, ContainerTypeOK
    <2> QED
      BY <1>6, <2>2, <2>3 DEF ClaimStart
  <1>7. CASE PublishReady(k)
    <2>1. client[k].c \in Containers
      BY <1>7 DEF PublishReady, TypeInv, IdsKnown, At
    <2>2. client[k].c \notin late => Is(client[k].c, "Starting")
      BY <1>7, <2>1 DEF PublishReady, LifeInv, StartIsExclusive, Owns, Owning, At
    <2> QED
      BY <1>4, <1>7, <2>1, <2>2 DEF PublishReady, Write, Ready, Is, TypeInv, TypeOK, ContainerTypeOK
  <1> QED
    BY <1>1, <1>3, <1>5, <1>6, <1>7
       DEF ClientStep, Request, Found, AccessReady, AccessClone, RefreshAccess, TriggerBuild,
           CreateContainer, RunContainer, IsOnline, AbandonStart, WaitReady, Done

(* Whatever can be started has a row that says it was built (hooks.rs:67-79  *)
(* before container/mod.rs:246), and what failed one that says so: at        *)
(* whatever step the process stops, the one that comes up next finds again   *)
(* what this one had, but for a container that a request queued late.        *)
THEOREM ServedAreRecorded == Spec => []ServedIsRecorded
  <1>1. Init => RecordInv
    BY DEF Init, ContainerInit, Resting, Plain, RecordInv, ServedIsRecorded, BuildRecorded, Is, Apps
  <1>2. OwnerInv /\ LifeInv /\ RecordInv /\ [Next]_vars => RecordInv'
    <2> SUFFICES ASSUME TypeInv, LifeInv, RecordInv, [Next]_vars
                 PROVE  RecordInv'
      BY DEF OwnerInv
    <2>1. CASE Restart
      BY <2>1 DEF Restart, Resting, Plain, RecordInv, ServedIsRecorded, BuildRecorded, Is, Apps
    <2>2. CASE Environment \/ Cleanings \/ UNCHANGED vars
      BY <2>2, OthersLeave DEF RecordInv, ServedIsRecorded, BuildRecorded, Is
    <2> QED
      BY <2>1, <2>2, SyncRecords, BuildRecords, RequestRecords, MapConstants DEF Next
  <1>3. RecordInv => ServedIsRecorded
    BY DEF RecordInv
  <1> QED
    BY <1>1, <1>2, <1>3, OwnerInvHolds, LifeInvHolds, PTL DEF Spec

-----------------------------------------------------------------------------
(* The life of a container, as LazyContainer has it, until it is queued late.*)

OwnersStay == \A k \in Clients : \A c \in Containers : Owns(k, c)' <=> Owns(k, c)

(* A start in progress has one owner, which OwnerOf gives.                   *)
LEMMA OwnerIs ==
    ASSUME StartIsExclusive, NEW c \in Containers \ late
    PROVE  /\ \A k \in Clients : Owns(k, c) => OwnerOf(c) = k
           /\ (\A k \in Clients : ~Owns(k, c)) => OwnerOf(c) = "nobody"
  <1>1. ASSUME NEW k \in Clients, Owns(k, c)
        PROVE  OwnerOf(c) = k
    <2>1. OwnerOf(c) = CHOOSE j \in Clients : Owns(j, c)
      BY <1>1 DEF OwnerOf
    <2>2. OwnerOf(c) \in Clients /\ Owns(OwnerOf(c), c)
      BY <1>1, <2>1
    <2> QED
      BY <1>1, <2>2 DEF StartIsExclusive
  <1>2. (\A k \in Clients : ~Owns(k, c)) => OwnerOf(c) = "nobody"
    BY DEF OwnerOf
  <1> QED
    BY <1>1, <1>2

(* The same of the next state.                                               *)
LEMMA OwnerWillBe ==
    ASSUME StartIsExclusive', NEW c \in Containers \ late'
    PROVE  /\ \A k \in Clients : Owns(k, c)' => OwnerOf(c)' = k
           /\ (\A k \in Clients : ~Owns(k, c)') => OwnerOf(c)' = "nobody"
  <1>1. ASSUME NEW k \in Clients, Owns(k, c)'
        PROVE  OwnerOf(c)' = k
    <2>1. OwnerOf(c)' = CHOOSE j \in Clients : Owns(j, c)'
      BY <1>1 DEF OwnerOf
    <2>2. OwnerOf(c)' \in Clients /\ (client'[OwnerOf(c)'].pc \in Owning /\ client'[OwnerOf(c)'].c = c)
      BY <1>1, <2>1 DEF Owns
    <2> QED
      BY <1>1, <2>2 DEF StartIsExclusive, Owns
  <1>2. (\A k \in Clients : ~Owns(k, c)') => OwnerOf(c)' = "nobody"
    BY DEF OwnerOf
  <1> QED
    BY <1>1, <1>2

(* While the same requests own the starts, OwnerOf is the same.              *)
LEMMA OwnersKept ==
    ASSUME StartIsExclusive, StartIsExclusive',
           NEW c \in Containers, (c \in late') <=> (c \in late),
           c \notin late => \A k \in Clients : Owns(k, c)' <=> Owns(k, c)
    PROVE  OwnerOf(c)' = OwnerOf(c)
  <1>1. CASE c \notin late /\ \E k \in Clients : Owns(k, c)
    BY <1>1, OwnerIs, OwnerWillBe
  <1>2. CASE c \notin late /\ \A k \in Clients : ~Owns(k, c)
    BY <1>2, OwnerIs, OwnerWillBe
  <1>3. CASE c \in late
    BY <1>3 DEF OwnerOf
  <1> QED
    BY <1>1, <1>2, <1>3

(* A step that writes no status and leaves the owners is a stutter.          *)
LEMMA LifeStutters ==
    ASSUME StartIsExclusive, StartIsExclusive', OwnersStay, UNCHANGED <<status, late>>
    PROVE  UNCHANGED Life!vars
  <1>1. \A c \in Containers : OwnerOf(c)' = OwnerOf(c)
    BY OwnersKept DEF OwnersStay
  <1>2. \A c \in Containers : StageOf(c)' = StageOf(c)
    BY DEF StageOf
  <1> QED
    BY <1>1, <1>2 DEF Life!vars

(* So is whatever becomes of a container that was queued late.               *)
LEMMA LateStutters ==
    ASSUME StartIsExclusive, StartIsExclusive', NEW b \in late, UNCHANGED late,
           \A c \in Containers \ {b} :
              /\ status'[c] = status[c]
              /\ \A k \in Clients : Owns(k, c)' <=> Owns(k, c)
    PROVE  UNCHANGED Life!vars
  <1>1. \A c \in Containers : OwnerOf(c)' = OwnerOf(c)
    BY OwnersKept
  <1>2. \A c \in Containers : StageOf(c)' = StageOf(c)
    BY DEF StageOf
  <1> QED
    BY <1>1, <1>2 DEF Life!vars

(* A write of its status by somebody who is no request, for one.             *)
LEMMA LateWriteStutters ==
    ASSUME TypeInv, StartIsExclusive, StartIsExclusive', NEW b \in late,
           NEW s, Write(b, s), UNCHANGED <<client, late>>
    PROVE  UNCHANGED Life!vars
  <1>1. \A c \in Containers \ {b} : status'[c] = status[c]
    BY DEF Write, TypeInv, TypeOK, ContainerTypeOK
  <1> QED
    BY <1>1, LateStutters DEF Owns

(* The write of one status is a move.                                        *)
LEMMA WriteMoves ==
    ASSUME TypeInv, NEW b \in Containers \ late, NEW s, Write(b, s), UNCHANGED late
    PROVE  Life!Move(b, status[b].name, s.name)
  <1>1. status' = [status EXCEPT ![b] = s] /\ status \in [Containers -> Statuses]
    BY DEF Write, TypeInv, TypeOK, ContainerTypeOK
  <1>2. \A c \in Containers : status'[c] = IF c = b THEN s ELSE status[c]
    BY <1>1
  <1>3. \A c \in Containers : StageOf(c)' = IF c = b THEN s.name ELSE StageOf(c)
    BY <1>2 DEF StageOf
  <1>4. StageOf(b) = status[b].name
    BY DEF StageOf
  <1> QED
    BY <1>3, <1>4 DEF Life!Move

(* A write by somebody who is no request.                                    *)
LEMMA OwnersIgnoreWrites ==
    ASSUME StartIsExclusive, StartIsExclusive', UNCHANGED <<client, late>>
    PROVE  UNCHANGED [c \in Containers |-> OwnerOf(c)]
  <1>1. \A c \in Containers : OwnerOf(c)' = OwnerOf(c)
    BY OwnersKept DEF Owns
  <1> QED
    BY <1>1

(* A request takes or leaves the start of its container.                     *)
LEMMA OwnerMoves ==
    ASSUME StartIsExclusive, StartIsExclusive', NEW b \in Containers,
           \A c \in Containers \ {b} :
              /\ (c \in late') <=> (c \in late)
              /\ \A k \in Clients : Owns(k, c)' <=> Owns(k, c)
    PROVE  [c \in Containers |-> OwnerOf(c)]' =
               [[c \in Containers |-> OwnerOf(c)] EXCEPT ![b] = OwnerOf(b)']
  <1>1. \A c \in Containers \ {b} : OwnerOf(c)' = OwnerOf(c)
    BY OwnersKept
  <1> QED
    BY <1>1

(* A container that was Built is enqueued; one that was Queued already stays *)
(* as it is, seen from outside.                                              *)
LEMMA QueueLives ==
    ASSUME TypeInv, StartIsExclusive, StartIsExclusive', OwnersStay,
           NEW b \in Containers \ late, Unbuilt(b), NEW t, Write(b, Queued(t)), UNCHANGED late
    PROVE  Life!Next \/ UNCHANGED Life!vars
  <1>1. \A c \in Containers : OwnerOf(c)' = OwnerOf(c)
    BY OwnersKept DEF OwnersStay
  <1>2. UNCHANGED [c \in Containers |-> OwnerOf(c)]
    BY <1>1
  <1>3. CASE Is(b, "Built")
    <2>1. Life!Move(b, status[b].name, Queued(t).name)
      BY WriteMoves
    <2>2. Life!Enqueue(b)
      BY <1>2, <1>3, <2>1 DEF Life!Enqueue, Queued, Is
    <2> QED
      BY <2>2 DEF Life!Next
  <1>4. CASE Is(b, "Queued")
    <2>1. \A c \in Containers : StageOf(c)' = StageOf(c)
      BY <1>4 DEF StageOf, Write, Queued, Is, TypeInv, TypeOK, ContainerTypeOK
    <2> QED
      BY <1>2, <2>1 DEF Life!vars
  <1> QED
    BY <1>3, <1>4 DEF Unbuilt

(* A sync loads containers that were in no state yet.                        *)
LEMMA BeginSyncLoads ==
    ASSUME ContainerConstants, MapConstants, TypeInv, LoadedInv, LifeInv, LifeInv',
           NEW by \in Syncers \union {"builder"}, BeginSync(by)
    PROVE  Life!Next
  <1>1. \A c \in Containers :
            \/ status'[c] = status[c]
            \/ Is(c, "Absent") /\ status'[c].name \in {"Built", "Queued", "Failed", "StandBy"}
    BY SyncLoadsNew
  <1>4. UNCHANGED late
    BY DEF BeginSync
  <1>5. \A c \in Containers :
            \/ StageOf(c)' = StageOf(c)
            \/ StageOf(c) = "Absent" /\ StageOf(c)' \in {"Built", "Queued", "Failed", "StandBy"}
    BY <1>1, <1>4 DEF LoadedInv, StageOf, Is
  <1>2. UNCHANGED [c \in Containers |-> OwnerOf(c)]
    BY OwnersIgnoreWrites DEF LifeInv, BeginSync
  <1>3. Life!Load
    BY <1>2, <1>5 DEF Life!Load, Life!Loaded
  <1> QED
    BY <1>3 DEF Life!Next

(* The rest of a sync queues what was built, and downgrades what is ready.   *)
LEMMA SyncsLive ==
    ASSUME ContainerConstants, MapConstants, TypeInv, LoadedInv, LifeInv, LifeInv', Syncs
    PROVE  Life!Next \/ UNCHANGED Life!vars
  <1>1. ASSUME NEW s \in Syncers, SyncWithDb(s)
        PROVE  Life!Next
    BY <1>1, BeginSyncLoads DEF SyncWithDb
  <1>6. ASSUME NEW b \in late, NEW s, Write(b, s), UNCHANGED <<client, late>>
        PROVE  UNCHANGED Life!vars
    BY <1>6, LateWriteStutters DEF LifeInv
  <1>2. CASE DowngradeWrite
    <2>1. PICK b \in Containers : b = sync.c /\ (b \notin late => Is(b, "Ready"))
      BY <1>2 DEF DowngradeWrite, LifeInv, DowngradesReady
    <2>2. Write(b, Plain("StandBy")) /\ UNCHANGED <<client, late>>
      BY <1>2, <2>1 DEF DowngradeWrite, Visited
    <2>0. CASE b \in late
      BY <1>6, <2>0, <2>2
    <2> SUFFICES ASSUME b \notin late
                 PROVE  Life!Next \/ UNCHANGED Life!vars
      BY <2>0
    <2>3. Life!Move(b, status[b].name, Plain("StandBy").name)
      BY <2>2, WriteMoves
    <2>4. UNCHANGED [c \in Containers |-> OwnerOf(c)]
      BY <2>2, OwnersIgnoreWrites DEF LifeInv
    <2>5. Life!Downgrade(b)
      BY <2>1, <2>3, <2>4 DEF Life!Downgrade, Plain, Is
    <2> QED
      BY <2>5 DEF Life!Next
  <1>3. CASE EnqueueWrite
    <2>1. PICK b \in Containers : b = sync.c /\ (b \notin late => Unbuilt(b))
      BY <1>3 DEF EnqueueWrite, LifeInv, QueuesUnbuilt
    <2>2. Write(b, Queued(0)) /\ UNCHANGED <<client, late>>
      BY <1>3, <2>1 DEF EnqueueWrite, Visited
    <2>0. CASE b \in late
      BY <1>6, <2>0, <2>2
    <2> SUFFICES ASSUME b \notin late
                 PROVE  Life!Next \/ UNCHANGED Life!vars
      BY <2>0
    <2>3. OwnersStay
      BY <2>2 DEF OwnersStay, Owns
    <2> QED
      BY <2>1, <2>2, <2>3, QueueLives DEF LifeInv
  <1>4. CASE UNCHANGED <<status, client, late>>
    BY <1>4, LifeStutters DEF LifeInv, OwnersStay, Owns
  <1> QED
    BY <1>1, <1>2, <1>3, <1>4
       DEF Syncs, SyncStep, EnqueueRead, DowngradeRead, TurnToDowngrades, Visit, SyncWithDbUnlocks,
           TriggerWorkers, containerVars

(* A build goes from Queued by Building to its end.                          *)
LEMMA BuildsLive ==
    ASSUME ContainerConstants, MapConstants, TypeInv, LoadedInv, LifeInv, LifeInv', Builds
    PROVE  Life!Next \/ UNCHANGED Life!vars
  <1>1. CASE BuilderLocks
    BY <1>1, BeginSyncLoads DEF BuilderLocks
  <1>2. ASSUME NEW name \in {"Building", "StandBy", "Failed"}, NEW next, EndBuild(name, next),
               IF name = "Building" THEN builder.pc = "mark"
                                    ELSE builder.pc \in {"finishStatus", "failStatus"}
        PROVE  Life!Next \/ UNCHANGED Life!vars
    <2>1. builder.c \in Containers
      BY <1>2 DEF LifeInv, BuilderIsLoaded, BuilderAway, BuilderAt
    <2>2. PICK b \in Containers : b = builder.c
      BY <2>1
    <2>7. UNCHANGED <<client, late>> /\ Write(b, Plain(name))
      BY <1>2, <2>2 DEF EndBuild
    <2>0. CASE b \in late
      BY <2>0, <2>7, LateWriteStutters DEF LifeInv
    <2> SUFFICES ASSUME b \notin late
                 PROVE  Life!Next
      BY <2>0
    <2>3. Is(b, IF name = "Building" THEN "Queued" ELSE "Building")
      BY <1>2, <2>2 DEF LifeInv, BuildIsExclusive
    <2>4. Life!Move(b, status[b].name, Plain(name).name)
      BY <2>7, WriteMoves
    <2>5. UNCHANGED [c \in Containers |-> OwnerOf(c)]
      BY <2>7, OwnersIgnoreWrites DEF LifeInv
    <2>6. Life!Build(b) \/ Life!Succeed(b) \/ Life!Fail(b)
      BY <2>3, <2>4, <2>5 DEF Life!Build, Life!Succeed, Life!Fail, Plain, Is
    <2> QED
      BY <2>6 DEF Life!Next
  <1>3. CASE UNCHANGED <<status, client, late>>
    BY <1>3, LifeStutters DEF LifeInv, OwnersStay, Owns
  <1>4. CASE MarkBuilding
    BY <1>2, <1>4 DEF MarkBuilding, EndBuild, BuilderAt
  <1>5. CASE BuildSucceeds \/ BuildFails
    <2>1. ASSUME NEW r, NEW next, RecordResult(r, next) \/ KeepResult(r, next)
          PROVE  UNCHANGED <<status, client, late>>
      BY <2>1 DEF RecordResult, KeepResult, containerVars
    <2> QED
      BY <1>2, <1>3, <1>5, <2>1 DEF BuildSucceeds, BuildFails, BuilderAt
  <1> QED
    BY <1>1, <1>3, <1>4, <1>5
       DEF Builds, BuildStep, BuilderRecv, SetupDb, BuildImage, BuildPanics, BuilderUnlocks,
           GetContainerToBuild, containerVars

(* A request claims a start, and as its owner publishes or abandons it; or it*)
(* queues what it found Built, which is the end of its life if it is late.   *)
LEMMA RequestsLive ==
    ASSUME ContainerConstants, FleetConstants, TypeInv, LoadedInv, LifeInv, LifeInv', Requests
    PROVE  Life!Next \/ UNCHANGED Life!vars
  <1>1. PICK k \in Clients : ClientStep(k) \/ \E c \in Containers : Request(k, c)
    BY DEF Requests
  <1>0. client \in [Clients -> [pc : ClientPCs, c : Containers \union {NoContainer},
                                id : Ids \union {NoId}]]
    BY DEF TypeInv, TypeOK, ContainerTypeOK
  <1>2. StartIsExclusive /\ StartIsExclusive'
    BY DEF LifeInv
  <1>3. \A j \in Clients, c \in Containers : j # k => (Owns(j, c)' <=> Owns(j, c))
    <2>1. \A j \in Clients \ {k} : client'[j] = client[j]
      BY <1>0, <1>1
         DEF ClientStep, Request, Found, AccessReady, AccessClone, RefreshAccess, RequeueBuilt,
             TriggerBuild, ClaimStart, CreateContainer, RunContainer, IsOnline, AbandonStart,
             PublishReady, WaitReady, Done, Hold, Goto, Leave
    <2> QED
      BY <2>1 DEF Owns
  <1>4. ASSUME UNCHANGED <<status, late>>, \A c \in Containers : Owns(k, c)' <=> Owns(k, c)
        PROVE  UNCHANGED Life!vars
    BY <1>2, <1>3, <1>4, LifeStutters DEF OwnersStay
  <1>5. ASSUME UNCHANGED <<status, late>>, client[k].pc \notin Owning, client'[k].pc \notin Owning
        PROVE  UNCHANGED Life!vars
    BY <1>4, <1>5 DEF Owns
  <1>6. ASSUME NEW b \in Containers,
               \A c \in Containers \ {b} :
                  /\ (c \in late') <=> (c \in late)
                  /\ Owns(k, c)' <=> Owns(k, c)
        PROVE  [c \in Containers |-> OwnerOf(c)]' =
                   [[c \in Containers |-> OwnerOf(c)] EXCEPT ![b] = OwnerOf(b)']
    <2>1. \A c \in Containers \ {b} : \A j \in Clients : Owns(j, c)' <=> Owns(j, c)
      BY <1>3, <1>6
    <2> QED
      BY <1>2, <1>6, <2>1, OwnerMoves
  <1>14. ASSUME NEW b \in late, b = client[k].c, UNCHANGED late,
                \A c \in Containers \ {b} : status'[c] = status[c],
                client'[k].c \in {b, NoContainer}
         PROVE  UNCHANGED Life!vars
    <2>1. \A c \in Containers \ {b} : ~Owns(k, c) /\ ~Owns(k, c)'
      BY <1>14, ContainerConstants DEF Owns, ContainerConstants
    <2>2. \A c \in Containers \ {b} : \A j \in Clients : Owns(j, c)' <=> Owns(j, c)
      BY <1>3, <2>1
    <2> QED
      BY <1>2, <1>14, <2>2, LateStutters
  <1>7. CASE ClaimStart(k) /\ Is(client[k].c, "StandBy")
    <2>1. PICK b \in Containers : b = client[k].c
      BY <1>7 DEF ClaimStart, TypeInv, IdsKnown, At
    <2>0. UNCHANGED late /\ (b \in late => UNCHANGED Life!vars)
      <3>1. UNCHANGED late /\ Write(b, Plain("Starting")) /\ Goto(k, "create")
        BY <1>7, <2>1 DEF ClaimStart, Is
      <3>2. \A c \in Containers \ {b} : status'[c] = status[c]
        BY <3>1 DEF Write, TypeInv, TypeOK, ContainerTypeOK
      <3>3. client'[k].c = b
        BY <1>0, <2>1, <3>1 DEF Goto, Hold
      <3> QED
        BY <1>14, <2>1, <3>1, <3>2, <3>3
    <2> SUFFICES ASSUME b \notin late
                 PROVE  Life!Next \/ UNCHANGED Life!vars
      BY <2>0
    <2>2. Write(b, Plain("Starting")) /\ Goto(k, "create") /\ At(k, "start")
      BY <1>7, <2>1 DEF ClaimStart, Is
    <2>3. Owns(k, b)' /\ \A c \in Containers \ {b} : Owns(k, c)' <=> Owns(k, c)
      BY <1>0, <2>1, <2>2 DEF Goto, Hold, Owns, Owning, At
    <2>4. OwnerOf(b) = "nobody" /\ OwnerOf(b)' = k
      <3>1. \A j \in Clients : ~Owns(j, b)
        BY <1>2, <1>7, <2>1 DEF StartIsExclusive, Is
      <3> QED
        BY <1>2, <2>0, <2>1, <2>3, <3>1, OwnerIs, OwnerWillBe
    <2>5. Life!Move(b, "StandBy", "Starting")
      <3>1. Life!Move(b, status[b].name, Plain("Starting").name)
        BY <2>0, <2>1, <2>2, WriteMoves
      <3> QED
        BY <1>7, <2>1, <3>1 DEF Is, Plain
    <2>6. [c \in Containers |-> OwnerOf(c)]' = [[c \in Containers |-> OwnerOf(c)] EXCEPT ![b] = k]
      BY <1>6, <2>0, <2>1, <2>3, <2>4
    <2>7. Life!Claim(b, k)
      BY <2>1, <2>4, <2>5, <2>6 DEF Life!Claim
    <2> QED
      BY <2>1, <2>7 DEF Life!Next
  <1>8. CASE AbandonStart(k) \/ PublishReady(k)
    <2>1. PICK b \in Containers : b = client[k].c /\ Owns(k, b)
      BY <1>8 DEF AbandonStart, PublishReady, TypeInv, IdsKnown, At, Owns, Owning
    <2>2. client'[k].pc \notin Owning /\ client'[k].c \in {b, NoContainer} /\ UNCHANGED late
      BY <1>0, <1>8, <2>1 DEF AbandonStart, PublishReady, Leave, Goto, Hold, AtRest, Owning
    <2>0. CASE b \in late
      <3>1. \A c \in Containers \ {b} : status'[c] = status[c]
        BY <1>8, <2>1 DEF AbandonStart, PublishReady, Write, TypeInv, TypeOK, ContainerTypeOK
      <3> QED
        BY <1>14, <2>0, <2>1, <2>2, <3>1
    <2> SUFFICES ASSUME b \notin late
                 PROVE  Life!Next \/ UNCHANGED Life!vars
      BY <2>0
    <2>3. Is(b, "Starting") /\ OwnerOf(b) = k
      BY <1>2, <2>1, OwnerIs DEF StartIsExclusive
    <2>4. \A j \in Clients : ~Owns(j, b)'
      <3>1. \A j \in Clients \ {k} : ~Owns(j, b)
        BY <1>2, <2>1 DEF StartIsExclusive
      <3>2. ~Owns(k, b)'
        BY <2>2 DEF Owns
      <3> QED
        BY <1>3, <2>1, <3>1, <3>2
    <2>5. OwnerOf(b)' = "nobody"
      BY <1>2, <2>1, <2>2, <2>4, OwnerWillBe
    <2>6. \A c \in Containers \ {b} : Owns(k, c)' <=> Owns(k, c)
      BY <2>1, <2>2 DEF Owns
    <2>7. [c \in Containers |-> OwnerOf(c)]' =
              [[c \in Containers |-> OwnerOf(c)] EXCEPT ![b] = "nobody"]
      BY <1>6, <2>1, <2>2, <2>5, <2>6
    <2>8. CASE AbandonStart(k)
      <3>1. UNCHANGED status
        BY <2>8 DEF AbandonStart
      <3>2. Life!Abandon(b)
        BY <2>1, <2>2, <2>3, <2>7, <3>1, FleetConstants DEF Life!Abandon, FleetConstants, StageOf, Is
      <3> QED
        BY <2>1, <3>2 DEF Life!Next
    <2>9. CASE PublishReady(k)
      <3>1. PICK d : Write(b, Ready(d))
        BY <2>1, <2>9 DEF PublishReady
      <3>2. Life!Move(b, status[b].name, Ready(d).name)
        BY <2>1, <2>2, <3>1, WriteMoves
      <3>3. Life!Publish(b)
        BY <2>1, <2>3, <2>7, <3>2, FleetConstants DEF Life!Publish, FleetConstants, Is, Ready
      <3> QED
        BY <2>1, <3>3 DEF Life!Next
    <2> QED
      BY <1>8, <2>8, <2>9
  <1>9. CASE CreateContainer(k) \/ RunContainer(k) \/ IsOnline(k)
    <2>1. UNCHANGED <<status, late>>
      BY <1>9 DEF CreateContainer, RunContainer, IsOnline
    <2>2. client[k].pc \in Owning /\ client'[k].pc \in Owning /\ client'[k].c = client[k].c
      BY <1>0, <1>9 DEF CreateContainer, RunContainer, IsOnline, Goto, Hold, At, Owning
    <2> QED
      BY <1>4, <2>1, <2>2 DEF Owns
  <1>10. CASE RequeueBuilt(k)
    <2>1. client[k].pc = "requeue" /\ client'[k].pc = "trigger" /\ client'[k].c = client[k].c
      BY <1>0, <1>10 DEF RequeueBuilt, Goto, Hold, At
    <2>2. PICK b \in Containers : b = client[k].c /\ ~Is(b, "Absent")
      BY <2>1 DEF LoadedInv, At, TypeInv, IdsKnown
    <2>3. PICK t : Write(b, Queued(t))
      BY <1>10, <2>2 DEF RequeueBuilt
    <2>4. OwnersStay
      BY <1>3, <2>1 DEF OwnersStay, Owns, Owning
    <2>5. late' = IF Unbuilt(b) THEN late ELSE late \union {b}
      BY <1>10, <2>2 DEF RequeueBuilt
    <2>6. CASE b \in late
      <3>1. \A c \in Containers \ {b} : status'[c] = status[c]
        BY <2>3 DEF Write, TypeInv, TypeOK, ContainerTypeOK
      <3> QED
        BY <1>14, <2>1, <2>2, <2>5, <2>6, <3>1
    <2>7. CASE b \notin late /\ Unbuilt(b)
      BY <1>2, <2>2, <2>3, <2>4, <2>5, <2>7, QueueLives
    <2>8. CASE b \notin late /\ ~Unbuilt(b)
      <3>1. \A c \in Containers \ {b} : StageOf(c)' = StageOf(c)
        BY <2>3, <2>5, <2>8 DEF StageOf, Write, TypeInv, TypeOK, ContainerTypeOK
      <3>2. StageOf(b)' = "Requeued" /\ OwnerOf(b)' = "nobody"
        BY <2>5, <2>8 DEF StageOf, OwnerOf
      <3>3. StageOf(b) \in {"Building", "Failed", "StandBy", "Starting", "Ready"}
        BY <2>2, <2>8 DEF StageOf, Unbuilt, Is, TypeInv, TypeOK, ContainerTypeOK, Statuses,
                          StatusNames
      <3>4. [c \in Containers |-> OwnerOf(c)]' =
                [[c \in Containers |-> OwnerOf(c)] EXCEPT ![b] = "nobody"]
        BY <1>6, <2>2, <2>4, <2>5, <2>8, <3>2 DEF OwnersStay
      <3>5. [c \in Containers |-> StageOf(c)]' =
                [[c \in Containers |-> StageOf(c)] EXCEPT ![b] = "Requeued"]
        BY <3>1, <3>2
      <3>6. Life!Requeue(b)
        BY <2>2, <3>3, <3>4, <3>5 DEF Life!Requeue
      <3> QED
        BY <2>2, <3>6 DEF Life!Next
    <2> QED
      BY <2>6, <2>7, <2>8
  <1>11. CASE ClaimStart(k) /\ ~Is(client[k].c, "StandBy")
    <2>1. UNCHANGED <<status, late>> /\ At(k, "start") /\ client'[k].pc \in {"wait", "using", "idle"}
      BY <1>0, <1>11 DEF ClaimStart, Goto, Hold, Leave, AtRest
    <2> QED
      BY <1>5, <2>1 DEF At, Owning
  <1>12. ASSUME NEW c \in Containers, Request(k, c)
         PROVE  UNCHANGED Life!vars
    <2>1. UNCHANGED <<status, late>> /\ At(k, "idle") /\ client'[k].pc = "found"
      BY <1>0, <1>12 DEF Request, Found
    <2> QED
      BY <1>5, <2>1 DEF At, Owning
  <1>13. CASE \/ AccessReady(k) \/ AccessClone(k) \/ RefreshAccess(k) \/ TriggerBuild(k)
              \/ WaitReady(k) \/ Done(k)
    <2>1. UNCHANGED <<status, late>> /\ client[k].pc \in {"found", "reread", "refresh", "trigger", "wait", "using"}
      BY <1>13 DEF AccessReady, AccessClone, RefreshAccess, TriggerBuild, WaitReady, Done, At
    <2>2. client'[k].pc \in {"using", "reread", "refresh", "start", "requeue", "idle"}
      BY <1>0, <1>13 DEF AccessReady, AccessClone, RefreshAccess, TriggerBuild, WaitReady, Done,
                         Goto, Hold, Leave, AtRest
    <2> QED
      BY <1>5, <2>1, <2>2 DEF Owning
  <1> QED
    BY <1>1, <1>7, <1>8, <1>9, <1>10, <1>11, <1>12, <1>13 DEF ClientStep

(* Fleet implements LazyContainer: every write of a status, unconditional as *)
(* it is in the code, happens in the state it is meant for, and a start has  *)
(* one owner, but for the write of a request that queues a container late,   *)
(* which ends the life that LazyContainer speaks of.                         *)
THEOREM LivesAreRespected == Spec => LifeIsRespected
  <1>1. Init => Life!Init
    <2> SUFFICES ASSUME Init PROVE Life!Init
      OBVIOUS
    <2>1. \A c \in Containers : StageOf(c) = "Absent"
      BY DEF Init, ContainerInit, Plain, StageOf
    <2>2. \A c \in Containers : OwnerOf(c) = "nobody"
      BY DEF Init, ContainerInit, AtRest, OwnerOf, Owns, Owning
    <2> QED
      BY <2>1, <2>2 DEF Life!Init
  <1>2. TypeInv /\ LoadedInv /\ LifeInv /\ LifeInv' /\ [Next]_vars => [Life!Next]_(Life!vars)
    <2> SUFFICES ASSUME TypeInv, LoadedInv, LifeInv, LifeInv', [Next]_vars
                 PROVE  Life!Next \/ UNCHANGED Life!vars
      OBVIOUS
    <2>1. CASE Restart
      <3>1. \A c \in Containers : StageOf(c)' = "Absent"
        BY <2>1 DEF Restart, Plain, StageOf
      <3>2. \A c \in Containers : OwnerOf(c)' = "nobody"
        BY <2>1 DEF Restart, AtRest, OwnerOf, Owns, Owning
      <3>3. Life!Restart
        BY <3>1, <3>2 DEF Life!Restart
      <3> QED
        BY <3>3 DEF Life!Next
    <2>2. CASE Environment \/ Cleanings \/ UNCHANGED vars
      <3>1. UNCHANGED <<status, client, late>>
        BY <2>2, OthersLeave
      <3> QED
        BY <3>1, LifeStutters DEF LifeInv, OwnersStay, Owns
    <2>3. CASE Requests
      BY <2>3, RequestsLive, ContainerConstants, FleetConstants
    <2>4. CASE Syncs \/ Builds
      BY <2>4, SyncsLive, BuildsLive, ContainerConstants, MapConstants
    <2> QED
      BY <2>1, <2>2, <2>3, <2>4 DEF Next
  <1>3. OwnerInv => TypeInv
    BY DEF OwnerInv
  <1> QED
    BY <1>1, <1>2, <1>3, OwnerInvHolds, LoadedInvHolds, LifeInvHolds, PTL
       DEF Spec, LifeIsRespected, Life!Spec

-----------------------------------------------------------------------------
(* Requests are never late in a first life.                                  *)

(* No row says Built when the process comes up, and it comes up once.        *)
FirstLife == "Built" \notin InitialResults /\ MaxRestarts = 0

(* So no container that is still to be loaded was built, and the status      *)
(* Built, which the loading alone gives (deployments/deployment.rs), is      *)
(* nowhere to be found.                                                      *)
NeverRequeued ==
    /\ \A c \in Containers : ~Is(c, "Built")
    /\ \A k \in Clients : ~At(k, "requeue")
    /\ sync.phase # "enqueueWrite"
    /\ \A c \in Apps : New(c) => dbResult[c] # "Built"

(* What a sync loads was never built.                                        *)
LEMMA BeginSyncNeverRequeues ==
    ASSUME ContainerConstants, MapConstants, TypeInv, LifeInv, NeverRequeued,
           NEW by \in Syncers \union {"builder"}, BeginSync(by)
    PROVE  NeverRequeued'
  <1>1. UNCHANGED <<client, dbResult>> /\ sync'.phase = "enqueue"
    BY DEF BeginSync, dbVars
  <1>2. \A c \in Containers : ~Is(c, "Built")'
    BY SyncLoadsNew DEF NeverRequeued, Is
  <1>3. \A c \in Containers : New(c)' => New(c)
    BY SyncLoadsNew
  <1> QED
    BY <1>1, <1>2, <1>3 DEF NeverRequeued, At, Apps

(* A build writes other statuses, and records its result of a container that *)
(* was loaded.                                                               *)
LEMMA BuildNeverRequeues ==
    ASSUME ContainerConstants, MapConstants, TypeInv, LifeInv, NeverRequeued, Builds
    PROVE  NeverRequeued'
  <1>1. CASE BuilderLocks
    BY <1>1, BeginSyncNeverRequeues DEF BuilderLocks
  <1>2. ASSUME UNCHANGED <<client, rows, inMap, dbResult>>,
               \A c \in Containers : status'[c] = status[c] \/ ~Is(c, "Built")',
               sync' = sync \/ sync'.phase = "free"
        PROVE  NeverRequeued'
    BY <1>2 DEF NeverRequeued, New, Is, At
  <1>3. ASSUME NEW name \in {"Building", "StandBy", "Failed"}, NEW next, EndBuild(name, next)
        PROVE  NeverRequeued'
    <2>1. \A c \in Containers : status'[c] = status[c] \/ ~Is(c, "Built")'
      BY <1>3 DEF EndBuild, Write, Plain, Is, TypeInv, TypeOK, ContainerTypeOK
    <2> QED
      BY <1>2, <1>3, <2>1 DEF EndBuild, mapVars, dbVars, loaded
  <1>4. ASSUME NEW r, NEW next, RecordResult(r, next), builder.pc \in {"finishHook", "failHook"}
        PROVE  NeverRequeued'
    <2>1. UNCHANGED <<status, client, sync, rows, inMap>>
      BY <1>4 DEF RecordResult, containerVars, loaded
    <2>2. ~New(builder.c)
      BY <1>4 DEF LifeInv, BuilderIsLoaded, BuilderAway, BuilderAt
    <2>3. \A c \in Apps : c # builder.c => dbResult'[c] = dbResult[c]
      BY <1>4 DEF RecordResult, TypeInv, TypeOK, MapTypeOK
    <2> QED
      BY <2>1, <2>2, <2>3 DEF NeverRequeued, New, Is, At
  <1>5. ASSUME NEW r, NEW next, KeepResult(r, next)
        PROVE  NeverRequeued'
    BY <1>2, <1>5 DEF KeepResult, containerVars, dbVars
  <1>6. CASE BuilderRecv \/ SetupDb \/ BuildImage \/ BuildPanics \/ GetContainerToBuild
    BY <1>2, <1>6
       DEF BuilderRecv, SetupDb, BuildImage, BuildPanics, GetContainerToBuild, containerVars, mapVars, dbVars, loaded
  <1>7. CASE BuilderUnlocks
    <2>1. UNCHANGED <<status, client, rows, inMap, dbResult>>
      BY <1>7 DEF BuilderUnlocks, containerVars, dbVars, loaded
    <2>2. sync'.phase = "free"
      BY <1>7 DEF BuilderUnlocks, NoSync
    <2> QED
      BY <1>2, <2>1, <2>2
  <1>8. CASE MarkBuilding
    BY <1>3, <1>8 DEF MarkBuilding, EndBuild
  <1>9. CASE BuildSucceeds \/ BuildFails
    BY <1>3, <1>4, <1>5, <1>9 DEF BuildSucceeds, BuildFails, BuilderAt
  <1> QED
    BY <1>1, <1>6, <1>7, <1>8, <1>9 DEF Builds, BuildStep

(* The rest of a sync has nothing to queue.                                  *)
LEMMA SyncNeverRequeues ==
    ASSUME ContainerConstants, MapConstants, TypeInv, LifeInv, NeverRequeued, Syncs
    PROVE  NeverRequeued'
  <1>1. ASSUME NEW s \in Syncers, SyncWithDb(s)
        PROVE  NeverRequeued'
    BY <1>1, BeginSyncNeverRequeues DEF SyncWithDb
  <1>2. ASSUME UNCHANGED <<client, rows, inMap, dbResult>>,
               \A c \in Containers : status'[c] = status[c] \/ ~Is(c, "Built")',
               sync' = sync \/ sync'.phase # "enqueueWrite"
        PROVE  NeverRequeued'
    BY <1>2 DEF NeverRequeued, New, Is, At
  <1>3. CASE DowngradeWrite
    <2>1. \A c \in Containers : status'[c] = status[c] \/ ~Is(c, "Built")'
      BY <1>3 DEF DowngradeWrite, Write, Plain, Is, TypeInv, TypeOK, ContainerTypeOK
    <2> QED
      BY <1>2, <1>3, <2>1 DEF DowngradeWrite, Visited, SyncGoto, dbVars, loaded
  <1>4. ASSUME NEW c \in Containers, EnqueueRead(c)
        PROVE  NeverRequeued'
    BY <1>2, <1>4 DEF EnqueueRead, Visit, SyncGoto, NeverRequeued, containerVars, dbVars, loaded
  <1>5. ASSUME NEW c \in Containers, DowngradeRead(c)
        PROVE  NeverRequeued'
    BY <1>2, <1>5 DEF DowngradeRead, Visit, SyncGoto, containerVars, dbVars, loaded
  <1>6. ~EnqueueWrite
    BY DEF EnqueueWrite, NeverRequeued
  <1>7. CASE TurnToDowngrades
    BY <1>2, <1>7 DEF TurnToDowngrades, SyncGoto, containerVars, dbVars, loaded
  <1>8. ASSUME NEW s \in Syncers, SyncWithDbUnlocks(s) \/ TriggerWorkers(s)
        PROVE  NeverRequeued'
    BY <1>2, <1>8 DEF SyncWithDbUnlocks, TriggerWorkers, NoSync, containerVars, dbVars, loaded
  <1> QED
    BY <1>1, <1>3, <1>4, <1>5, <1>6, <1>7, <1>8 DEF Syncs, SyncStep

(* A request that finds no container Built has none to queue.                *)
LEMMA RequestNeverRequeues ==
    ASSUME ContainerConstants, TypeInv, NeverRequeued, Requests
    PROVE  NeverRequeued'
  <1>1. PICK k \in Clients : ClientStep(k) \/ \E c \in Containers : Request(k, c)
    BY DEF Requests
  <1>2. UNCHANGED <<sync, rows, dbResult, inMap>>
    BY DEF Requests, mapVars, dbVars, loaded
  <1> USE DEF TypeInv, TypeOK, ContainerTypeOK, IdsKnown, At, Goto, Hold, Leave, AtRest, Is
  <1>3. ASSUME \A c \in Containers : status'[c] = status[c] \/ ~Is(c, "Built")',
               \A j \in Clients : client'[j] = client[j] \/ client'[j].pc # "requeue"
        PROVE  NeverRequeued'
    BY <1>2, <1>3 DEF NeverRequeued, New
  <1>4. ~RequeueBuilt(k)
    BY DEF RequeueBuilt, NeverRequeued
  <1>5. CASE AccessClone(k)
    <2>1. ~Is(client[k].c, "Built")
      BY <1>5 DEF AccessClone, NeverRequeued
    <2>2. UNCHANGED status
      BY <1>5 DEF AccessClone
    <2>3. \A j \in Clients : client'[j] = client[j] \/ client'[j].pc # "requeue"
      BY <1>5, <2>1 DEF AccessClone
    <2> QED
      BY <1>3, <2>2, <2>3
  <1>6. CASE ClaimStart(k) \/ PublishReady(k)
    <2>1. \A c \in Containers : status'[c] = status[c] \/ ~Is(c, "Built")'
      BY <1>6 DEF ClaimStart, PublishReady, Write, Plain, Ready
    <2>2. \A j \in Clients : client'[j] = client[j] \/ client'[j].pc # "requeue"
      BY <1>6 DEF ClaimStart, PublishReady
    <2> QED
      BY <1>3, <2>1, <2>2
  <1>7. CASE \/ AccessReady(k) \/ RefreshAccess(k) \/ TriggerBuild(k) \/ CreateContainer(k)
             \/ RunContainer(k) \/ IsOnline(k) \/ AbandonStart(k) \/ WaitReady(k) \/ Done(k)
             \/ \E c \in Containers : Request(k, c)
    <2>1. UNCHANGED status
      BY <1>7 DEF AccessReady, RefreshAccess, TriggerBuild, CreateContainer, RunContainer, IsOnline,
                  AbandonStart, WaitReady, Done, Request, Found
    <2>2. \A j \in Clients : client'[j] = client[j] \/ client'[j].pc # "requeue"
      BY <1>7 DEF AccessReady, RefreshAccess, TriggerBuild, CreateContainer, RunContainer, IsOnline,
                  AbandonStart, WaitReady, Done, Request, Found
    <2> QED
      BY <1>3, <2>1, <2>2
  <1> QED
    BY <1>1, <1>4, <1>5, <1>6, <1>7 DEF ClientStep

(* In a first life nothing is queued late, because nothing is queued.        *)
LEMMA NextNeverRequeues ==
    ASSUME FirstLife, OwnerInv, LifeInv, NeverRequeued, [Next]_vars
    PROVE  NeverRequeued' /\ UNCHANGED late
  <1>1. CASE UNCHANGED vars \/ Environment \/ Cleanings
    <2>1. UNCHANGED <<status, client, late, sync, dbResult>>
          /\ \A c \in Containers : New(c)' => New(c)
      BY <1>1, OthersLeave DEF OwnerInv
    <2> QED
      BY <2>1 DEF NeverRequeued, Is, At, Apps
  <1>2. ~Restart
    BY FleetConstants DEF Restart, FirstLife, OwnerInv, TypeInv, TypeOK, FleetConstants
  <1>3. CASE Requests
    <2>1. UNCHANGED late
      BY <1>3
         DEF NeverRequeued, Requests, ClientStep, Request, Found, AccessReady, AccessClone,
             RefreshAccess, RequeueBuilt, TriggerBuild, ClaimStart, CreateContainer, RunContainer,
             IsOnline, AbandonStart, PublishReady, WaitReady, Done
    <2> QED
      BY <1>3, <2>1, RequestNeverRequeues, ContainerConstants DEF OwnerInv
  <1>4. CASE Syncs
    <2>1. UNCHANGED late
      BY <1>4
         DEF Syncs, SyncStep, SyncWithDb, BeginSync, EnqueueRead, EnqueueWrite, TurnToDowngrades,
             DowngradeRead, DowngradeWrite, Visit, Visited, SyncWithDbUnlocks, TriggerWorkers,
             containerVars
    <2> QED
      BY <1>4, <2>1, SyncNeverRequeues, ContainerConstants, MapConstants DEF OwnerInv
  <1>5. CASE Builds
    <2>1. UNCHANGED late
      BY <1>5
         DEF Builds, BuildStep, BuilderRecv, GetContainerToBuild, SetupDb, MarkBuilding, BuildImage,
             BuildPanics, BuildSucceeds, BuildFails, RecordResult, KeepResult, EndBuild,
             BuilderLocks, BuilderUnlocks, BeginSync, containerVars
    <2> QED
      BY <1>5, <2>1, BuildNeverRequeues, ContainerConstants, MapConstants DEF OwnerInv
  <1> QED
    BY <1>1, <1>2, <1>3, <1>4, <1>5 DEF Next

(* In a first life no request queues a container late: the write of          *)
(* container/mod.rs:397 that is not guarded needs a row that was built       *)
(* before the process came up.  So there the theorems above hold of every    *)
(* container.                                                                *)
THEOREM FirstLifeIsNeverLate ==
    ASSUME FirstLife
    PROVE  Spec => [](late = {})
  <1>1. Init => NeverRequeued /\ late = {}
    <2> SUFFICES ASSUME Init PROVE NeverRequeued /\ late = {}
      OBVIOUS
    <2>1. \A c \in Apps : dbResult[c] # "Built"
      BY FirstLife DEF Init, MapInit, FirstLife
    <2> QED
      BY <2>1 DEF NeverRequeued, Init, ContainerInit, MapInit, Plain, AtRest, NoSync, Is, At
  <1>2. OwnerInv /\ LifeInv /\ NeverRequeued /\ late = {} /\ [Next]_vars
            => NeverRequeued' /\ (late = {})'
    BY NextNeverRequeues, FirstLife
  <1> QED
    BY <1>1, <1>2, OwnerInvHolds, LifeInvHolds, PTL DEF Spec
=============================================================================

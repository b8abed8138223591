------------------------------- MODULE Fleet -------------------------------
(* The whole of what shares the containers: the requests of Container, the   *)
(* sync of DeploymentMap, the build worker (workers/build.rs, running        *)
(* Container::build and the hooks of hooks.rs), the docker worker            *)
(* (workers/docker.rs) and a restart of the process.                         *)
EXTENDS DeploymentMap

CONSTANTS
    SetupMayFail,   \* whether setup_db may fail
    MaxRestarts     \* bound: how many times the process restarts

ASSUME FleetConstants ==
    /\ SetupMayFail \in BOOLEAN
    /\ MaxRestarts \in Nat
    /\ "nobody" \notin Clients      \* who owns a start nobody owns

VARIABLES
    builder,        \* the build worker and the container it is at
    cleaner,        \* the docker worker and the docker containers it listed
    restarts

vars == <<containerVars, mapVars, builder, cleaner, restarts>>

BuilderPCs == {"recv", "pick", "setup", "mark", "build", "finishHook",
               "finishResult", "finishStatus", "failHook", "failStatus",
               "failResult", "lock", "syncing", "dead"}

TypeOK ==
    /\ ContainerTypeOK
    /\ MapTypeOK
    /\ builder \in [pc : BuilderPCs, c : Containers \union {NoContainer}]
    /\ cleaner \in [pc : {"recv", "list", "check", "remove", "dead"},
                    todo : SUBSET Ids, id : Ids \union {NoId}]
    /\ restarts \in 0..MaxRestarts

Resting == [pc |-> "recv", c |-> NoContainer]
Cleaned == [pc |-> "recv", todo |-> {}, id |-> NoId]

Init ==
    /\ ContainerInit
    /\ MapInit
    /\ builder = Resting
    /\ cleaner = Cleaned
    /\ restarts = 0

-----------------------------------------------------------------------------
(* The build worker.                                                         *)

BuilderAt(pc) == builder.pc = pc
BuilderGoto(pc) == builder' = [pc |-> pc, c |-> builder.c]

BuilderRecv ==
    /\ BuilderAt("recv")
    /\ buildSignal
    /\ buildSignal' = FALSE
    /\ BuilderGoto("pick")
    /\ UNCHANGED <<status, idle, docker, client, late, mapVars, cleaner, restarts>>

(* The accessed container that waits longest, else any queued one.           *)
ToBuild ==
    LET queued   == {c \in inMap : Is(c, "Queued")}
        accessed == {c \in queued : status[c].at > 0}
    IN IF accessed # {}
       THEN {c \in accessed : \A e \in accessed : status[c].at <= status[e].at}
       ELSE queued

GetContainerToBuild ==
    /\ BuilderAt("pick")
    /\ MapReadable
    /\ \/ \E c \in ToBuild : builder' = [pc |-> "setup", c |-> c]
       \/ ToBuild = {} /\ builder' = Resting
    /\ UNCHANGED <<containerVars, mapVars, cleaner, restarts>>

(* Container::build.  A failure of setup_db returns before any status is     *)
(* written: the container stays Queued, and the worker goes on to its sync.  *)
SetupDb ==
    /\ BuilderAt("setup")
    /\ \/ BuilderGoto("mark")
       \/ SetupMayFail /\ BuilderGoto("lock")
    /\ UNCHANGED <<containerVars, mapVars, cleaner, restarts>>

BuildUnmarked ==            \* mutant: the status stays Queued during the build
    /\ BuilderAt("mark")
    /\ BuilderGoto("build")
    /\ UNCHANGED <<containerVars, mapVars, cleaner, restarts>>

MarkBuilding ==
    /\ BuilderAt("mark")
    /\ Write(builder.c, Plain("Building"))
    /\ BuilderGoto("build")
    /\ UNCHANGED <<idle, docker, client, buildSignal, late, mapVars, cleaner, restarts>>

BuildImage ==
    /\ BuilderAt("build")
    /\ BuilderGoto("finishHook") \/ BuilderGoto("failHook")
    /\ UNCHANGED <<containerVars, mapVars, cleaner, restarts>>

(* What GitHub answers when asked for the commit, and what the archive holds,*)
(* is unwrapped: a panic in there unwinds the task of the worker, for good,  *)
(* and leaves the status Building.                                           *)
BuildPanics ==
    /\ BuilderAt("build")
    /\ builder' = [pc |-> "dead", c |-> NoContainer]
    /\ UNCHANGED <<containerVars, mapVars, cleaner, restarts>>

(* on_build_finished, on_build_failed: the result column of the row.         *)
RecordResult(r, next) ==
    /\ dbResult' = [dbResult EXCEPT ![builder.c] = r]
    /\ BuilderGoto(next)
    /\ UNCHANGED <<containerVars, rows, loaded, sync, syncer, cleanSignal,
                   cleaner, restarts>>

KeepResult(r, next) ==
    /\ result' = [result EXCEPT ![builder.c] = r]
    /\ BuilderGoto(next)
    /\ UNCHANGED <<containerVars, dbVars, inMap, prod, sync, syncer, cleanSignal,
                   cleaner, restarts>>

EndBuild(name, next) ==
    /\ Write(builder.c, Plain(name))
    /\ BuilderGoto(next)
    /\ UNCHANGED <<idle, docker, client, buildSignal, late, mapVars, cleaner, restarts>>

StandByFirst ==             \* mutant: the status is written before the results
    \/ BuilderAt("finishHook") /\ EndBuild("StandBy", "finishResult")
    \/ BuilderAt("finishResult") /\ KeepResult("Built", "finishStatus")
    \/ BuilderAt("finishStatus") /\ RecordResult("Built", "lock")

BuildSucceeds ==
    \/ BuilderAt("finishHook") /\ RecordResult("Built", "finishResult")
    \/ BuilderAt("finishResult") /\ KeepResult("Built", "finishStatus")
    \/ BuilderAt("finishStatus") /\ EndBuild("StandBy", "lock")

BuildFails ==
    \/ BuilderAt("failHook") /\ RecordResult("Failed", "failStatus")
    \/ BuilderAt("failStatus") /\ EndBuild("Failed", "failResult")
    \/ BuilderAt("failResult") /\ KeepResult("Failed", "lock")

PickWithoutSync ==          \* mutant: on to the next build without a sync
    /\ BuilderAt("lock")
    /\ BuilderGoto("pick")
    /\ UNCHANGED <<containerVars, mapVars, cleaner, restarts>>

(* After every build a sync of its own: the build may change production.     *)
BuilderLocks ==
    /\ BuilderAt("lock")
    /\ BeginSync("builder")
    /\ builder' = [pc |-> "syncing", c |-> NoContainer]
    /\ UNCHANGED <<syncer, cleaner, restarts>>

BuildOneAndRest ==          \* mutant: one build per trigger
    /\ SyncOver
    /\ sync.by = "builder"
    /\ sync' = NoSync
    /\ builder' = Resting
    /\ UNCHANGED <<containerVars, dbVars, loaded, syncer, cleanSignal, cleaner, restarts>>

BuilderUnlocks ==
    /\ SyncOver
    /\ sync.by = "builder"
    /\ sync' = NoSync
    /\ BuilderGoto("pick")
    /\ UNCHANGED <<containerVars, dbVars, loaded, syncer, cleanSignal, cleaner, restarts>>

BuildStep ==
    \/ BuilderRecv \/ SetupDb \/ MarkBuilding \/ BuildImage \/ BuildPanics
    \/ BuildSucceeds \/ BuildFails \/ BuilderUnlocks

-----------------------------------------------------------------------------
(* The docker worker.                                                        *)

CleanerGoto(pc, todo, d) == cleaner' = [pc |-> pc, todo |-> todo, id |-> d]

CleanerRecv ==
    /\ cleaner.pc = "recv"
    /\ cleanSignal
    /\ cleanSignal' = FALSE
    /\ CleanerGoto("list", {}, NoId)
    /\ UNCHANGED <<containerVars, dbVars, loaded, sync, syncer, builder, restarts>>

ListRunning ==              \* mutant: docker lists running containers by default
    /\ cleaner.pc = "list"
    /\ CleanerGoto("check", {d \in Ids : docker[d] \in {"running", "online"}}, NoId)
    /\ UNCHANGED <<containerVars, mapVars, builder, restarts>>

(* list_managed_container_ids: every container, also one that is not running *)
ListContainers ==
    /\ cleaner.pc = "list"
    /\ CleanerGoto("check", {d \in Ids : docker[d] # "absent"}, NoId)
    /\ UNCHANGED <<containerVars, mapVars, builder, restarts>>

(* The unwrap of a failed listing kills the task of the worker for good.     *)
ListFails ==
    /\ DockerMayFail
    /\ cleaner.pc = "list"
    /\ CleanerGoto("dead", {}, NoId)
    /\ UNCHANGED <<containerVars, mapVars, builder, restarts>>

InUse(d) == \E c \in inMap : status[c].id = d

(* is_container_in_use only knows the ids of Ready statuses.                 *)
IsContainerInUse(d) ==
    /\ cleaner.pc = "check"
    /\ d \in cleaner.todo
    /\ MapReadable
    /\ IF InUse(d) THEN CleanerGoto("check", cleaner.todo \ {d}, NoId)
                   ELSE CleanerGoto("remove", cleaner.todo, d)
    /\ UNCHANGED <<containerVars, mapVars, builder, restarts>>

RemoveContainer ==
    /\ cleaner.pc = "remove"
    /\ docker' = [docker EXCEPT ![cleaner.id] = "absent"]
    /\ CleanerGoto("check", cleaner.todo \ {cleaner.id}, NoId)
    /\ UNCHANGED <<status, idle, client, buildSignal, late, mapVars, builder, restarts>>

(* The errors of stop_container and delete_container are ignored.            *)
RemoveFails ==
    /\ DockerMayFail
    /\ cleaner.pc = "remove"
    /\ CleanerGoto("check", cleaner.todo \ {cleaner.id}, NoId)
    /\ UNCHANGED <<containerVars, mapVars, builder, restarts>>

CleanerRests ==
    /\ cleaner.pc = "check"
    /\ cleaner.todo = {}
    /\ cleaner' = Cleaned
    /\ UNCHANGED <<containerVars, mapVars, builder, restarts>>

-----------------------------------------------------------------------------
(* The process stops at any point and comes back: every task and status is   *)
(* gone, the rows and the docker containers stay.                            *)
Restart ==
    /\ restarts < MaxRestarts
    /\ restarts' = restarts + 1
    /\ status' = [c \in Containers |-> Plain("Absent")]
    /\ idle' = {}
    /\ client' = [k \in Clients |-> AtRest]
    /\ buildSignal' = FALSE
    /\ late' = {}
    /\ result' = [c \in Containers |-> "None"]
    /\ inMap' = {}
    /\ prod' = {}
    /\ sync' = NoSync
    /\ syncer' = [s \in Syncers |-> "idle"]
    /\ cleanSignal' = FALSE
    /\ builder' = Resting
    /\ cleaner' = Cleaned
    /\ UNCHANGED <<docker, dbVars>>

-----------------------------------------------------------------------------
workerVars == <<builder, cleaner, restarts>>

(* get_container_by_hostname, under the read lock of the map.                *)
Request(k, c) == MapReadable /\ c \in inMap /\ Found(k, c)

Requests ==
    /\ \E k \in Clients : ClientStep(k) \/ \E c \in Containers : Request(k, c)
    /\ UNCHANGED <<mapVars, workerVars>>

Environment ==
    /\ \/ (\E c \in Containers : ThirtySecondsPass(c)) /\ UNCHANGED mapVars
       \/ (\E d \in Ids : DockerExits(d)) /\ UNCHANGED mapVars
       \/ \E c \in Apps : InsertRow(c) \/ DeleteRow(c)
    /\ UNCHANGED workerVars

Syncs ==
    /\ \/ SyncStep
       \/ \E s \in Syncers : SyncWithDb(s) \/ SyncWithDbUnlocks(s) \/ TriggerWorkers(s)
    /\ UNCHANGED workerVars

Builds == BuildStep \/ GetContainerToBuild \/ BuilderLocks

Cleanings ==
    \/ CleanerRecv \/ ListContainers \/ ListFails
    \/ RemoveContainer \/ RemoveFails \/ CleanerRests
    \/ \E d \in Ids : IsContainerInUse(d)

Next == Requests \/ Environment \/ Syncs \/ Builds \/ Cleanings \/ Restart

Spec == Init /\ [][Next]_vars

-----------------------------------------------------------------------------
(* Fairness.  tokio polls every task that is ready, so a task that is not    *)
(* waiting goes on (WF).  Its RwLock is fair: a task waiting for the map     *)
(* gets it however often others take it in between (SF).                     *)

SyncsEnd ==
    /\ WF_vars(SyncStep /\ UNCHANGED workerVars)
    /\ WF_vars((\E s \in Syncers : SyncWithDbUnlocks(s)) /\ UNCHANGED workerVars)
    /\ WF_vars(BuilderUnlocks)
    /\ \A s \in Syncers : WF_vars(TriggerWorkers(s) /\ UNCHANGED workerVars)

(* The folders of a database do not fail to be copied for ever.              *)
BuilderRuns ==
    /\ WF_vars(BuildStep)
    /\ SF_vars(SetupDb /\ BuilderAt("mark")')
    /\ SF_vars(GetContainerToBuild)
    /\ SF_vars(BuilderLocks)

(* Requests go on too; nothing says when one arrives or the proxy is done.   *)
RequestsRun ==
    \A k \in Clients :
        WF_vars(ClientStep(k) /\ ~At(k, "using") /\ UNCHANGED <<mapVars, workerVars>>)

(* Docker does not refuse to remove a container for ever.                    *)
CleanerRuns ==
    /\ WF_vars(CleanerRecv \/ ListContainers \/ CleanerRests)
    /\ SF_vars(\E d \in Ids : IsContainerInUse(d))
    /\ SF_vars(RemoveContainer)

FairSpec == Spec /\ SyncsEnd /\ CleanerRuns /\ BuilderRuns /\ RequestsRun

-----------------------------------------------------------------------------
(* Properties.                                                               *)

Owns(k, c) == client[k].pc \in Owning /\ client[k].c = c

(* No two requests create a docker container for the same container at the   *)
(* same time, and while one does the status stays the Starting it claimed: no*)
(* sync, build or other request takes it away.  That is so of a container    *)
(* until a request queues it late (container/mod.rs:376-397), which may be in*)
(* the middle of a start: see OneStartAtATime for what comes of it.          *)
StartIsExclusive ==
    \A k \in Clients : \A c \in Containers \ late : Owns(k, c) =>
        /\ Is(c, "Starting")
        /\ \A j \in Clients : Owns(j, c) => j = k

(* While a build of a container goes on (container/mod.rs:229-255) its status*)
(* is the one the build last wrote, and nobody starts the container from the *)
(* image being replaced; unless a request queued it late, before the build,  *)
(* which is then of a container that may be served, or during it, which then *)
(* overwrites the status of the build.                                       *)
BuildIsExclusive ==
    LET c == builder.c IN c \notin late =>
    /\ builder.pc \in {"setup", "mark"} => Is(c, "Queued")
    /\ builder.pc \in {"build", "finishHook", "finishResult", "finishStatus",
                       "failHook", "failStatus"} => Is(c, "Building")
    /\ builder.pc = "failResult" => Is(c, "Failed")
    /\ ~BuilderAt("lock") => \A k \in Clients : ~Owns(k, c)

(* Seen from outside, every unconditional write of a status but one happens  *)
(* in the state it is meant for, with one owner per start.  The one is that  *)
(* of a request that queues a container late; nothing is promised of it then.*)
StageOf(c) == IF c \in late THEN "Requeued" ELSE status[c].name
OwnerOf(c) ==
    IF c \notin late /\ \E k \in Clients : Owns(k, c)
    THEN CHOOSE k \in Clients : Owns(k, c)
    ELSE "nobody"
Life == INSTANCE LazyContainer WITH
    Nobody <- "nobody",
    stage  <- [c \in Containers |-> StageOf(c)],
    owner  <- [c \in Containers |-> OwnerOf(c)]
LifeIsRespected == Life!Spec

(* What can be started was built, and the row says so before the status does *)
(* (hooks.rs:67-79 before container/mod.rs:246): whenever the process stops, *)
(* Deployment::new finds again that it was built, or that it failed.  One    *)
(* that a request queued late is built again, and may fail, while it serves. *)
ServedIsRecorded ==
    \A c \in Apps \ late :
        /\ status[c].name \in {"StandBy", "Starting", "Ready"} =>
              dbResult[c] = "Built" /\ result[c] = "Built"
        /\ Is(c, "Failed") => dbResult[c] = "Failed"

(* A queued container of the map is never left to the next sync: the build   *)
(* worker is at work or triggered, or somebody is about to trigger it, unless*)
(* a panic has ended it (github.rs:104-118), which nothing makes up for.     *)
QueuedIsAttended ==
    ~BuilderAt("dead") /\ (\E c \in inMap : Is(c, "Queued")) =>
        \/ buildSignal
        \/ ~BuilderAt("recv")
        \/ \E s \in Syncers : syncer[s] \in {"syncing", "trigger"}
        \/ \E k \in Clients : At(k, "trigger")

(* The production deployment of every project is its latest built one, else  *)
(* its latest one (docs/pages/deployments.mdx:8), but for the moment between *)
(* the end of a build and the sync that follows it (workers/build.rs:38).    *)
ProdFollowsResults ==
    builder.pc \notin {"finishStatus", "lock"} => prod = ProdOfAll(inMap, result)

(* Between syncs no production deployment waits for a request to be built.   *)
ProdIsForced == MapReadable => \A c \in prod : ~Is(c, "Built")

(* A socket is answered only after something listened on it.                 *)
SocketWasOnline ==
    \A k \in Clients : At(k, "using") =>
        docker[client[k].id] \in {"online", "exited", "absent"}

(* A queued deployment is built, or fails, or leaves the map, also when the  *)
(* copy of its database failed a few times (container/mod.rs:234), unless a  *)
(* panic ends the build worker, while it builds this or another one.         *)
QueuedIsBuilt ==
    \A c \in Apps :
        (c \in inMap /\ Is(c, "Queued")) ~>
            \/ c \notin inMap
            \/ status[c].name \in {"StandBy", "Starting", "Ready", "Failed"}
            \/ BuilderAt("dead")

(* A docker container nobody starts or serves from is removed, whatever the  *)
(* request that created it met, as long as there are syncs: nothing but a    *)
(* sync_with_db triggers the docker worker, and the interval of manager.rs:91*)
(* ends with the github worker.  Unless the docker worker has died.          *)
SyncsGoOn == []<>(\E s \in Syncers : syncer[s] = "trigger")
Held(d) == InUse(d) \/ \E k \in Clients : client[k].pc \in Owning /\ client[k].id = d
LeaksAreCollected ==
    SyncsGoOn => \A d \in Ids : (docker[d] # "absent" /\ ~Held(d)) ~>
        (docker[d] = "absent" \/ Held(d) \/ cleaner.pc = "dead")
=============================================================================

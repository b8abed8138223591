--------------------------- MODULE DeploymentMap ---------------------------
(* deployments/map.rs and manager.rs: the map of deployments and databases,  *)
(* its sync with the database, which also queues and downgrades containers,  *)
(* and sync_with_db, the only caller of it besides the build worker.         *)
(*                                                                           *)
(* The map is behind a read-write lock.  A sync holds it for writing from    *)
(* start to end; a reader holds it during a single action here, so a reader  *)
(* is an action whose guard is MapReadable.  Container statuses have locks   *)
(* of their own, taken and dropped at every access.                          *)
EXTENDS Container, FiniteSets

CONSTANTS
    ProdDbs,        \* the containers that are production databases
    Projects,
    Project,        \* Project[c]: the project of a container
    DefaultBranch,  \* the deployments of their project's default branch
    Created,        \* Created[c]: when the row of a deployment was inserted
    Syncers,        \* tasks that call sync_with_db: api handlers, the interval
    InitialResults  \* results the rows may hold when the process first starts

Apps == Containers \ ProdDbs
Results == {"None", "Built", "Failed"}

ASSUME MapConstants ==
    /\ ProdDbs \subseteq Containers
    /\ Project \in [Containers -> Projects]
    /\ DefaultBranch \subseteq Apps
    /\ Created \in [Containers -> Nat \ {0}]
    /\ \A c, e \in Apps : Created[c] = Created[e] => c = e
    /\ {"nobody", "builder"} \cap Syncers = {}
    /\ InitialResults \subseteq Results

VARIABLES
    rows,           \* the deployments table: "none", "live" or "deleted"
    dbResult,       \* its column `result'
    result,         \* Container.result
    inMap,          \* the containers map.dbs and map.deployments hold
    prod,           \* map.prod, as the containers of those deployments
    sync,           \* the run of read_db_and_build_updates that holds the map
    syncer,         \* where each sync_with_db is
    cleanSignal     \* docker_worker triggered since its last run began

dbVars == <<rows, dbResult>>
loaded == <<result, inMap, prod>>
mapVars == <<dbVars, loaded, sync, syncer, cleanSignal>>

SyncPhases == {"free", "enqueue", "enqueueWrite", "downgrade", "downgradeWrite"}

MapTypeOK ==
    /\ rows \in [Apps -> {"none", "live", "deleted"}]
    /\ dbResult \in [Apps -> Results]
    /\ result \in [Containers -> Results]
    /\ inMap \subseteq Containers
    /\ prod \subseteq Apps
    /\ sync \in [by : Syncers \union {"nobody", "builder"}, phase : SyncPhases,
                 todo : SUBSET Containers, c : Containers \union {NoContainer}]
    /\ syncer \in [Syncers -> {"idle", "syncing", "trigger"}]
    /\ cleanSignal \in BOOLEAN

NoSync  == [by |-> "nobody", phase |-> "free", todo |-> {}, c |-> NoContainer]

MapInit ==
    /\ rows \in [Apps -> {"none", "live"}]
    /\ dbResult \in [Apps -> InitialResults \union {"None"}]
    /\ \A c \in Apps :
          IF rows[c] = "none" THEN dbResult[c] = "None" ELSE dbResult[c] \in InitialResults
    /\ result = [c \in Containers |-> "None"]
    /\ inMap = {}
    /\ prod = {}
    /\ sync = NoSync
    /\ syncer = [s \in Syncers |-> "idle"]
    /\ cleanSignal = FALSE

MapReadable == sync.phase = "free"

-----------------------------------------------------------------------------
(* The database rows others write: the github worker and the redeploy        *)
(* endpoint insert, the delete endpoint marks a row deleted for good.        *)

InsertRow(c) ==
    /\ rows[c] = "none"
    /\ rows' = [rows EXCEPT ![c] = "live"]
    /\ UNCHANGED <<containerVars, dbResult, loaded, sync, syncer, cleanSignal>>

DeleteRow(c) ==
    /\ rows[c] = "live"
    /\ rows' = [rows EXCEPT ![c] = "deleted"]
    /\ UNCHANGED <<containerVars, dbResult, loaded, sync, syncer, cleanSignal>>

-----------------------------------------------------------------------------
(* read_db_and_build_updates                                                 *)

Live == {c \in Apps : rows[c] = "live"}

(* ProdSqliteDb::new makes a StandBy container; Deployment::new reads the    *)
(* result column, where no result means the deployment was never built.      *)
InitialStatus(c) ==
    IF c \in ProdDbs THEN Plain("StandBy")
    ELSE Plain(CASE dbResult[c] = "Built"  -> "Built"
                 [] dbResult[c] = "Failed" -> "Failed"
                 [] dbResult[c] = "None"   -> "Queued")
InitialResult(c) == IF c \in ProdDbs THEN "Built" ELSE dbResult[c]

(* Databases of projects with a deployment are added and never removed.      *)
MapAfterSync ==
    Live \union (inMap \cap ProdDbs)
         \union {b \in ProdDbs : \E c \in Live : Project[c] = Project[b]}

Latest(S) == {c \in S : \A e \in S : Created[e] <= Created[c]}

(* The latest default branch deployment that was built, else the latest one. *)
ProdOf(p, map, results) ==
    LET candidates == {c \in map \cap DefaultBranch : Project[c] = p}
        built      == {c \in candidates : results[c] = "Built"}
    IN Latest(IF built # {} THEN built ELSE candidates)
ProdOfAll(map, results) == UNION {ProdOf(p, map, results) : p \in Projects}

BeginWithOldProd(by) ==     \* mutant: queues the production of the last sync
    LET added == MapAfterSync \ inMap IN
    /\ MapReadable
    /\ inMap' = MapAfterSync
    /\ status' = [c \in Containers |->
                    IF c \in added THEN InitialStatus(c) ELSE status[c]]
    /\ result' = [c \in Containers |->
                    IF c \in added THEN InitialResult(c) ELSE result[c]]
    /\ prod' = ProdOfAll(inMap', result')
    /\ sync' = [by |-> by, phase |-> "enqueue", todo |-> prod, c |-> NoContainer]
    /\ UNCHANGED <<idle, docker, client, buildSignal, late, dbVars, cleanSignal>>

(* The map part of a sync: it takes the write lock, and the map, the names   *)
(* and the production deployments follow the database.                       *)
BeginSync(by) ==
    LET added == MapAfterSync \ inMap IN
    /\ MapReadable
    /\ inMap' = MapAfterSync
    /\ status' = [c \in Containers |->
                    IF c \in added THEN InitialStatus(c) ELSE status[c]]
    /\ result' = [c \in Containers |->
                    IF c \in added THEN InitialResult(c) ELSE result[c]]
    /\ prod' = ProdOfAll(inMap', result')
    /\ sync' = [by |-> by, phase |-> "enqueue", todo |-> prod', c |-> NoContainer]
    /\ UNCHANGED <<idle, docker, client, buildSignal, late, dbVars, cleanSignal>>

SyncGoto(phase, todo, c) ==
    sync' = [by |-> sync.by, phase |-> phase, todo |-> todo, c |-> c]

(* The containers of this phase are visited one by one: `write' says whether *)
(* the one just read is to be written, which is a step of its own.           *)
Visit(c, write, writing) ==
    /\ c \in sync.todo
    /\ IF write THEN SyncGoto(writing, sync.todo, c)
                ELSE SyncGoto(sync.phase, sync.todo \ {c}, NoContainer)
    /\ UNCHANGED <<containerVars, dbVars, loaded, syncer, cleanSignal>>

Visited(phase) ==
    /\ SyncGoto(phase, sync.todo \ {sync.c}, NoContainer)
    /\ UNCHANGED <<docker, client, buildSignal, late, dbVars, loaded, syncer, cleanSignal>>

(* Production deployments found Built are forced into the queue.             *)
EnqueueRead(c) ==
    /\ sync.phase = "enqueue"
    /\ Visit(c, Is(c, "Built"), "enqueueWrite")

EnqueueWrite ==
    /\ sync.phase = "enqueueWrite"
    /\ Write(sync.c, Queued(0))
    /\ UNCHANGED idle
    /\ Visited("enqueue")

(* Next, every container of a deployment that is not in production.          *)
TurnToDowngrades ==
    /\ sync.phase = "enqueue"
    /\ sync.todo = {}
    /\ SyncGoto("downgrade", (inMap \cap Apps) \ prod, NoContainer)
    /\ UNCHANGED <<containerVars, dbVars, loaded, syncer, cleanSignal>>

DowngradeStarting(c) ==     \* mutant: one that is starting counts as unused
    /\ sync.phase = "downgrade"
    /\ Visit(c, Is(c, "Starting"), "downgradeWrite")

(* downgrade_if_unused looks under the status read lock, drops it, and then  *)
(* takes the write lock to store what it decided.                            *)
DowngradeRead(c) ==
    /\ sync.phase = "downgrade"
    /\ Visit(c, Is(c, "Ready") /\ status[c].id \in idle, "downgradeWrite")

DowngradeWrite ==
    /\ sync.phase = "downgradeWrite"
    /\ Write(sync.c, Plain("StandBy"))
    /\ idle' = idle \ {status[sync.c].id}
    /\ Visited("downgrade")

SyncOver == sync.phase = "downgrade" /\ sync.todo = {}

SyncStep ==
    \/ \E c \in Containers : EnqueueRead(c) \/ DowngradeRead(c)
    \/ EnqueueWrite \/ TurnToDowngrades \/ DowngradeWrite

-----------------------------------------------------------------------------
(* Manager::sync_with_db: a sync, and then the workers downstream.           *)

SyncWithDb(s) ==
    /\ syncer[s] = "idle"
    /\ syncer' = [syncer EXCEPT ![s] = "syncing"]
    /\ BeginSync(s)

SyncWithDbUnlocks(s) ==
    /\ SyncOver
    /\ sync.by = s
    /\ sync' = NoSync
    /\ syncer' = [syncer EXCEPT ![s] = "trigger"]
    /\ UNCHANGED <<containerVars, dbVars, loaded, cleanSignal>>

TriggerCleanerOnly(s) ==    \* mutant: the build worker is not triggered
    /\ syncer[s] = "trigger"
    /\ cleanSignal' = TRUE
    /\ syncer' = [syncer EXCEPT ![s] = "idle"]
    /\ UNCHANGED <<containerVars, dbVars, loaded, sync>>

TriggerWorkers(s) ==
    /\ syncer[s] = "trigger"
    /\ buildSignal' = TRUE
    /\ cleanSignal' = TRUE
    /\ syncer' = [syncer EXCEPT ![s] = "idle"]
    /\ UNCHANGED <<status, idle, docker, client, late, dbVars, loaded, sync>>
=============================================================================

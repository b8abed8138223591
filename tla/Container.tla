----------------------------- MODULE Container -----------------------------
(* container/mod.rs: the lazy container.  A request that reaches one that is *)
(* not running starts it, or queues its build, before it is answered.  This  *)
(* module holds the state of the containers and what a request does to it,   *)
(* one action per await of access() and start(), which take and drop the     *)
(* status lock at each step; Fleet adds everybody else who writes a status.  *)
EXTENDS Naturals

CONSTANTS
    Containers,     \* containers, one per deployment or production database
    Clients,        \* requests being served by the proxy at the same time
    Ids,            \* ids of docker containers; one not in use may be reissued
    NoContainer,
    NoId,
    DockerMayFail,  \* whether docker may fail a call, or the app never listen
    DockerMayExit,  \* whether a docker container may stop by itself
    MaxInstant      \* bound: how many instants a queued access may carry

ASSUME ContainerConstants ==
    /\ NoContainer \notin Containers
    /\ NoId \notin Ids
    /\ DockerMayFail \in BOOLEAN
    /\ DockerMayExit \in BOOLEAN
    /\ MaxInstant \in Nat

VARIABLES
    status,         \* Container.status
    idle,           \* ids whose Ready status has a last_access over 30s old
    docker,         \* the docker daemon: what became of each docker container
    client,         \* where each request is in access() and start()
    buildSignal,    \* build_queue: triggered since the last run began, which
                    \* is the `owed' of Worker and its OwedHasMessage
    late            \* history: the containers a request queued because it had
                    \* read Built, when a build had taken them up since

containerVars == <<status, idle, docker, client, buildSignal, late>>

StatusNames == {"Absent", "Built", "Queued", "Building", "StandBy",
                "Starting", "Ready", "Failed"}

(* The fields the properties tell apart: the trigger_access of a Queued      *)
(* status (0 is None) and the docker container of a Ready one.               *)
Statuses == [name : StatusNames, at : 0..MaxInstant, id : Ids \union {NoId}]
DockerStates == {"absent", "created", "running", "online", "exited"}
Owning == {"create", "run", "poll", "publish"}
ClientPCs == {"idle", "found", "reread", "refresh", "requeue", "trigger",
              "start", "wait", "using"} \union Owning

ContainerTypeOK ==
    /\ status \in [Containers -> Statuses]
    /\ idle \subseteq Ids
    /\ docker \in [Ids -> DockerStates]
    /\ client \in [Clients -> [pc : ClientPCs,
                               c : Containers \union {NoContainer},
                               id : Ids \union {NoId}]]
    /\ buildSignal \in BOOLEAN
    /\ late \subseteq Containers

Plain(name) == [name |-> name, at |-> 0, id |-> NoId]
Queued(t)   == [name |-> "Queued", at |-> t, id |-> NoId]
Ready(d)    == [name |-> "Ready", at |-> 0, id |-> d]
Is(c, name) == status[c].name = name
Unbuilt(c)  == Is(c, "Built") \/ Is(c, "Queued")
AtRest      == [pc |-> "idle", c |-> NoContainer, id |-> NoId]
Write(c, s) == status' = [status EXCEPT ![c] = s]

ContainerInit ==
    /\ status = [c \in Containers |-> Plain("Absent")]
    /\ idle = {}
    /\ docker = [d \in Ids |-> "absent"]
    /\ client = [k \in Clients |-> AtRest]
    /\ buildSignal = FALSE
    /\ late = {}

-----------------------------------------------------------------------------
(* access()                                                                  *)

At(k, pc)      == client[k].pc = pc
Hold(k, pc, d) == client' = [client EXCEPT ![k] = [pc |-> pc, c |-> client[k].c, id |-> d]]
Goto(k, pc)    == Hold(k, pc, client[k].id)
Leave(k)       == client' = [client EXCEPT ![k] = AtRest]

(* The proxy resolved the host name to a container and holds an Arc of it.   *)
Found(k, c) ==
    /\ At(k, "idle")
    /\ client' = [client EXCEPT ![k] = [pc |-> "found", c |-> c, id |-> NoId]]
    /\ UNCHANGED <<status, idle, docker, buildSignal, late>>

(* The first look, with last_access refreshed under the status read lock.    *)
AccessReady(k) ==
    LET c == client[k].c IN
    /\ At(k, "found")
    /\ IF Is(c, "Ready")
       THEN Hold(k, "using", status[c].id) /\ idle' = idle \ {status[c].id}
       ELSE Goto(k, "reread") /\ UNCHANGED idle
    /\ UNCHANGED <<status, docker, buildSignal, late>>

(* The second look clones the status and drops the lock: whatever comes next *)
(* is decided by a status that may have changed since.                       *)
AccessClone(k) ==
    LET c == client[k].c IN
    /\ At(k, "reread")
    /\ \/ /\ Is(c, "Ready")
          /\ Hold(k, "refresh", status[c].id)
       \/ (Is(c, "StandBy") \/ Is(c, "Starting")) /\ Goto(k, "start")
       \/ Is(c, "Built") /\ Goto(k, "requeue")
       \/ (Is(c, "Queued") \/ Is(c, "Building") \/ Is(c, "Failed")) /\ Leave(k)
    /\ UNCHANGED <<status, idle, docker, buildSignal, late>>

(* The cloned Ready shares its last_access with the status it came from.     *)
RefreshAccess(k) ==
    /\ At(k, "refresh")
    /\ idle' = idle \ {client[k].id}
    /\ Goto(k, "using")
    /\ UNCHANGED <<status, docker, buildSignal, late>>

(* Instant::now(): later than every instant another queued access carries.   *)
IsNow(t) ==
    /\ \A c \in Containers : status[c].at < t
    /\ t = 1 \/ \E c \in Containers : status[c].at = t - 1

RequeueSilently(k) ==       \* mutant: queued without triggering the build worker
    /\ At(k, "requeue")
    /\ \E t \in 1..MaxInstant : IsNow(t) /\ Write(client[k].c, Queued(t))
    /\ Leave(k)
    /\ UNCHANGED <<idle, docker, buildSignal, late>>

(* The status lock was dropped since the status was read, and the write is   *)
(* unconditional: it comes late if the container has been taken up since.    *)
RequeueBuilt(k) ==
    LET c == client[k].c IN
    /\ At(k, "requeue")
    /\ \E t \in 1..MaxInstant : IsNow(t) /\ Write(c, Queued(t))
    /\ late' = IF Unbuilt(c) THEN late ELSE late \union {c}
    /\ Goto(k, "trigger")
    /\ UNCHANGED <<idle, docker, buildSignal>>

TriggerBuild(k) ==
    /\ At(k, "trigger")
    /\ buildSignal' = TRUE
    /\ Leave(k)
    /\ UNCHANGED <<status, idle, docker, late>>

-----------------------------------------------------------------------------
(* start()                                                                   *)

(* mutant: a request that finds the start of another takes it over           *)
ClaimAnyStart(k) ==
    LET c == client[k].c IN
    /\ At(k, "start")
    /\ IF Is(c, "StandBy") \/ Is(c, "Starting")
       THEN Write(c, Plain("Starting")) /\ Goto(k, "create")
       ELSE Leave(k) /\ UNCHANGED status
    /\ UNCHANGED <<idle, docker, buildSignal, late>>

(* Check and claim under one write lock: one request owns the start, others  *)
(* wait for it, and a status that is neither is an error.                    *)
ClaimStart(k) ==
    LET c == client[k].c IN
    /\ At(k, "start")
    /\ \/ Is(c, "StandBy") /\ Write(c, Plain("Starting")) /\ Goto(k, "create")
       \/ Is(c, "Starting") /\ Goto(k, "wait") /\ UNCHANGED status
       \/ Is(c, "Ready") /\ Hold(k, "using", status[c].id) /\ UNCHANGED status
       \/ /\ status[c].name \notin {"StandBy", "Starting", "Ready"}
          /\ Leave(k)
          /\ UNCHANGED status
    /\ UNCHANGED <<idle, docker, buildSignal, late>>

(* An id nothing remembers stands for one docker never issued before.        *)
Fresh(d) ==
    /\ docker[d] = "absent"
    /\ \A c \in Containers : status[c].id # d
    /\ \A k \in Clients : client[k].id # d

CreateContainer(k) ==
    /\ At(k, "create")
    /\ \E d \in Ids :
          /\ Fresh(d)
          /\ docker' = [docker EXCEPT ![d] = "created"]
          /\ Hold(k, "run", d)
    /\ UNCHANGED <<status, idle, buildSignal, late>>

RunWithoutPolling(k) ==     \* mutant: Ready as soon as docker has started it
    /\ At(k, "run")
    /\ docker[client[k].id] = "created"
    /\ docker' = [docker EXCEPT ![client[k].id] = "running"]
    /\ Goto(k, "publish")
    /\ UNCHANGED <<status, idle, buildSignal, late>>

RunContainer(k) ==
    /\ At(k, "run")
    /\ docker[client[k].id] = "created"
    /\ docker' = [docker EXCEPT ![client[k].id] = "running"]
    /\ Goto(k, "poll")
    /\ UNCHANGED <<status, idle, buildSignal, late>>

IsOnline(k) ==
    /\ At(k, "poll")
    /\ docker[client[k].id] \in {"running", "online"}
    /\ docker' = [docker EXCEPT ![client[k].id] = "online"]
    /\ Goto(k, "publish")
    /\ UNCHANGED <<status, idle, buildSignal, late>>

(* Every `?' and bail! between the claim and the end: the owner leaves with  *)
(* an error, and the status it claimed stays Starting.  A container that is  *)
(* gone cannot be run or reached.                                            *)
AbandonStart(k) ==
    /\ \/ DockerMayFail /\ client[k].pc \in {"create", "run", "poll"}
       \/ At(k, "run") /\ docker[client[k].id] # "created"
       \/ At(k, "poll") /\ docker[client[k].id] \notin {"running", "online"}
    /\ Leave(k)
    /\ UNCHANGED <<status, idle, docker, buildSignal, late>>

PublishReady(k) ==
    LET d == client[k].id IN
    /\ At(k, "publish")
    /\ Write(client[k].c, Ready(d))
    /\ idle' = idle \ {d}
    /\ Goto(k, "using")
    /\ UNCHANGED <<docker, buildSignal, late>>

(* The unbounded loop of a request that does not own the start.              *)
WaitReady(k) ==
    LET c == client[k].c IN
    /\ At(k, "wait")
    /\ Is(c, "Ready")
    /\ Hold(k, "using", status[c].id)
    /\ UNCHANGED <<status, idle, docker, buildSignal, late>>

(* The proxy has its answer and forgets the socket.                          *)
Done(k) ==
    /\ At(k, "using")
    /\ Leave(k)
    /\ UNCHANGED <<status, idle, docker, buildSignal, late>>

ClientStep(k) ==
    \/ AccessReady(k) \/ AccessClone(k) \/ RefreshAccess(k)
    \/ RequeueBuilt(k) \/ TriggerBuild(k)
    \/ ClaimStart(k) \/ CreateContainer(k) \/ RunContainer(k) \/ IsOnline(k)
    \/ AbandonStart(k) \/ PublishReady(k) \/ WaitReady(k) \/ Done(k)

-----------------------------------------------------------------------------
(* Time, and the docker daemon by itself.                                    *)

TimePassesAnyway(c) ==      \* mutant: the check for a Ready status is dropped
    /\ status[c].id \notin idle
    /\ idle' = idle \union {status[c].id}
    /\ UNCHANGED <<status, docker, client, buildSignal, late>>

ThirtySecondsPass(c) ==
    /\ Is(c, "Ready")
    /\ status[c].id \notin idle
    /\ idle' = idle \union {status[c].id}
    /\ UNCHANGED <<status, docker, client, buildSignal, late>>

DockerExits(d) ==
    /\ DockerMayExit
    /\ docker[d] \in {"running", "online"}
    /\ docker' = [docker EXCEPT ![d] = "exited"]
    /\ UNCHANGED <<status, idle, client, buildSignal, late>>
=============================================================================

--------------------------- MODULE LazyContainer ---------------------------
(* The life a container is meant to have (container/mod.rs:59-89): it is     *)
(* queued, built, started by one request at a time, ready, and downgraded    *)
(* back.  In the code every one of these writes but the claim of a start is  *)
(* unconditional; here each has the state it must start from as its guard.   *)
(* A request that queues a container late, over what a build or a start has  *)
(* made of it, ends the life: nothing more is said of the container.         *)
CONSTANTS
    Containers,
    Clients,
    Nobody      \* not a client: nobody owns a start

VARIABLES
    stage,      \* stage[c]: the name of the status of a container, or Requeued
    owner       \* owner[c]: the request that owns the start in progress

vars == <<stage, owner>>

Init ==
    /\ stage = [c \in Containers |-> "Absent"]
    /\ owner = [c \in Containers |-> Nobody]

Move(c, from, to) ==
    /\ stage[c] = from
    /\ stage' = [stage EXCEPT ![c] = to]

Loaded == {"Built", "Queued", "StandBy", "Failed"}

(* A sync adds any number of containers to the map at once. *)
Load ==
    /\ stage' = [c \in Containers |-> stage'[c]]
    /\ \A c \in Containers :
          stage'[c] # stage[c] => stage[c] = "Absent" /\ stage'[c] \in Loaded
    /\ UNCHANGED owner

Restart == stage' = [c \in Containers |-> "Absent"] /\ owner' = [c \in Containers |-> Nobody]

Enqueue(c) == Move(c, "Built", "Queued") /\ UNCHANGED owner
Build(c)   == Move(c, "Queued", "Building") /\ UNCHANGED owner
Succeed(c) == Move(c, "Building", "StandBy") /\ UNCHANGED owner
Fail(c)    == Move(c, "Building", "Failed") /\ UNCHANGED owner

Claim(c, k) ==
    /\ owner[c] = Nobody
    /\ Move(c, "StandBy", "Starting")
    /\ owner' = [owner EXCEPT ![c] = k]

(* The owner leaves with an error; nobody else may claim what it leaves. *)
Abandon(c) ==
    /\ owner[c] # Nobody
    /\ stage[c] = "Starting"
    /\ owner' = [owner EXCEPT ![c] = Nobody]
    /\ UNCHANGED stage

Publish(c) ==
    /\ owner[c] # Nobody
    /\ Move(c, "Starting", "Ready")
    /\ owner' = [owner EXCEPT ![c] = Nobody]

Downgrade(c) == Move(c, "Ready", "StandBy") /\ UNCHANGED owner

(* Only what a build has taken up can be queued late.                        *)
Requeue(c) ==
    /\ stage[c] \in {"Building", "Failed", "StandBy", "Starting", "Ready"}
    /\ stage' = [stage EXCEPT ![c] = "Requeued"]
    /\ owner' = [owner EXCEPT ![c] = Nobody]

Next ==
    \/ Load \/ Restart
    \/ \E c \in Containers :
          \/ Enqueue(c) \/ Build(c) \/ Succeed(c) \/ Fail(c)
          \/ \E k \in Clients : Claim(c, k)
          \/ Abandon(c) \/ Publish(c) \/ Downgrade(c) \/ Requeue(c)

Spec == Init /\ [][Next]_vars
=============================================================================

---------------------------- MODULE FleetClaims ----------------------------
(* What comments and docs of the repository say of the containers, and runs  *)
(* of Fleet show the code does not keep.                                     *)
EXTENDS Fleet

(* "don't remove a container that was just started but not wrote yet into a  *)
(* Ready status" (deployments/workers/docker.rs:18).                         *)
StartedIsNotRemoved ==
    [][\A k \in Clients :
          client[k].pc \in {"run", "poll", "publish"}
          /\ docker[client[k].id] # "absent" => docker'[client[k].id] # "absent"]_vars

(* "Two docker containers should not be created at the same time for the same*)
(* container" (container/mod.rs:129).                                        *)
OneStartAtATime ==
    \A c \in Containers : \A j, k \in Clients : Owns(j, c) /\ Owns(k, c) => j = k
=============================================================================

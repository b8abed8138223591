--------------------------- MODULE WorkerPromise ---------------------------
(* What deployments/worker.rs promises to its callers, without the channel,  *)
(* the batches and the notifications: a run of work() answers only calls     *)
(* that were made before the run began, and only after the run has ended; a  *)
(* request made by anybody is forgotten only by beginning a later run.       *)
CONSTANTS
    Waiters     \* calls of trigger_and_wait

VARIABLES
    call,       \* how far each call of trigger_and_wait has come
    phase,      \* "resting", "running", "answering" or "dead"
    covered,    \* the calls the current run will answer
    owed        \* a request was made since the last run began

vars == <<call, phase, covered, owed>>

Init ==
    /\ call = [w \in Waiters |-> "idle"]
    /\ phase = "resting"
    /\ covered = {}
    /\ owed = FALSE

Request ==
    /\ owed' = TRUE
    /\ UNCHANGED <<call, phase, covered>>

Call(w) ==
    /\ call[w] = "idle"
    /\ call' = [call EXCEPT ![w] = "waiting"]
    /\ owed' = TRUE
    /\ UNCHANGED <<phase, covered>>

(* The caller goes away without waiting for the answer. *)
GiveUp(w) ==
    /\ call[w] = "waiting"
    /\ call' = [call EXCEPT ![w] = "gone"]
    /\ UNCHANGED <<phase, covered, owed>>

(* A run covers calls that are already made, never one that comes later. *)
Begin ==
    /\ phase = "resting"
    /\ phase' = "running"
    /\ covered' \in SUBSET {w \in Waiters : call[w] \in {"waiting", "gone"}}
    /\ owed' = FALSE
    /\ UNCHANGED call

Finish ==
    /\ phase = "running"
    /\ phase' = "answering"
    /\ UNCHANGED <<call, covered, owed>>

Answer(w) ==
    /\ phase = "answering"
    /\ w \in covered
    /\ call' = [call EXCEPT ![w] = IF @ = "gone" THEN "idle" ELSE "answered"]
    /\ covered' = covered \ {w}
    /\ UNCHANGED <<phase, owed>>

Rest ==
    /\ phase = "answering"
    /\ covered = {}
    /\ phase' = "resting"
    /\ UNCHANGED <<call, covered, owed>>

Die ==
    /\ phase = "running"
    /\ phase' = "dead"
    /\ covered' = {}
    /\ UNCHANGED <<call, owed>>

Return(w) ==
    /\ call[w] = "answered"
    /\ call' = [call EXCEPT ![w] = "idle"]
    /\ UNCHANGED <<phase, covered, owed>>

Next ==
    \/ Request \/ Begin \/ Finish \/ Rest \/ Die
    \/ \E w \in Waiters : Call(w) \/ GiveUp(w) \/ Answer(w) \/ Return(w)

Spec == Init /\ [][Next]_vars
=============================================================================

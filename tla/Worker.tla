------------------------------- MODULE Worker -------------------------------
(* deployments/worker.rs: the background task behind the build, docker,      *)
(* files and github workers.  Callers put a Notify into a bounded channel    *)
(* with try_send, ignoring the error when it is full or closed; the task     *)
(* takes a batch, runs work() once for the whole batch and then notifies     *)
(* every element of it.                                                      *)
EXTENDS Naturals, Sequences, SequencesExt

CONSTANTS
    Waiters,        \* calls of trigger_and_wait
    NoWaiter,       \* the Notify of a plain trigger(): nobody waits on it
    HasTriggers,    \* whether trigger() is used: not on the github worker
    WorkMayPanic,   \* whether work() may panic, which kills the task
    Capacity,       \* channel(1000)
    BatchSize       \* recv_many(.., 100)

ASSUME WorkerConstants ==
    /\ NoWaiter \notin Waiters
    /\ HasTriggers \in BOOLEAN
    /\ WorkMayPanic \in BOOLEAN
    /\ Capacity \in Nat \ {0}
    /\ BatchSize \in Nat \ {0}

VARIABLES
    channel,    \* the Notify messages sent and not received
    loop,       \* where the task is: "recv", "work", "notify" or "dead"
    batch,      \* the messages of this round not yet notified
    waiter,     \* how far each call of trigger_and_wait has come
    owed        \* history: a request was made since the last run began

vars == <<channel, loop, batch, waiter, owed>>

Messages == Waiters \union {NoWaiter}
WaiterStates == {"idle", "waiting", "gone", "answered"}

TypeOK ==
    /\ channel \in Seq(Messages)
    /\ Len(channel) <= Capacity
    /\ loop \in {"recv", "work", "notify", "dead"}
    /\ batch \in Seq(Messages)
    /\ waiter \in [Waiters -> WaiterStates]
    /\ owed \in BOOLEAN

Init ==
    /\ channel = <<>>
    /\ loop = "recv"
    /\ batch = <<>>
    /\ waiter = [w \in Waiters |-> "idle"]
    /\ owed = FALSE

-----------------------------------------------------------------------------
(* Callers.                                                                  *)

(* try_send with its error ignored: a full channel, or one whose receiver    *)
(* died with the task, drops the message.                                    *)
UnboundedSend(m) ==   \* mutant: an unbounded channel
    channel' = IF loop # "dead" THEN Append(channel, m) ELSE channel

TrySend(m) ==
    IF loop # "dead" /\ Len(channel) < Capacity
    THEN channel' = Append(channel, m)
    ELSE channel' = channel

Trigger ==
    /\ HasTriggers
    /\ TrySend(NoWaiter)
    /\ owed' = TRUE
    /\ UNCHANGED <<loop, batch, waiter>>

TriggerAndWait(w) ==
    /\ waiter[w] = "idle"
    /\ TrySend(w)
    /\ waiter' = [waiter EXCEPT ![w] = "waiting"]
    /\ owed' = TRUE
    /\ UNCHANGED <<loop, batch>>

(* The http client of an api handler disconnects: its future is dropped      *)
(* while it awaits notified(), and its message stays where it is.            *)
Abandon(w) ==
    /\ waiter[w] = "waiting"
    /\ waiter' = [waiter EXCEPT ![w] = "gone"]
    /\ UNCHANGED <<channel, loop, batch, owed>>

Return(w) ==
    /\ waiter[w] = "answered"
    /\ waiter' = [waiter EXCEPT ![w] = "idle"]
    /\ UNCHANGED <<channel, loop, batch, owed>>

-----------------------------------------------------------------------------
(* The task.                                                                 *)

(* recv_many waits for one message and takes all there are, up to the limit. *)
RecvMany ==
    LET n == IF Len(channel) < BatchSize THEN Len(channel) ELSE BatchSize IN
    /\ loop = "recv"
    /\ channel # <<>>
    /\ batch' = SubSeq(channel, 1, n)
    /\ channel' = SubSeq(channel, n + 1, Len(channel))
    /\ loop' = "work"
    /\ owed' = FALSE
    /\ UNCHANGED waiter

LateCallsJoin ==      \* mutant: calls received during work() are answered by it
    /\ loop = "work"
    /\ loop' = "notify"
    /\ batch' = batch \o channel
    /\ channel' = <<>>
    /\ UNCHANGED <<waiter, owed>>

WorkEnds ==
    /\ loop = "work"
    /\ loop' = "notify"
    /\ UNCHANGED <<channel, batch, waiter, owed>>

(* The spawned task unwinds: the receiver and the batch are dropped.         *)
WorkPanics ==
    /\ WorkMayPanic
    /\ loop = "work"
    /\ loop' = "dead"
    /\ channel' = <<>>
    /\ batch' = <<>>
    /\ UNCHANGED <<waiter, owed>>

NotifyFirstOnly ==    \* mutant: only one element of the batch is notified
    /\ loop = "notify"
    /\ batch # <<>>
    /\ batch' = <<>>
    /\ waiter' = [w \in Waiters |->
                    IF w # Head(batch) THEN waiter[w]
                    ELSE IF waiter[w] = "gone" THEN "idle" ELSE "answered"]
    /\ UNCHANGED <<channel, loop, owed>>

NotifyOne ==
    /\ loop = "notify"
    /\ batch # <<>>
    /\ batch' = Tail(batch)
    /\ waiter' = [w \in Waiters |->
                    IF w # Head(batch) THEN waiter[w]
                    ELSE IF waiter[w] = "gone" THEN "idle" ELSE "answered"]
    /\ UNCHANGED <<channel, loop, owed>>

DrainAndRest ==       \* mutant: what arrived during the run is thrown away
    /\ loop = "notify"
    /\ batch = <<>>
    /\ loop' = "recv"
    /\ channel' = <<>>
    /\ UNCHANGED <<batch, waiter, owed>>

NextRound ==
    /\ loop = "notify"
    /\ batch = <<>>
    /\ loop' = "recv"
    /\ UNCHANGED <<channel, batch, waiter, owed>>

Task == RecvMany \/ WorkEnds \/ NotifyOne \/ NextRound

Next ==
    \/ Trigger
    \/ \E w \in Waiters : TriggerAndWait(w) \/ Abandon(w) \/ Return(w)
    \/ Task
    \/ WorkPanics

Spec == Init /\ [][Next]_vars

(* tokio polls a task that is ready again and again, and work() ends when it *)
(* does not panic: nothing is assumed about when the callers call.           *)
FairSpec == Spec /\ WF_vars(Task)

-----------------------------------------------------------------------------
(* Properties.                                                               *)

(* A request that no run has begun after leaves a message in the channel, so *)
(* the task cannot go to sleep on it -- even when try_send found the channel *)
(* full and dropped the request's own message (worker.rs:53, 58).            *)
OwedHasMessage == owed /\ loop # "dead" => channel # <<>>

(* A call of trigger_and_wait is answered only by a run that began after the *)
(* call and has ended (worker.rs:30-37 behind manager.rs:194): the sync that *)
(* follows it then sees what that run wrote.                                 *)
Promise == INSTANCE WorkerPromise WITH
    call <- waiter,
    phase <- CASE loop = "recv"   -> "resting"
               [] loop = "work"   -> "running"
               [] loop = "notify" -> "answering"
               [] loop = "dead"   -> "dead",
    covered <- {w \in Waiters : Contains(batch, w)}
AnswersAreFresh == Promise!Spec

(* Every request is followed by a run that begins later, unless the task dies*)
RequestsAreHonoured == owed ~> (~owed \/ loop = "dead")

(* A caller of trigger_and_wait whose message entered the channel is answered*)
(* or goes away by itself.  One whose message was dropped waits for ever.    *)
AcceptedIsAnswered ==
    \A w \in Waiters :
        (waiter[w] = "waiting" /\ Contains(channel, w))
            ~> (waiter[w] # "waiting" \/ loop = "dead")
=============================================================================

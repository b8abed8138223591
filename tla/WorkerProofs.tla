---------------------------- MODULE WorkerProofs ----------------------------
(* Proofs about Worker, for every number of callers and every size of the    *)
(* channel and of the batches: its types, that no request is forgotten, and  *)
(* that it implements WorkerPromise.                                         *)
EXTENDS Worker, SequenceTheorems, TLAPS

(* A message of a caller is in one place only, as long as its caller waits   *)
(* for it or has gone away; the batch is empty between rounds.               *)
SentInv ==
    /\ loop \in {"recv", "dead"} => batch = <<>>
    /\ loop = "dead" => channel = <<>>
    /\ \A i \in 1..Len(channel) :
          channel[i] \in Waiters => waiter[channel[i]] \in {"waiting", "gone"}
    /\ \A i \in 1..Len(batch) :
          batch[i] \in Waiters => waiter[batch[i]] \in {"waiting", "gone"}
    /\ \A i, j \in 1..Len(channel) :
          channel[i] = channel[j] /\ channel[i] \in Waiters => i = j
    /\ \A i, j \in 1..Len(batch) :
          batch[i] = batch[j] /\ batch[i] \in Waiters => i = j
    /\ \A i \in 1..Len(channel), j \in 1..Len(batch) :
          channel[i] = batch[j] => channel[i] \notin Waiters

WorkerInv == TypeOK /\ SentInv

-----------------------------------------------------------------------------
(* What the operations on the sequences of messages do.                      *)

(* A message that is sent ends the channel, or is dropped.                   *)
LEMMA SendAppends ==
    ASSUME WorkerConstants, TypeOK, NEW m \in Messages, TrySend(m)
    PROVE  /\ channel' \in Seq(Messages)
           /\ Len(channel') \in Nat /\ Len(channel') <= Capacity
           /\ channel' # channel =>
                 /\ loop # "dead"
                 /\ Len(channel') = Len(channel) + 1
                 /\ \A i \in 1..Len(channel) : channel'[i] = channel[i]
                 /\ channel'[Len(channel) + 1] = m
           /\ channel # <<>> \/ loop # "dead" => channel' # <<>>
  <1>1. Len(channel) \in Nat
    BY LenProperties DEF TypeOK
  <1>2. CASE loop # "dead" /\ Len(channel) < Capacity
    <2>1. channel' = Append(channel, m)
      BY <1>2 DEF TrySend
    <2>2. /\ channel' \in Seq(Messages)
          /\ channel' # <<>>
          /\ Len(channel') = Len(channel) + 1
          /\ \A i \in 1..Len(channel) : channel'[i] = channel[i]
          /\ channel'[Len(channel) + 1] = m
      BY <2>1, AppendProperties DEF TypeOK
    <2> QED
      BY <1>1, <1>2, <2>2 DEF WorkerConstants
  <1>3. CASE ~(loop # "dead" /\ Len(channel) < Capacity)
    <2>1. channel' = channel
      BY <1>3 DEF TrySend
    <2>2. loop # "dead" => Len(channel) >= Capacity
      BY <1>1, <1>3 DEF WorkerConstants
    <2>3. loop # "dead" => channel # <<>>
      BY <2>2, EmptySeq DEF WorkerConstants
    <2> QED
      BY <1>1, <2>1, <2>3 DEF TypeOK
  <1> QED
    BY <1>2, <1>3

(* A batch is the beginning of the channel, and what follows it stays.       *)
LEMMA RecvSplits ==
    ASSUME WorkerConstants, TypeOK, RecvMany
    PROVE  \E n \in 1..Len(channel) :
              /\ batch' \in Seq(Messages) /\ Len(batch') = n
              /\ channel' \in Seq(Messages) /\ Len(channel') = Len(channel) - n
              /\ \A i \in 1..n : batch'[i] = channel[i]
              /\ \A i \in 1..(Len(channel) - n) : channel'[i] = channel[i + n]
  <1> DEFINE n == IF Len(channel) < BatchSize THEN Len(channel) ELSE BatchSize
  <1>1. Len(channel) \in Nat \ {0} /\ \A i \in 1..Len(channel) : channel[i] \in Messages
    BY EmptySeq, ElementOfSeq DEF TypeOK, RecvMany
  <1>2. n \in 1..Len(channel)
    BY <1>1 DEF WorkerConstants
  <1>3. batch' = SubSeq(channel, 1, n) /\ channel' = SubSeq(channel, n + 1, Len(channel))
    BY DEF RecvMany
  <1> HIDE DEF n
  <1>4. /\ SubSeq(channel, 1, n) \in Seq(Messages)
        /\ Len(SubSeq(channel, 1, n)) = n
        /\ \A i \in 1..n : SubSeq(channel, 1, n)[i] = channel[i]
    <2>1. \A i \in 1..n : channel[i] \in Messages
      BY <1>1, <1>2
    <2>2. /\ SubSeq(channel, 1, n) \in Seq(Messages)
          /\ Len(SubSeq(channel, 1, n)) = IF 1 <= n THEN n - 1 + 1 ELSE 0
          /\ \A i \in 1..(n - 1 + 1) : SubSeq(channel, 1, n)[i] = channel[1 + i - 1]
      BY <1>2, <2>1, SubSeqProperties
    <2> QED
      BY <1>2, <2>2
  <1>5. /\ SubSeq(channel, n + 1, Len(channel)) \in Seq(Messages)
        /\ Len(SubSeq(channel, n + 1, Len(channel))) = Len(channel) - n
        /\ \A i \in 1..(Len(channel) - n) :
              SubSeq(channel, n + 1, Len(channel))[i] = channel[i + n]
    <2>1. \A i \in (n + 1)..Len(channel) : channel[i] \in Messages
      BY <1>1, <1>2
    <2>2. n + 1 \in Int /\ Len(channel) \in Int
      BY <1>1, <1>2
    <2>3. LET m == n + 1 IN
          /\ SubSeq(channel, m, Len(channel)) \in Seq(Messages)
          /\ Len(SubSeq(channel, m, Len(channel))) =
                IF m <= Len(channel) THEN Len(channel) - m + 1 ELSE 0
          /\ \A i \in 1..(Len(channel) - m + 1) :
                SubSeq(channel, m, Len(channel))[i] = channel[m + i - 1]
      BY <2>1, <2>2, SubSeqProperties
    <2> QED
      BY <1>1, <1>2, <2>3
  <1> QED
    BY <1>2, <1>3, <1>4, <1>5

(* The first element of a batch is notified, and the others stay.            *)
LEMMA NotifyDrops ==
    ASSUME TypeOK, NotifyOne
    PROVE  /\ Head(batch) \in Messages /\ Head(batch) = batch[1]
           /\ Len(batch) \in Nat \ {0}
           /\ batch' \in Seq(Messages) /\ Len(batch') = Len(batch) - 1
           /\ \A i \in 1..Len(batch') : batch'[i] = batch[i + 1]
  BY HeadTailProperties, EmptySeq DEF TypeOK, NotifyOne

-----------------------------------------------------------------------------
(* Types.                                                                    *)

(* Every step keeps the types.                                               *)
LEMMA NextTypes ==
    ASSUME WorkerConstants, TypeOK, [Next]_vars
    PROVE  TypeOK'
  <1>1. CASE Trigger
    <2>1. channel' \in Seq(Messages) /\ Len(channel') <= Capacity
      BY <1>1, SendAppends DEF Trigger, Messages
    <2> QED
      BY <1>1, <2>1 DEF Trigger, TypeOK
  <1>2. ASSUME NEW w \in Waiters, TriggerAndWait(w)
        PROVE  TypeOK'
    <2>1. channel' \in Seq(Messages) /\ Len(channel') <= Capacity
      BY <1>2, SendAppends DEF TriggerAndWait, Messages
    <2> QED
      BY <1>2, <2>1 DEF TriggerAndWait, TypeOK, WaiterStates
  <1>3. ASSUME NEW w \in Waiters, Abandon(w) \/ Return(w)
        PROVE  TypeOK'
    BY <1>3 DEF Abandon, Return, TypeOK, WaiterStates
  <1>4. CASE RecvMany
    <2>1. batch' \in Seq(Messages) /\ channel' \in Seq(Messages) /\ Len(channel') <= Capacity
      <3>1. PICK n \in 1..Len(channel) :
               /\ batch' \in Seq(Messages)
               /\ channel' \in Seq(Messages) /\ Len(channel') = Len(channel) - n
        BY <1>4, RecvSplits
      <3>2. Len(channel) \in Nat
        BY LenProperties DEF TypeOK
      <3> QED
        BY <3>1, <3>2 DEF TypeOK, WorkerConstants
    <2> QED
      BY <1>4, <2>1 DEF RecvMany, TypeOK
  <1>5. CASE WorkEnds \/ NextRound
    BY <1>5 DEF WorkEnds, NextRound, TypeOK
  <1>6. CASE NotifyOne
    <2>1. batch' \in Seq(Messages)
      BY <1>6, NotifyDrops
    <2>2. waiter' \in [Waiters -> WaiterStates]
      BY <1>6 DEF NotifyOne, TypeOK, WaiterStates
    <2> QED
      BY <1>6, <2>1, <2>2 DEF NotifyOne, TypeOK
  <1>7. CASE WorkPanics
    BY <1>7, EmptySeq DEF WorkPanics, TypeOK, WorkerConstants
  <1>8. CASE UNCHANGED vars
    BY <1>8 DEF vars, TypeOK
  <1> QED
    BY <1>1, <1>2, <1>3, <1>4, <1>5, <1>6, <1>7, <1>8 DEF Next, Task

(* Every variable of a worker keeps its type, and the channel its capacity.  *)
THEOREM WorkerTypesAreCorrect == Spec => []TypeOK
  <1>1. Init => TypeOK
    <2>1. <<>> \in Seq(Messages) /\ Len(<<>>) = 0
      BY EmptySeq
    <2>2. 0 <= Capacity
      BY WorkerConstants DEF WorkerConstants
    <2> SUFFICES ASSUME Init PROVE TypeOK
      OBVIOUS
    <2>3. channel \in Seq(Messages) /\ batch \in Seq(Messages)
      BY <2>1 DEF Init
    <2>4. Len(channel) <= Capacity
      BY <2>1, <2>2 DEF Init
    <2>5. waiter \in [Waiters -> WaiterStates]
      BY DEF Init, WaiterStates
    <2> QED
      BY <2>3, <2>4, <2>5 DEF Init, TypeOK
  <1>2. TypeOK /\ [Next]_vars => TypeOK'
    BY NextTypes, WorkerConstants
  <1> QED
    BY <1>1, <1>2, PTL DEF Spec

-----------------------------------------------------------------------------
(* No request is forgotten.                                                  *)

(* The channel of a live worker is not empty as long as a request is owed a  *)
(* run (worker.rs:53, 58): a message is dropped only by a channel that holds *)
(* others, and only the beginning of a run takes messages out of it.         *)
THEOREM NoRequestIsForgotten == Spec => []OwedHasMessage
  <1>1. Init => OwedHasMessage
    BY DEF Init, OwedHasMessage
  <1>2. TypeOK /\ OwedHasMessage /\ [Next]_vars => OwedHasMessage'
    <2> SUFFICES ASSUME TypeOK, OwedHasMessage, [Next]_vars
                 PROVE  OwedHasMessage'
      OBVIOUS
    <2> USE DEF OwedHasMessage
    <2>1. ASSUME NEW m \in Messages, TrySend(m), UNCHANGED loop
          PROVE  OwedHasMessage'
      <3>1. loop # "dead" => channel' # <<>>
        BY <2>1, SendAppends, WorkerConstants
      <3> QED
        BY <2>1, <3>1
    <2>2. CASE Trigger
      BY <2>1, <2>2 DEF Trigger, Messages
    <2>3. ASSUME NEW w \in Waiters, TriggerAndWait(w)
          PROVE  OwedHasMessage'
      BY <2>1, <2>3 DEF TriggerAndWait, Messages
    <2>4. CASE Task \/ WorkPanics
      BY <2>4 DEF Task, RecvMany, WorkEnds, NotifyOne, NextRound, WorkPanics
    <2>5. CASE UNCHANGED vars \/ \E w \in Waiters : Abandon(w) \/ Return(w)
      BY <2>5 DEF vars, Abandon, Return
    <2> QED
      BY <2>2, <2>3, <2>4, <2>5 DEF Next
  <1> QED
    BY <1>1, <1>2, WorkerTypesAreCorrect, PTL DEF Spec

-----------------------------------------------------------------------------
(* Where the messages of the callers are.                                    *)

(* Nothing is in the channel or in the batch initially.                      *)
LEMMA InitSent == Init => SentInv
  BY EmptySeq DEF Init, SentInv

(* Every step keeps each message in one place and its caller unanswered.     *)
LEMMA NextSent ==
    ASSUME WorkerConstants, TypeOK, SentInv, [Next]_vars
    PROVE  SentInv'
  <1> USE DEF SentInv
  <1>0. Len(channel) \in Nat /\ Len(batch) \in Nat
    BY LenProperties DEF TypeOK
  <1>1. CASE Trigger
    <2>1. /\ NoWaiter \notin Waiters /\ NoWaiter \in Messages
          /\ TrySend(NoWaiter) /\ UNCHANGED <<loop, batch, waiter>>
      BY <1>1 DEF Trigger, Messages, WorkerConstants
    <2>2. CASE channel' = channel
      BY <2>1, <2>2
    <2>3. CASE channel' # channel
      <3>1. /\ loop # "dead"
            /\ Len(channel') = Len(channel) + 1
            /\ \A i \in 1..Len(channel) : channel'[i] = channel[i]
            /\ channel'[Len(channel) + 1] = NoWaiter
        BY <2>1, <2>3, SendAppends
      <3>2. \A i \in 1..Len(channel') :
                channel'[i] \in Waiters => i \in 1..Len(channel) /\ channel'[i] = channel[i]
        BY <1>0, <2>1, <3>1
      <3>3. /\ loop' \in {"recv", "dead"} => batch' = <<>>
            /\ loop' = "dead" => channel' = <<>>
        BY <2>1, <3>1
      <3>4. /\ \A i \in 1..Len(channel') :
                  channel'[i] \in Waiters => waiter'[channel'[i]] \in {"waiting", "gone"}
            /\ \A i, j \in 1..Len(channel') :
                  channel'[i] = channel'[j] /\ channel'[i] \in Waiters => i = j
        BY <2>1, <3>2
      <3>5. \A i \in 1..Len(channel'), j \in 1..Len(batch') :
                  channel'[i] = batch'[j] => channel'[i] \notin Waiters
        BY <2>1, <3>2
      <3>6. /\ \A i \in 1..Len(batch') :
                  batch'[i] \in Waiters => waiter'[batch'[i]] \in {"waiting", "gone"}
            /\ \A i, j \in 1..Len(batch') :
                  batch'[i] = batch'[j] /\ batch'[i] \in Waiters => i = j
        BY <2>1
      <3> QED
        BY <3>3, <3>4, <3>5, <3>6
    <2> QED
      BY <2>2, <2>3
  <1>2. ASSUME NEW w \in Waiters, TriggerAndWait(w)
        PROVE  SentInv'
    <2>1. /\ w \in Messages /\ TrySend(w) /\ UNCHANGED <<loop, batch>>
          /\ waiter[w] = "idle"
          /\ waiter'[w] = "waiting"
          /\ \A v \in Waiters : v # w => waiter'[v] = waiter[v]
      BY <1>2 DEF TriggerAndWait, Messages, TypeOK
    <2>2. /\ \A i \in 1..Len(channel) : channel[i] # w
          /\ \A i \in 1..Len(batch) : batch[i] # w
      BY <2>1
    <2>3. CASE channel' = channel
      <3>1. /\ loop' \in {"recv", "dead"} => batch' = <<>>
            /\ loop' = "dead" => channel' = <<>>
        BY <2>1, <2>3
      <3>2. \A i \in 1..Len(channel') :
                  channel'[i] \in Waiters => waiter'[channel'[i]] \in {"waiting", "gone"}
        BY <2>1, <2>2, <2>3
      <3>3. \A i \in 1..Len(batch') :
                  batch'[i] \in Waiters => waiter'[batch'[i]] \in {"waiting", "gone"}
        BY <2>1, <2>2
      <3> QED
        BY <2>1, <2>3, <3>1, <3>2, <3>3
    <2>4. CASE channel' # channel
      <3>1. /\ loop # "dead"
            /\ Len(channel') = Len(channel) + 1
            /\ \A i \in 1..Len(channel) : channel'[i] = channel[i]
            /\ channel'[Len(channel) + 1] = w
        BY <2>1, <2>4, SendAppends
      <3>2. \A i \in 1..Len(channel') :
                \/ i = Len(channel) + 1 /\ channel'[i] = w
                \/ i \in 1..Len(channel) /\ channel'[i] = channel[i] /\ channel'[i] # w
        BY <1>0, <2>2, <3>1
      <3>3. /\ loop' \in {"recv", "dead"} => batch' = <<>>
            /\ loop' = "dead" => channel' = <<>>
        BY <2>1, <3>1
      <3>4. \A i \in 1..Len(channel') :
                  channel'[i] \in Waiters => waiter'[channel'[i]] \in {"waiting", "gone"}
        BY <2>1, <3>2
      <3>5. \A i, j \in 1..Len(channel') :
                  channel'[i] = channel'[j] /\ channel'[i] \in Waiters => i = j
        BY <3>2
      <3>6. \A i \in 1..Len(batch') :
                  batch'[i] \in Waiters => waiter'[batch'[i]] \in {"waiting", "gone"}
        BY <2>1, <2>2
      <3>7. \A i \in 1..Len(channel'), j \in 1..Len(batch') :
                  channel'[i] = batch'[j] => channel'[i] \notin Waiters
        BY <2>1, <2>2, <3>2
      <3>8. \A i, j \in 1..Len(batch') :
                  batch'[i] = batch'[j] /\ batch'[i] \in Waiters => i = j
        BY <2>1
      <3> QED
        BY <3>3, <3>4, <3>5, <3>6, <3>7, <3>8
    <2> QED
      BY <2>3, <2>4
  <1>3. ASSUME NEW w \in Waiters, Abandon(w) \/ Return(w)
        PROVE  SentInv'
    <2>1. /\ UNCHANGED <<channel, loop, batch>>
          /\ waiter[w] \in {"waiting", "answered"}
          /\ waiter[w] = "waiting" => waiter'[w] = "gone"
          /\ \A v \in Waiters : v # w => waiter'[v] = waiter[v]
      BY <1>3 DEF Abandon, Return, TypeOK
    <2>2. \A v \in Waiters : waiter[v] \in {"waiting", "gone"}
                                 => waiter'[v] \in {"waiting", "gone"}
      BY <2>1
    <2> QED
      BY <2>1, <2>2
  <1>4. CASE RecvMany
    <2>1. PICK n \in 1..Len(channel) :
             /\ Len(batch') = n
             /\ Len(channel') = Len(channel) - n
             /\ \A i \in 1..n : batch'[i] = channel[i]
             /\ \A i \in 1..(Len(channel) - n) : channel'[i] = channel[i + n]
      BY <1>4, RecvSplits
    <2>2. waiter' = waiter /\ loop' = "work"
      BY <1>4 DEF RecvMany
    <2>3. \A i \in 1..Len(batch') : i \in 1..Len(channel) /\ i <= n /\ batch'[i] = channel[i]
      BY <1>0, <2>1
    <2>4. \A i \in 1..Len(channel') :
             i + n \in 1..Len(channel) /\ i + n > n /\ channel'[i] = channel[i + n]
      BY <1>0, <2>1
    <2>5. \A i, j \in 1..Len(channel') :
                  channel'[i] = channel'[j] /\ channel'[i] \in Waiters => i = j
      <3>1. \A i, j \in 1..Len(channel') :
                channel'[i] = channel'[j] /\ channel'[i] \in Waiters => i + n = j + n
        BY <2>4
      <3> QED
        BY <3>1
    <2>6. \A i \in 1..Len(channel'), j \in 1..Len(batch') :
                  channel'[i] = batch'[j] => channel'[i] \notin Waiters
      <3> SUFFICES ASSUME NEW i \in 1..Len(channel'), NEW j \in 1..Len(batch'),
                          channel'[i] = batch'[j], channel'[i] \in Waiters
                   PROVE  FALSE
        OBVIOUS
      <3>1. i + n = j
        BY <2>3, <2>4
      <3> QED
        BY <2>3, <2>4, <3>1
    <2> QED
      BY <2>2, <2>3, <2>4, <2>5, <2>6
  <1>5. CASE WorkEnds \/ NextRound
    BY <1>5 DEF WorkEnds, NextRound
  <1>6. CASE NotifyOne
    <2>1. /\ Head(batch) = batch[1] /\ Head(batch) \in Messages
          /\ Len(batch) \in Nat \ {0}
          /\ Len(batch') = Len(batch) - 1
          /\ \A i \in 1..Len(batch') : batch'[i] = batch[i + 1]
      BY <1>6, NotifyDrops
    <2>2. /\ loop = "notify" /\ UNCHANGED <<channel, loop>>
          /\ \A w \in Waiters : w # batch[1] => waiter'[w] = waiter[w]
      BY <1>6, <2>1 DEF NotifyOne
    <2>3. \A i \in 1..Len(batch') :
             i + 1 \in 1..Len(batch) /\ i + 1 # 1 /\ batch'[i] = batch[i + 1]
      BY <2>1
    <2>4. /\ \A i \in 1..Len(batch') : batch'[i] \in Waiters => batch'[i] # batch[1]
          /\ \A i \in 1..Len(channel) : channel[i] \in Waiters => channel[i] # batch[1]
      BY <2>1, <2>3
    <2>5. \A i, j \in 1..Len(batch') :
                  batch'[i] = batch'[j] /\ batch'[i] \in Waiters => i = j
      <3>1. \A i, j \in 1..Len(batch') :
                batch'[i] = batch'[j] /\ batch'[i] \in Waiters => i + 1 = j + 1
        BY <2>3
      <3> QED
        BY <3>1
    <2>6. \A i \in 1..Len(batch') :
                batch'[i] \in Waiters => waiter'[batch'[i]] \in {"waiting", "gone"}
      BY <2>2, <2>3, <2>4
    <2>7. \A i \in 1..Len(channel') :
                channel'[i] \in Waiters => waiter'[channel'[i]] \in {"waiting", "gone"}
      BY <2>2, <2>4
    <2>8. \A i \in 1..Len(channel'), j \in 1..Len(batch') :
                channel'[i] = batch'[j] => channel'[i] \notin Waiters
      BY <2>2, <2>3
    <2> QED
      BY <2>2, <2>5, <2>6, <2>7, <2>8
  <1>7. CASE WorkPanics
    BY <1>7, EmptySeq DEF WorkPanics
  <1>8. CASE UNCHANGED vars
    BY <1>8 DEF vars
  <1> QED
    BY <1>1, <1>2, <1>3, <1>4, <1>5, <1>6, <1>7, <1>8 DEF Next, Task

(* No message of a caller is anywhere twice, and a caller whose message is   *)
(* somewhere has not been answered.                                          *)
THEOREM MessagesAreSentOnce == Spec => []WorkerInv
  <1>1. Init => SentInv
    BY InitSent
  <1>2. TypeOK /\ SentInv /\ [Next]_vars => SentInv'
    BY NextSent, WorkerConstants
  <1> QED
    BY <1>1, <1>2, WorkerTypesAreCorrect, PTL DEF Spec, WorkerInv

-----------------------------------------------------------------------------
(* The worker keeps its promise.                                             *)

Covered == {w \in Waiters : Contains(batch, w)}

Phase == CASE loop = "recv"   -> "resting"
           [] loop = "work"   -> "running"
           [] loop = "notify" -> "answering"
           [] loop = "dead"   -> "dead"

(* An empty batch covers no caller.                                          *)
LEMMA EmptyCovers == batch = <<>> => Covered = {}
  BY EmptySeq DEF Covered, Contains

(* The answer to the first element of a batch takes its caller, if it has    *)
(* one, out of those the run covers.                                         *)
LEMMA NotifyUncovers ==
    ASSUME TypeOK, SentInv, NotifyOne
    PROVE  IF Head(batch) \in Waiters
           THEN Head(batch) \in Covered /\ Covered' = Covered \ {Head(batch)}
           ELSE Covered' = Covered
  <1>1. /\ Head(batch) = batch[1]
        /\ Len(batch) \in Nat \ {0}
        /\ Len(batch') = Len(batch) - 1
        /\ \A i \in 1..Len(batch') : batch'[i] = batch[i + 1]
    BY NotifyDrops
  <1>2. \A w \in Waiters : w \in Covered <=> \E i \in 1..Len(batch) : batch[i] = w
    BY DEF Covered, Contains
  <1>3. \A w \in Waiters : w \in Covered' <=> \E i \in 1..Len(batch') : batch'[i] = w
    BY DEF Covered, Contains
  <1>4. \A i \in 1..Len(batch') : i + 1 \in 1..Len(batch) /\ i + 1 # 1
    BY <1>1
  <1>5. \A i \in 1..Len(batch) : i = 1 \/ (i - 1 \in 1..Len(batch') /\ batch'[i - 1] = batch[i])
    BY <1>1
  <1>6. \A w \in Waiters : w # batch[1] => (w \in Covered' <=> w \in Covered)
    BY <1>1, <1>2, <1>3, <1>4, <1>5
  <1>7. batch[1] \in Waiters => batch[1] \in Covered
    BY <1>1, <1>2
  <1>8. batch[1] \in Waiters => batch[1] \notin Covered'
    BY <1>1, <1>3, <1>4 DEF SentInv
  <1>9. Covered \subseteq Waiters /\ Covered' \subseteq Waiters
    BY DEF Covered
  <1> QED
    BY <1>1, <1>6, <1>7, <1>8, <1>9

(* The beginnings match.                                                     *)
LEMMA InitKeepsPromise == Init => Promise!Init
  <1> SUFFICES ASSUME Init PROVE Promise!Init
    OBVIOUS
  <1>1. Covered = {}
    BY EmptyCovers DEF Init
  <1> QED
    BY <1>1 DEF Init, Promise!Init, Covered

(* Every step of the worker is a step of the promise, or changes nothing     *)
(* that the promise is about.                                                *)
LEMMA NextKeepsPromise ==
    ASSUME TypeOK, SentInv, [Next]_vars
    PROVE  [Promise!Next]_(Promise!vars)
  <1> USE DEF Phase, Covered
  <1>1. CASE Trigger
    <2>1. Promise!Request
      BY <1>1 DEF Trigger, Promise!Request
    <2> QED
      BY <2>1 DEF Promise!Next
  <1>2. ASSUME NEW w \in Waiters, TriggerAndWait(w)
        PROVE  Promise!Next
    <2>1. Promise!Call(w)
      BY <1>2 DEF TriggerAndWait, Promise!Call
    <2> QED
      BY <2>1 DEF Promise!Next
  <1>3. ASSUME NEW w \in Waiters, Abandon(w)
        PROVE  Promise!Next
    <2>1. Promise!GiveUp(w)
      BY <1>3 DEF Abandon, Promise!GiveUp
    <2> QED
      BY <2>1 DEF Promise!Next
  <1>4. ASSUME NEW w \in Waiters, Return(w)
        PROVE  Promise!Next
    <2>1. Promise!Return(w)
      BY <1>4 DEF Return, Promise!Return
    <2> QED
      BY <2>1 DEF Promise!Next
  <1>5. CASE RecvMany
    <2>1. PICK n \in 1..Len(channel) :
             Len(batch') = n /\ \A i \in 1..n : batch'[i] = channel[i]
      BY <1>5, RecvSplits, WorkerConstants
    <2>2. Len(channel) \in Nat
      BY LenProperties DEF TypeOK
    <2>3. \A w \in Covered' : w \in Waiters /\ \E i \in 1..Len(channel) : channel[i] = w
      BY <2>1, <2>2 DEF Contains
    <2>4. Covered' \subseteq {w \in Waiters : waiter[w] \in {"waiting", "gone"}}
      BY <2>3 DEF SentInv
    <2>5. Promise!Begin
      BY <1>5, <2>4 DEF RecvMany, Promise!Begin
    <2> QED
      BY <2>5 DEF Promise!Next
  <1>6. CASE WorkEnds
    <2>1. Promise!Finish
      BY <1>6 DEF WorkEnds, Promise!Finish
    <2> QED
      BY <2>1 DEF Promise!Next
  <1>7. CASE NotifyOne
    <2>1. CASE Head(batch) \in Waiters
      <3>1. Head(batch) \in Covered /\ Covered' = Covered \ {Head(batch)}
        BY <1>7, <2>1, NotifyUncovers
      <3>2. waiter' = [waiter EXCEPT ![Head(batch)] =
                          IF waiter[Head(batch)] = "gone" THEN "idle" ELSE "answered"]
        BY <1>7, <2>1 DEF NotifyOne, TypeOK
      <3>3. Promise!Answer(Head(batch))
        BY <1>7, <3>1, <3>2 DEF NotifyOne, Promise!Answer
      <3> QED
        BY <2>1, <3>3 DEF Promise!Next
    <2>2. CASE Head(batch) \notin Waiters
      <3>1. Covered' = Covered
        BY <1>7, <2>2, NotifyUncovers
      <3>2. waiter' = waiter
        BY <1>7, <2>2 DEF NotifyOne, TypeOK
      <3> QED
        BY <1>7, <3>1, <3>2 DEF NotifyOne, Promise!vars
    <2> QED
      BY <2>1, <2>2
  <1>8. CASE NextRound
    <2>1. Covered = {}
      BY <1>8, EmptyCovers DEF NextRound
    <2>2. Promise!Rest
      BY <1>8, <2>1 DEF NextRound, Promise!Rest
    <2> QED
      BY <2>2 DEF Promise!Next
  <1>9. CASE WorkPanics
    <2>1. batch' = <<>>
      BY <1>9 DEF WorkPanics
    <2>2. Covered' = {}
      BY <2>1, EmptySeq DEF Contains
    <2>3. Promise!Die
      BY <1>9, <2>2 DEF WorkPanics, Promise!Die
    <2> QED
      BY <2>3 DEF Promise!Next
  <1>10. CASE UNCHANGED vars
    BY <1>10 DEF vars, Promise!vars
  <1> QED
    BY <1>1, <1>2, <1>3, <1>4, <1>5, <1>6, <1>7, <1>8, <1>9, <1>10 DEF Next, Task

(* A worker answers a call of trigger_and_wait only with a run that began    *)
(* after the call and has ended (worker.rs:30-37): it implements the promise.*)
THEOREM WorkerKeepsPromise == Spec => AnswersAreFresh
  <1>1. Init => Promise!Init
    BY InitKeepsPromise
  <1>2. TypeOK /\ SentInv /\ [Next]_vars => [Promise!Next]_(Promise!vars)
    BY NextKeepsPromise
  <1>3. Spec => [](TypeOK /\ SentInv)
    BY MessagesAreSentOnce, PTL DEF WorkerInv
  <1> QED
    BY <1>1, <1>2, <1>3, PTL DEF Spec, AnswersAreFresh, Promise!Spec
=============================================================================

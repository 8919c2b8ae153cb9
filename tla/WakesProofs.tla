---------------------------- MODULE WakesProofs ----------------------------
(***************************************************************************)
(* Theorems about modules Queues and Wakes, for every value of their       *)
(* constants.  First the queues alone; what is proved of them holds of the *)
(* queues with their wakes, since every step of module Wakes is a step of  *)
(* module Queues or hidden from it.                                        *)
(***************************************************************************)
EXTENDS Wakes, WellFoundedInduction, TLAPS

\* A nonempty set of bounded numbers has a largest member.
LEMMA LargestExists ==
  ASSUME NEW M \in Nat, NEW S \in SUBSET (0..M), S # {}
  PROVE  \E x \in S : \A y \in S : y <= x
<1> DEFINE T == {n \in 0..M : M - n \in S}
<1>0. PICK s : s \in S
  OBVIOUS
<1>1. T \subseteq Nat /\ T # {}
  <2>1. s \in 0..M
    BY <1>0
  <2>2. M - s \in 0..M /\ M - (M - s) = s
    BY <2>1
  <2> QED BY <1>0, <2>2
<1>2. \E x \in T : \A y \in T : ~(<<y, x>> \in OpToRel(<, Nat))
  BY <1>1, NatLessThanWellFounded, WFMin
<1>3. PICK x \in T : \A y \in T : ~(<<y, x>> \in OpToRel(<, Nat))
  BY <1>2
<1>4. \A y \in T : ~(y < x)
  BY <1>1, <1>3 DEF OpToRel
<1>5. ASSUME NEW y \in S PROVE y <= M - x
  <2>1. y \in 0..M
    OBVIOUS
  <2>2. M - y \in 0..M /\ M - (M - y) = y
    BY <2>1
  <2>3. ~(M - y < x)
    BY <2>2, <1>4
  <2>4. x \in 0..M
    OBVIOUS
  <2> QED BY <2>1, <2>3, <2>4
<1> QED BY <1>5, M - x \in S

\* Among the messages found in the files there is a latest one.
LEMMA LatestMessageIn ==
  ASSUME NEW q, NEW t, Messages(q, t) # {}
  PROVE  LatestMessage(q, t) \in Messages(q, t)
<1> DEFINE S == {e.seq : e \in Messages(q, t)}
<1>1. S \in SUBSET (0..MaxSeq) /\ S # {}
  <2>1. \A e \in Messages(q, t) : e.seq \in 0..MaxSeq
    BY DEF Messages
  <2> QED BY <2>1
<1>2. PICK x \in S : \A y \in S : y <= x
  BY <1>1, LargestExists, QueuesAssumption
<1>3. \E e \in Messages(q, t) : \A d \in Messages(q, t) : d.seq <= e.seq
  BY <1>2
<1> QED BY <1>3 DEF LatestMessage

\* The index entry of a target is well formed.
LEMMA LatestMessageType ==
  ASSUME NEW q, NEW t \in Targets
  PROVE  LatestMessage(q, t) \in Entries
<1>1. CASE Messages(q, t) = {}
  BY <1>1, QueuesAssumption DEF LatestMessage, NoEntry, Entries
<1>2. CASE Messages(q, t) # {}
  <2>1. LatestMessage(q, t) \in [seq : 1..MaxSeq, lt : Lts]
    BY <1>2, LatestMessageIn DEF Messages
  <2> QED BY <2>1, QueuesAssumption DEF Entries
<1> QED BY <1>1, <1>2

LEMMA ScanQueuesType ==
  ASSUME NEW q
  PROVE  ScanQueues(q) \in [Targets -> Entries]
BY LatestMessageType DEF ScanQueues

LEMMA MaxOfType ==
  ASSUME NEW m \in 0..MaxSeq, NEW n \in 0..MaxSeq
  PROVE  MaxOf(m, n) \in 0..MaxSeq
BY DEF MaxOf

LEMMA AdvanceDrainedType ==
  ASSUME TypeOK, NEW l \in Lts, NEW n \in 1..MaxSeq, AdvanceDrained(l, n)
  PROVE  drained' \in [Lts -> 0..MaxSeq]
<1>1. MaxOf(drained[l], n) \in 0..MaxSeq
  BY MaxOfType DEF TypeOK
<1> QED BY <1>1 DEF AdvanceDrained, TypeOK

LEMMA QueuePushType ==
  ASSUME TypeOK, NEW l \in Lts, NEW t \in Targets \cup {None}, QueuePush(l, t)
  PROVE  /\ queue' \in [Lts -> SUBSET Items]
         /\ qseq' \in 0..MaxSeq
         /\ msgSeqs' \in [Targets -> Entries]
<1>1. qseq' \in 0..MaxSeq /\ qseq + 1 \in 1..MaxSeq
  BY QueuesAssumption DEF TypeOK, QueuePush
<1>2. [seq |-> qseq + 1, target |-> t] \in Items
  BY <1>1 DEF Items
<1>3. queue' \in [Lts -> SUBSET Items]
  BY <1>2 DEF TypeOK, QueuePush, AppendFile
<1>4. [seq |-> qseq + 1, lt |-> l] \in Entries
  BY <1>1 DEF Entries
<1>5. msgSeqs' \in [Targets -> Entries]
  BY <1>4 DEF TypeOK, QueuePush
<1> QED BY <1>1, <1>3, <1>5

LEMMA BootType ==
  ASSUME TypeOK, NEW q, NEW tn, restarts < MaxRestarts, Boot(q, tn)
  PROVE  /\ qseq' \in 0..MaxSeq
         /\ msgSeqs' \in [Targets -> Entries]
         /\ restarts' \in 0..MaxRestarts
         /\ retiring' = {} /\ hooks' = {}
         /\ UNCHANGED <<registered, owner>>
BY ScanQueuesType, QueuesAssumption DEF Boot, TypeOK

LEMMA ServedType ==
  ASSUME TypeOK, NEW L, Serve(L)
  PROVE  served' \in [Lts -> SUBSET (1..MaxSeq)]
<1>1. \A l \in Lts : SeqsOf(PendingItems(l)) \subseteq 1..MaxSeq
  BY DEF TypeOK, SeqsOf, PendingItems, ReadQueue, Items
<1> QED BY <1>1 DEF Serve, TypeOK

LEMMA TypeInit == Init => TypeOK
BY QueuesAssumption DEF Init, TypeOK, Entries, NoEntry

LEMMA TypeStep == TypeOK /\ [Next]_queueVars => TypeOK'
<1> SUFFICES ASSUME TypeOK, [Next]_queueVars PROVE TypeOK'
  OBVIOUS
<1> USE QueuesAssumption DEF Callers
<1>1. CASE UNCHANGED queueVars
  BY <1>1 DEF TypeOK, queueVars
<1>2. ASSUME NEW l \in Lts, Produce(l) PROVE TypeOK'
  <2>1. ASSUME NEW t \in Targets, CaptainMessage(t, l) PROVE TypeOK'
    BY <2>1, QueuePushType DEF CaptainMessage, TypeOK, boardVars, cursorVars
  <2>2. ASSUME NEW c \in Cards, CardEvent(c, l) PROVE TypeOK'
    BY <2>2, QueuePushType DEF CardEvent, TypeOK, boardVars, cursorVars
  <2>3. ASSUME HookFailed(l) PROVE TypeOK'
    BY <2>3, QueuePushType DEF HookFailed, TypeOK, cursorVars
  <2> QED BY <1>2, <2>1, <2>2, <2>3 DEF Produce
<1>3. ASSUME NEW l \in Lts, Drain(l) PROVE TypeOK'
  <2>1. drained' \in [Lts -> 0..MaxSeq] /\ hand' \in [Callers -> 0..MaxSeq]
    BY <1>3, AdvanceDrainedType DEF Drain, TypeOK
  <2> QED BY <1>3, <2>1, ServedType DEF Drain, TypeOK, boardVars
<1>4. ASSUME NEW l \in Lts, CohabitantDrain(l) PROVE TypeOK'
  <2>1. drained' \in [Lts -> 0..MaxSeq]
    BY <1>4, AdvanceDrainedType DEF CohabitantDrain
  <2> QED BY <1>4, <2>1, ServedType DEF CohabitantDrain, TypeOK, boardVars
<1>5. ASSUME NEW l \in Lts, Forget(l) PROVE TypeOK'
  BY <1>5 DEF Forget, TypeOK, boardVars, cursorVars
<1>6. ASSUME NEW x \in Tools, ToolDrain(x) PROVE TypeOK'
  <2>1. hand' \in [Callers -> 0..MaxSeq]
    BY <1>6 DEF ToolDrain, TypeOK
  <2> QED BY <1>6, <2>1, ServedType DEF ToolDrain, TypeOK, boardVars, cursorVars
<1>7. ASSUME NEW x \in Callers, NEW l \in Lts, Ack(x, l) PROVE TypeOK'
  <2>1. ack' \in [Lts -> 0..MaxSeq]
    BY <1>7, MaxOfType DEF Ack, CommitAck, WriteAck, TypeOK
  <2>2. hand' \in [Callers -> 0..MaxSeq]
    BY <1>7 DEF Ack, TypeOK
  <2> QED BY <1>7, <2>1, <2>2 DEF Ack, TypeOK, boardVars
<1>8. ASSUME NEW c \in Cards, NEW l \in Lts, CreateCard(c, l) \/ ReassignCard(c, l)
      PROVE TypeOK'
  BY <1>8 DEF CreateCard, ReassignCard, BoardOnly, cursorVars, TypeOK
<1>9. ASSUME NEW c \in Cards, ArchiveCard(c) PROVE TypeOK'
  BY <1>9 DEF ArchiveCard, BoardOnly, cursorVars, TypeOK
<1>10. ASSUME NEW l \in Lts, RetireBegin(l) \/ Register(l) PROVE TypeOK'
  BY <1>10 DEF RetireBegin, Register, BoardOnly, cursorVars, TypeOK
<1>11. ASSUME NEW l \in Lts, RetireCommit(l) PROVE TypeOK'
  <2>1. msgSeqs' \in [Targets -> Entries]
    BY <1>11, ScanQueuesType DEF RetireCommit, Reindex
  <2>2. hand' \in [Callers -> 0..MaxSeq]
    BY <1>11 DEF RetireCommit, Killed, TypeOK
  <2>3. /\ ack' \in [Lts -> 0..MaxSeq] /\ drained' \in [Lts -> 0..MaxSeq]
        /\ served' \in [Lts -> SUBSET (1..MaxSeq)]
    BY <1>11 DEF RetireCommit, UnlinkCursors, TypeOK
  <2> QED BY <1>11, <2>1, <2>2, <2>3 DEF RetireCommit, TypeOK
<1>12. CASE Crash
  <2>0. restarts < MaxRestarts
    BY <1>12 DEF Crash
  <2>1. CASE Restart
    BY <2>0, <2>1, BootType DEF Restart, TypeOK, cursorVars
  <2>2. ASSUME NEW l \in Lts, CrashMidCursor(l) PROVE TypeOK'
    BY <2>0, <2>2, BootType DEF CrashMidCursor, TypeOK
  <2>3. ASSUME NEW l \in Lts, NEW t \in Targets, CrashMidAppend(t, l) PROVE TypeOK'
    BY <2>0, <2>3, BootType DEF CrashMidAppend, TypeOK, cursorVars
  <2>4. ASSUME NEW l \in Lts, NEW gone \in 0..2, CrashMidRetire(l, gone) PROVE TypeOK'
    <3>1. hand' \in [Callers -> 0..MaxSeq]
      BY <2>4 DEF CrashMidRetire, Killed, TypeOK
    <3>2. /\ ack' \in [Lts -> 0..MaxSeq] /\ drained' \in [Lts -> 0..MaxSeq]
          /\ served' \in [Lts -> SUBSET (1..MaxSeq)]
          /\ queue' \in [Lts -> SUBSET Items]
          /\ torn' \in [Lts -> BOOLEAN]
      BY <2>4 DEF CrashMidRetire, TypeOK
    <3>3. Boot(queue', torn')
      BY <2>4 DEF CrashMidRetire
    <3> QED BY <2>0, <3>1, <3>2, <3>3, BootType DEF TypeOK
  <2> QED BY <1>12, <2>1, <2>2, <2>3, <2>4 DEF Crash
<1> QED BY <1>1, <1>2, <1>3, <1>4, <1>5, <1>6, <1>7, <1>8, <1>9, <1>10, <1>11, <1>12
        DEF Next

\* The state keeps its shape through every action.
THEOREM TypeCorrect == Spec => []TypeOK
BY TypeInit, TypeStep, PTL DEF Spec

-----------------------------------------------------------------------------
(* Sequence numbers are unique and the counter is past them, whatever the   *)
(* callers, the crashes and the retires do.                                 *)

\* A step that keeps or shrinks what is readable and keeps the counter keeps
\* the numbers unique.
LEMMA FewerItems ==
  ASSUME SeqsUnique, qseq' = qseq, \A l \in Lts : ReadQueue(l)' \subseteq ReadQueue(l)
  PROVE  SeqsUnique'
BY DEF SeqsUnique

LEMMA PushKeepsUnique ==
  ASSUME TypeOK, SeqsUnique, NEW l \in Lts, NEW t \in Targets \cup {None},
         QueuePush(l, t), torn' = torn
  PROVE  SeqsUnique'
<1> DEFINE i == [seq |-> qseq + 1, target |-> t]
<1>1. qseq \in Nat /\ qseq' = qseq + 1
  BY QueuesAssumption DEF TypeOK, QueuePush
<1>2. \A m \in Lts : \A j \in ReadQueue(m)' : j \in ReadQueue(m) \/ (m = l /\ j = i)
  BY DEF QueuePush, AppendFile, TypeOK, ReadQueue
<1>3. \A m \in Lts : \A j \in ReadQueue(m) : j.seq \in Nat /\ j.seq <= qseq
  BY DEF SeqsUnique, TypeOK, ReadQueue, Items
<1>4. \A m \in Lts : \A j \in ReadQueue(m)' : j.seq <= qseq'
  BY <1>1, <1>2, <1>3
<1>5. ASSUME NEW m \in Lts, NEW n \in Lts, NEW j \in ReadQueue(m)', NEW k \in ReadQueue(n)',
             j.seq = k.seq
      PROVE  m = n /\ j = k
  <2>1. CASE j \in ReadQueue(m) /\ k \in ReadQueue(n)
    BY <2>1, <1>5 DEF SeqsUnique
  <2>2. CASE j \in ReadQueue(m) /\ n = l /\ k = i
    BY <2>2, <1>1, <1>3, <1>5
  <2>3. CASE m = l /\ j = i /\ k \in ReadQueue(n)
    BY <2>3, <1>1, <1>3, <1>5
  <2>4. CASE m = l /\ j = i /\ n = l /\ k = i
    BY <2>4
  <2> QED BY <1>2, <2>1, <2>2, <2>3, <2>4
<1> QED BY <1>4, <1>5 DEF SeqsUnique

\* A boot recovers a counter at or past every number it can read.
LEMMA BootKeepsUnique ==
  ASSUME SeqsUnique, Boot(queue', torn'),
         \A l \in Lts : ReadQueue(l)' \subseteq ReadQueue(l)
  PROVE  SeqsUnique'
<1>1. \A l \in Lts : ReadQueue(l)' = Readable(queue', torn')[l]
  BY DEF ReadQueue, Readable
<1>2. \A m \in UNION {SeqsOf(Readable(queue', torn')[l]) : l \in Lts} : m <= qseq'
  BY DEF Boot, RecoveredSeq, IsTop
<1>3. \A l \in Lts : \A i \in ReadQueue(l)' : i.seq <= qseq'
  BY <1>1, <1>2 DEF SeqsOf
<1> QED BY <1>3 DEF SeqsUnique

LEMMA UniqueStep == TypeOK /\ SeqsUnique /\ [Next]_queueVars => SeqsUnique'
<1> SUFFICES ASSUME TypeOK, SeqsUnique, [Next]_queueVars PROVE SeqsUnique'
  OBVIOUS
<1>1. CASE UNCHANGED <<queue, torn, qseq>>
  BY <1>1, FewerItems DEF ReadQueue
<1>2. ASSUME NEW l \in Lts, Produce(l) PROVE SeqsUnique'
  BY <1>2, PushKeepsUnique DEF Produce, CaptainMessage, CardEvent, HookFailed
<1>3. ASSUME NEW l \in Lts, RetireCommit(l) PROVE SeqsUnique'
  <2>1. \A m \in Lts : ReadQueue(m)' \subseteq ReadQueue(m)
    BY <1>3 DEF RetireCommit, ReadQueue, TypeOK
  <2> QED BY <1>3, <2>1, FewerItems DEF RetireCommit
<1>4. CASE Crash
  <2>1. CASE Restart
    <3>1. Boot(queue', torn') /\ queue' = queue /\ torn' = torn
      BY <2>1 DEF Restart
    <3> QED BY <3>1, BootKeepsUnique DEF ReadQueue
  <2>2. ASSUME NEW l \in Lts, CrashMidCursor(l) PROVE SeqsUnique'
    <3>1. Boot(queue', torn') /\ queue' = queue /\ torn' = torn
      BY <2>2 DEF CrashMidCursor
    <3> QED BY <3>1, BootKeepsUnique DEF ReadQueue
  <2>3. ASSUME NEW l \in Lts, NEW t \in Targets, CrashMidAppend(t, l) PROVE SeqsUnique'
    <3>1. Boot(queue', torn') /\ queue' = queue /\ torn' = [torn EXCEPT ![l] = TRUE]
      BY <2>3 DEF CrashMidAppend
    <3>2. \A m \in Lts : ReadQueue(m)' \subseteq ReadQueue(m)
      BY <3>1 DEF ReadQueue, TypeOK
    <3> QED BY <3>1, <3>2, BootKeepsUnique
  <2>4. ASSUME NEW l \in Lts, NEW gone \in 0..2, CrashMidRetire(l, gone) PROVE SeqsUnique'
    <3>1. /\ Boot(queue', torn')
          /\ queue' = [queue EXCEPT ![l] = {}] /\ torn' = [torn EXCEPT ![l] = FALSE]
      BY <2>4 DEF CrashMidRetire
    <3>2. \A m \in Lts : ReadQueue(m)' \subseteq ReadQueue(m)
      BY <3>1 DEF ReadQueue, TypeOK
    <3> QED BY <3>1, <3>2, BootKeepsUnique
  <2> QED BY <1>4, <2>1, <2>2, <2>3, <2>4 DEF Crash
<1>5. [Next]_queueVars =>
        \/ UNCHANGED <<queue, torn, qseq>>
        \/ \E l \in Lts : Produce(l) \/ RetireCommit(l)
        \/ Crash
  BY DEF Next, queueVars, Drain, CohabitantDrain, Forget, ToolDrain, Ack, CreateCard,
         ReassignCard, ArchiveCard, RetireBegin, Register, BoardOnly, CommitAck
<1> QED BY <1>1, <1>2, <1>3, <1>4, <1>5

\* A sequence number names one item of one queue, through any crash, retire or
\* unidentified caller: an ack can only ever reach the item it was given for.
THEOREM NumbersUnique == Spec => []SeqsUnique
<1>1. Init => SeqsUnique
  BY DEF Init, SeqsUnique, ReadQueue
<1>2. TypeOK /\ SeqsUnique /\ [Next]_queueVars => SeqsUnique'
  BY UniqueStep
<1> QED BY <1>1, <1>2, TypeCorrect, PTL DEF Spec

-----------------------------------------------------------------------------
(* Nothing is consumed unserved. The invariant is not inductive by itself:   *)
(* the cursors and what an agent holds must name items still in the queue,   *)
(* or a number recovered at a boot could fall at or below them, and whatever *)
(* lies below what an agent holds must have been served.                     *)

\* The environment of these theorems: identified callers, kills that work, and
\* crashes between operations or inside a cursor write.
Orderly == Tools = {} /\ KillMayFail = FALSE /\ CrashPoints \subseteq {"midCursor"}

Anchored(n, l) == n \in SeqsOf(queue[l]) \cup {0}

ConsumptionInv ==
  /\ TypeOK
  /\ SeqsUnique
  /\ torn = [l \in Lts |-> FALSE]
  /\ \A l \in Lts : Anchored(ack[l], l) /\ Anchored(hand[l], l)
  /\ \A l \in Lts : \A i \in queue[l] :
       i.seq <= ack[l] \/ i.seq <= hand[l] => i.seq \in served[l]

LEMMA ConsumptionInit == Init => ConsumptionInv
<1>1. Init => TypeOK /\ SeqsUnique
  BY TypeInit DEF Init, SeqsUnique, ReadQueue
<1> QED BY <1>1 DEF Init, ConsumptionInv, Anchored, Callers

LEMMA ConsumptionImplies == ConsumptionInv => OnlyServedIsSettled
BY DEF ConsumptionInv, OnlyServedIsSettled, ReadQueue

\* What holds of every queue when the inductive invariant does.
LEMMA BelowCounter ==
  ASSUME ConsumptionInv, NEW l \in Lts
  PROVE  /\ ReadQueue(l) = queue[l]
         /\ \A i \in queue[l] : i.seq \in Nat /\ i.seq <= qseq
         /\ ack[l] \in Nat /\ ack[l] <= qseq
         /\ hand[l] \in Nat /\ hand[l] <= qseq
         /\ qseq \in Nat
<1>1. ReadQueue(l) = queue[l]
  BY DEF ConsumptionInv, ReadQueue
<1>2. qseq \in Nat
  BY QueuesAssumption DEF ConsumptionInv, TypeOK
<1>3. \A i \in queue[l] : i.seq \in Nat /\ i.seq <= qseq
  BY <1>1 DEF ConsumptionInv, SeqsUnique, TypeOK, Items
<1>4. ack[l] \in Nat /\ ack[l] <= qseq /\ hand[l] \in Nat /\ hand[l] <= qseq
  BY <1>2, <1>3 DEF ConsumptionInv, Anchored, SeqsOf
<1> QED BY <1>1, <1>2, <1>3, <1>4

LEMMA PushConsumption ==
  ASSUME ConsumptionInv, NEW l \in Lts, NEW t \in Targets \cup {None}, QueuePush(l, t),
         UNCHANGED <<torn, ack, hand, served>>, TypeOK', SeqsUnique'
  PROVE  ConsumptionInv'
<1> DEFINE i == [seq |-> qseq + 1, target |-> t]
<1>1. queue' = [queue EXCEPT ![l] = @ \cup {i}]
  BY DEF QueuePush, AppendFile
<1>2. \A m \in Lts : queue[m] \subseteq queue'[m] /\ queue'[m] \subseteq queue[m] \cup {i}
  BY <1>1 DEF ConsumptionInv, TypeOK
<1>3. \A m \in Lts : Anchored(ack[m], m)' /\ Anchored(hand[m], m)'
  BY <1>2 DEF ConsumptionInv, Anchored, SeqsOf
<1>4. ASSUME NEW m \in Lts, NEW j \in queue'[m], j.seq <= ack[m] \/ j.seq <= hand[m]
      PROVE  j.seq \in served[m]
  <2>1. CASE j \in queue[m]
    BY <1>4, <2>1 DEF ConsumptionInv
  <2>2. CASE j = i
    BY <1>4, <2>2, BelowCounter
  <2> QED BY <1>2, <2>1, <2>2
<1> QED BY <1>3, <1>4 DEF ConsumptionInv

\* A drain serves everything up to the number it hands out.
LEMMA DrainConsumption ==
  ASSUME ConsumptionInv, NEW l \in Lts, Serve({l}), UNCHANGED <<queue, torn, ack>>,
         \/ UNCHANGED hand
         \/ \E n \in 1..MaxSeq : ServesUpTo(l, n) /\ hand' = [hand EXCEPT ![l] = n],
         TypeOK', SeqsUnique'
  PROVE  ConsumptionInv'
<1>1. \A m \in Lts : served[m] \subseteq served'[m]
  BY DEF Serve
<1>2. CASE UNCHANGED hand
  BY <1>1, <1>2 DEF ConsumptionInv, Anchored
<1>3. ASSUME NEW n \in 1..MaxSeq, ServesUpTo(l, n), hand' = [hand EXCEPT ![l] = n]
      PROVE  ConsumptionInv'
  <2>1. hand'[l] = n /\ \A m \in Lts : m # l => hand'[m] = hand[m]
    BY <1>3 DEF ConsumptionInv, TypeOK, Callers
  <2>2. n \in SeqsOf(queue[l]) \cup {0}
    BY <1>3, BelowCounter DEF ServesUpTo, IsTop, SeqsOf, PendingItems
  <2>3. \A m \in Lts : Anchored(ack[m], m)' /\ Anchored(hand[m], m)'
    BY <2>1, <2>2 DEF ConsumptionInv, Anchored
  <2>4. ASSUME NEW i \in queue[l] PROVE i.seq \in served'[l]
    <3>1. CASE i.seq <= ack[l]
      BY <1>1, <3>1 DEF ConsumptionInv
    <3>2. CASE i.seq > ack[l]
      BY <3>2, BelowCounter DEF Serve, PendingItems, SeqsOf
    <3> QED BY <3>1, <3>2, BelowCounter
  <2>5. ASSUME NEW m \in Lts, NEW i \in queue[m], i.seq <= ack[m] \/ i.seq <= hand'[m]
        PROVE  i.seq \in served'[m]
    BY <1>1, <2>1, <2>4, <2>5 DEF ConsumptionInv
  <2> QED BY <2>3, <2>5 DEF ConsumptionInv
<1> QED BY <1>2, <1>3

LEMMA AckConsumption ==
  ASSUME ConsumptionInv, Orderly, NEW x \in Callers, NEW l \in Lts, Ack(x, l),
         TypeOK', SeqsUnique'
  PROVE  ConsumptionInv'
<1>1. x = l
  BY DEF Orderly, Ack, CommitAck
<1>2. hand[l] \in SeqsOf(queue[l])
  BY <1>1, BelowCounter DEF Ack, CommitAck
<1>3. /\ ack' = [ack EXCEPT ![l] = MaxOf(@, hand[l])] /\ hand' = [hand EXCEPT ![l] = 0]
      /\ UNCHANGED <<queue, torn, served>>
  BY <1>1 DEF Ack, CommitAck, WriteAck
<1>4. /\ ack'[l] = ack[l] \/ ack'[l] = hand[l]
      /\ hand'[l] = 0
      /\ \A m \in Lts : m # l => ack'[m] = ack[m] /\ hand'[m] = hand[m]
  BY <1>3 DEF ConsumptionInv, TypeOK, MaxOf, Callers
<1>5. \A m \in Lts : Anchored(ack[m], m)' /\ Anchored(hand[m], m)'
  BY <1>2, <1>3, <1>4 DEF ConsumptionInv, Anchored
<1>6. ASSUME NEW m \in Lts, NEW i \in queue[m], i.seq <= ack'[m] \/ i.seq <= hand'[m]
      PROVE  i.seq \in served[m]
  <2>1. i.seq \in Nat /\ i.seq # 0
    BY QueuesAssumption DEF ConsumptionInv, TypeOK, Items
  <2>2. i.seq <= ack[m] \/ i.seq <= hand[m]
    BY <1>4, <1>6, <2>1
  <2> QED BY <2>2 DEF ConsumptionInv
<1> QED BY <1>3, <1>5, <1>6 DEF ConsumptionInv

\* Steps that forget: the cursor or the agent's memory falls back to zero.
LEMMA ForgetConsumption ==
  ASSUME ConsumptionInv, UNCHANGED <<queue, torn, served>>,
         \A l \in Lts : ack'[l] \in {0, ack[l]} /\ hand'[l] \in {0, hand[l]},
         TypeOK', SeqsUnique'
  PROVE  ConsumptionInv'
<1>1. \A l \in Lts : Anchored(ack[l], l)' /\ Anchored(hand[l], l)'
  BY DEF ConsumptionInv, Anchored
<1>2. ASSUME NEW m \in Lts, NEW i \in queue[m], i.seq <= ack'[m] \/ i.seq <= hand'[m]
      PROVE  i.seq \in served[m]
  <2>1. i.seq \in Nat /\ i.seq # 0
    BY QueuesAssumption DEF ConsumptionInv, TypeOK, Items
  <2>2. i.seq <= ack[m] \/ i.seq <= hand[m]
    BY <1>2, <2>1
  <2> QED BY <2>2 DEF ConsumptionInv
<1> QED BY <1>1, <1>2 DEF ConsumptionInv

\* A retire takes the queue, both cursors and the agent together.
LEMMA RetireConsumption ==
  ASSUME ConsumptionInv, Orderly, NEW l \in Lts, RetireCommit(l), TypeOK', SeqsUnique'
  PROVE  ConsumptionInv'
<1>1. /\ queue' = [queue EXCEPT ![l] = {}] /\ torn' = [torn EXCEPT ![l] = FALSE]
      /\ ack' = [ack EXCEPT ![l] = 0] /\ hand' = [hand EXCEPT ![l] = 0]
      /\ served' = [served EXCEPT ![l] = {}]
  BY DEF RetireCommit, UnlinkCursors, Killed, Orderly
<1>2. /\ queue'[l] = {} /\ ack'[l] = 0 /\ hand'[l] = 0
      /\ \A m \in Lts : m # l => /\ queue'[m] = queue[m] /\ ack'[m] = ack[m]
                                 /\ hand'[m] = hand[m] /\ served'[m] = served[m]
      /\ torn' = [m \in Lts |-> FALSE]
  BY <1>1 DEF ConsumptionInv, TypeOK, Callers
<1>3. \A m \in Lts : Anchored(ack[m], m)' /\ Anchored(hand[m], m)'
  BY <1>2 DEF ConsumptionInv, Anchored
<1> QED BY <1>2, <1>3 DEF ConsumptionInv

LEMMA ConsumptionStep ==
  ASSUME Orderly, ConsumptionInv, [Next]_queueVars
  PROVE  ConsumptionInv'
<1>1. TypeOK' /\ SeqsUnique'
  BY TypeStep, UniqueStep DEF ConsumptionInv
<1>2. CASE UNCHANGED <<queue, torn, ack, hand, served>>
  BY <1>1, <1>2, ForgetConsumption
<1>3. ASSUME NEW l \in Lts, Produce(l) PROVE ConsumptionInv'
  BY <1>1, <1>3, PushConsumption
     DEF Produce, CaptainMessage, CardEvent, HookFailed, cursorVars
<1>4. ASSUME NEW l \in Lts, Drain(l) \/ CohabitantDrain(l) PROVE ConsumptionInv'
  BY <1>1, <1>4, DrainConsumption DEF Drain, CohabitantDrain
<1>5. ASSUME NEW l \in Lts, Forget(l) PROVE ConsumptionInv'
  BY <1>1, <1>5, ForgetConsumption DEF Forget, cursorVars, ConsumptionInv, TypeOK, Callers
<1>6. ASSUME NEW x \in Callers, NEW l \in Lts, Ack(x, l) PROVE ConsumptionInv'
  BY <1>1, <1>6, AckConsumption
<1>7. ASSUME NEW l \in Lts, RetireCommit(l) PROVE ConsumptionInv'
  BY <1>1, <1>7, RetireConsumption
<1>8. CASE Crash
  <2>1. CASE Restart
    BY <1>1, <2>1, ForgetConsumption DEF Restart, cursorVars
  <2>2. ASSUME NEW l \in Lts, CrashMidCursor(l) PROVE ConsumptionInv'
    BY <1>1, <2>2, ForgetConsumption DEF CrashMidCursor, ConsumptionInv, TypeOK
  <2> QED BY <1>8, <2>1, <2>2 DEF Crash, Orderly, CrashMidAppend, CrashMidRetire
<1>9. [Next]_queueVars =>
        \/ UNCHANGED <<queue, torn, ack, hand, served>>
        \/ \E l \in Lts : \/ Produce(l) \/ Drain(l) \/ CohabitantDrain(l)
                          \/ Forget(l) \/ RetireCommit(l)
        \/ \E x \in Callers, l \in Lts : Ack(x, l)
        \/ Crash
  BY DEF Next, Orderly, queueVars, CreateCard, ReassignCard, ArchiveCard, RetireBegin,
         Register, BoardOnly, cursorVars
<1> QED BY <1>2, <1>3, <1>4, <1>5, <1>6, <1>7, <1>8, <1>9

\* No item is consumed before a drain served it: through every interleaving of
\* pushes, drains, acks, retires, restarts and cursor files lost to a crash.
THEOREM NothingConsumedUnserved == Orderly => (Spec => []OnlyServedIsSettled)
<1> SUFFICES ASSUME Orderly PROVE Spec => []OnlyServedIsSettled
  OBVIOUS
<1>1. Init => ConsumptionInv
  BY ConsumptionInit
<1>2. ConsumptionInv /\ [Next]_queueVars => ConsumptionInv'
  BY ConsumptionStep
<1>3. ConsumptionInv => OnlyServedIsSettled
  BY ConsumptionImplies
<1> QED BY <1>1, <1>2, <1>3, PTL DEF Spec

\* What is pending stays on offer until it is acked or its lieutenant retires.
THEOREM PendingIsKept == Orderly => (Spec => PendingKept)
<1> SUFFICES ASSUME Orderly PROVE Spec => PendingKept
  OBVIOUS
<1> DEFINE Kept == \A l \in Lts : \A i \in PendingItems(l) :
              i \in PendingItems(l)' \/ i.seq <= ack'[l] \/ l \in retiring \ retiring'
<1>1. ASSUME ConsumptionInv, [Next]_queueVars PROVE Kept
  <2> SUFFICES ASSUME NEW l \in Lts, NEW i \in PendingItems(l), l \notin retiring \ retiring'
               PROVE  i \in queue'[l] /\ torn'[l] = FALSE
                         /\ (i.seq <= ack'[l] \/ i.seq > ack'[l])
    BY DEF PendingItems, ReadQueue
  <2>1. i \in queue[l] /\ torn[l] = FALSE
    BY DEF ConsumptionInv, PendingItems, ReadQueue
  <2>2. ConsumptionInv'
    BY <1>1, ConsumptionStep
  <2>3. torn'[l] = FALSE /\ ack'[l] \in Nat
    BY <2>2, QueuesAssumption DEF ConsumptionInv, TypeOK
  <2>4. i \in queue'[l]
    <3>1. CASE UNCHANGED queue
      BY <2>1, <3>1
    <3>2. ASSUME NEW m \in Lts, Produce(m) PROVE i \in queue'[l]
      <4>1. PICK j : queue' = [queue EXCEPT ![m] = @ \cup {j}]
        BY <3>2 DEF Produce, CaptainMessage, CardEvent, HookFailed, QueuePush, AppendFile
      <4> QED BY <1>1, <2>1, <4>1 DEF ConsumptionInv, TypeOK
    <3>3. ASSUME NEW m \in Lts, RetireCommit(m) PROVE i \in queue'[l]
      BY <2>1, <3>3 DEF RetireCommit, ConsumptionInv, TypeOK
    <3>4. CASE Crash
      BY <2>1, <3>4 DEF Crash, Restart, CrashMidCursor, CrashMidAppend, CrashMidRetire, Orderly
    <3>5. UNCHANGED queue \/ (\E m \in Lts : Produce(m) \/ RetireCommit(m)) \/ Crash
      BY <1>1 DEF Next, Orderly, queueVars, Drain, CohabitantDrain, Forget, Ack, CreateCard,
                  ReassignCard, ArchiveCard, RetireBegin, Register, BoardOnly
    <3> QED BY <3>1, <3>2, <3>3, <3>4, <3>5
  <2>5. i.seq \in Nat
    BY <1>1, <2>1, BelowCounter
  <2> QED BY <2>3, <2>4, <2>5
<1>2. Init => ConsumptionInv
  BY ConsumptionInit
<1>3. ConsumptionInv /\ [Next]_queueVars => ConsumptionInv'
  BY ConsumptionStep
<1>4. ConsumptionInv /\ [Next]_queueVars => [Kept]_queueVars
  BY <1>1
<1> QED BY <1>2, <1>3, <1>4, PTL DEF Spec, PendingKept
-----------------------------------------------------------------------------
(* The index agrees with the files. A torn file reads as empty and takes      *)
(* pushes all the same, so the theorem asks for appends that are never torn.  *)

WholeAppends == "midAppend" \notin CrashPoints

IndexInv ==
  /\ TypeOK
  /\ SeqsUnique
  /\ torn = [l \in Lts |-> FALSE]
  /\ IndexAgreesWithFiles

LEMMA ReadableIsQueue ==
  ASSUME TypeOK, torn = [l \in Lts |-> FALSE]
  PROVE  Readable(queue, torn) = queue /\ \A l \in Lts : ReadQueue(l) = queue[l]
BY DEF Readable, ReadQueue, TypeOK

\* A message above all others of its target is what the scan finds.
LEMMA LatestIsTop ==
  ASSUME NEW q, NEW t, NEW e \in Messages(q, t),
         \A d \in Messages(q, t) : d # e => d.seq < e.seq
  PROVE  LatestMessage(q, t) = e
<1> DEFINE M == Messages(q, t)
<1>1. \A d \in M : d.seq \in 1..MaxSeq
  BY DEF Messages
<1>2. \A d \in M : d.seq \in Nat
  BY <1>1
<1>3. \A d \in M : d.seq <= e.seq
  BY <1>2
<1>4. \A f \in M : (\A d \in M : d.seq <= f.seq) => f = e
  BY <1>2
<1>5. LatestMessage(q, t) = CHOOSE f \in M : \A d \in M : d.seq <= f.seq
  BY DEF LatestMessage
<1> QED BY <1>3, <1>4, <1>5

\* The scan of a target depends on nothing but its messages.
LEMMA SameMessages ==
  ASSUME NEW q, NEW r, NEW t, Messages(q, t) = Messages(r, t)
  PROVE  LatestMessage(q, t) = LatestMessage(r, t)
BY DEF LatestMessage

LEMMA PushKeepsIndex ==
  ASSUME IndexInv, NEW l \in Lts, NEW t \in Targets \cup {None}, QueuePush(l, t),
         UNCHANGED torn, TypeOK', SeqsUnique'
  PROVE  IndexInv'
<1> DEFINE n == qseq + 1
           i == [seq |-> n, target |-> t]
           e == [seq |-> n, lt |-> l]
<1>1. qseq \in Nat /\ n \in 1..MaxSeq
  BY QueuesAssumption DEF IndexInv, TypeOK, QueuePush
<1>2. queue' = [queue EXCEPT ![l] = @ \cup {i}] /\ queue \in [Lts -> SUBSET Items]
  BY DEF QueuePush, AppendFile, IndexInv, TypeOK
<1>3. \A m \in Lts : \A j \in queue[m] : j.seq \in Nat /\ j.seq <= qseq
  BY ReadableIsQueue DEF IndexInv, SeqsUnique, TypeOK, Items
<1>4. ASSUME NEW u \in Targets, u # t PROVE Messages(queue', u) = Messages(queue, u)
  BY <1>2, <1>4 DEF Messages
<1>5. ASSUME t \in Targets
      PROVE  LatestMessage(queue', t) = e /\ n > LatestMessage(queue, t).seq
  <2>1. \A d \in Messages(queue, t) : d.seq \in Nat /\ d.seq <= qseq
    BY <1>3 DEF Messages
  <2>2. e \in [seq : 1..MaxSeq, lt : Lts]
    BY <1>1
  <2>3. Messages(queue', t) = Messages(queue, t) \cup {e}
    <3>1. ASSUME NEW d \in [seq : 1..MaxSeq, lt : Lts]
          PROVE  [seq |-> d.seq, target |-> t] \in queue'[d.lt]
                   <=> [seq |-> d.seq, target |-> t] \in queue[d.lt] \/ d = e
      <4>1. CASE d.lt = l
        <5>1. queue'[d.lt] = queue[d.lt] \cup {i}
          BY <1>2, <4>1
        <5>2. d = e <=> d.seq = n
          BY <4>1
        <5>3. [seq |-> d.seq, target |-> t] = i <=> d.seq = n
          OBVIOUS
        <5> QED BY <5>1, <5>2, <5>3
      <4>2. CASE d.lt # l
        BY <1>2, <4>2
      <4> QED BY <4>1, <4>2
    <3> QED BY <2>2, <3>1 DEF Messages
  <2>4. \A d \in Messages(queue', t) : d # e => d.seq < e.seq
    BY <1>1, <2>1, <2>3
  <2>5. LatestMessage(queue', t) = e
    BY <2>3, <2>4, LatestIsTop
  <2>6. n > LatestMessage(queue, t).seq
    <3>1. CASE Messages(queue, t) = {}
      BY <1>1, <3>1 DEF LatestMessage, NoEntry
    <3>2. CASE Messages(queue, t) # {}
      <4>1. LatestMessage(queue, t) \in Messages(queue, t)
        BY <3>2, LatestMessageIn
      <4> QED BY <1>1, <2>1, <4>1
    <3> QED BY <3>1, <3>2
  <2> QED BY <2>5, <2>6
<1>6. msgSeqs = [u \in Targets |-> LatestMessage(queue, u)]
  BY ReadableIsQueue DEF IndexInv, IndexAgreesWithFiles, ScanQueues
<1>7. msgSeqs' = [u \in Targets |-> LatestMessage(queue', u)]
  <2>1. CASE t = None
    <3>1. msgSeqs' = msgSeqs
      BY <2>1 DEF QueuePush
    <3>2. \A u \in Targets : LatestMessage(queue', u) = LatestMessage(queue, u)
      BY <1>4, <2>1, SameMessages, QueuesAssumption
    <3> QED BY <1>6, <3>1, <3>2
  <2>2. CASE t \in Targets
    <3>1. msgSeqs' = [msgSeqs EXCEPT ![t] = e]
      BY <1>5, <1>6, <2>2, QueuesAssumption DEF QueuePush
    <3>2. \A u \in Targets : u # t => LatestMessage(queue', u) = LatestMessage(queue, u)
      BY <1>4, SameMessages
    <3> QED BY <1>5, <1>6, <2>2, <3>1, <3>2
  <2> QED BY <2>1, <2>2
<1>8. Readable(queue', torn') = queue'
  BY DEF Readable, IndexInv, TypeOK
<1> QED BY <1>7, <1>8 DEF IndexInv, IndexAgreesWithFiles, ScanQueues

LEMMA IndexStep ==
  ASSUME WholeAppends, IndexInv, [Next]_queueVars
  PROVE  IndexInv'
<1>1. TypeOK' /\ SeqsUnique'
  BY TypeStep, UniqueStep DEF IndexInv
<1>2. CASE UNCHANGED <<queue, torn, msgSeqs>>
  BY <1>1, <1>2 DEF IndexInv, IndexAgreesWithFiles
<1>3. ASSUME NEW l \in Lts, Produce(l) PROVE IndexInv'
  BY <1>1, <1>3, PushKeepsIndex DEF Produce, CaptainMessage, CardEvent, HookFailed
<1>4. ASSUME NEW l \in Lts, RetireCommit(l) PROVE IndexInv'
  BY <1>1, <1>4 DEF RetireCommit, Reindex, IndexInv, IndexAgreesWithFiles
<1>5. CASE Crash
  BY <1>1, <1>5 DEF Crash, Restart, CrashMidCursor, CrashMidAppend, CrashMidRetire, Boot,
                   WholeAppends, IndexInv, IndexAgreesWithFiles
<1>6. [Next]_queueVars =>
        \/ UNCHANGED <<queue, torn, msgSeqs>>
        \/ \E l \in Lts : Produce(l) \/ RetireCommit(l)
        \/ Crash
  BY DEF Next, queueVars, Drain, CohabitantDrain, Forget, ToolDrain, Ack, CreateCard,
         ReassignCard, ArchiveCard, RetireBegin, Register, BoardOnly, CommitAck
<1> QED BY <1>2, <1>3, <1>4, <1>5, <1>6

\* The in-memory index that answers "owed" and "queued" is what a re-read of all
\* the queue files would give, after any pushes, retires and restarts.
THEOREM IndexIsHonest == WholeAppends => (Spec => []IndexAgreesWithFiles)
<1> SUFFICES ASSUME WholeAppends PROVE Spec => []IndexAgreesWithFiles
  OBVIOUS
<1>1. Init => IndexInv
  <2>1. Init => TypeOK /\ SeqsUnique
    BY TypeInit DEF Init, SeqsUnique, ReadQueue
  <2>2. Init => IndexAgreesWithFiles
    BY DEF Init, IndexAgreesWithFiles, ScanQueues, Readable, LatestMessage, Messages
  <2> QED BY <2>1, <2>2 DEF Init, IndexInv
<1>2. IndexInv /\ [Next]_queueVars => IndexInv'
  BY IndexStep
<1>3. IndexInv => IndexAgreesWithFiles
  BY DEF IndexInv
<1> QED BY <1>1, <1>2, <1>3, PTL DEF Spec
-----------------------------------------------------------------------------
(* The queues implement AtLeastOnce. What drains have served lies in the     *)
(* queue, so that an item is appended unserved.                              *)

PromiseInv ==
  /\ ConsumptionInv
  /\ \A l \in Lts : served[l] \subseteq SeqsOf(queue[l])

\* What one queue contributes to the state of the promise.
ServedItems(l) == {i \in ReadQueue(l) : i.seq \in served[l]}
SettledItems(l) == ReadQueue(l) \ PendingItems(l)
Pendings == UNION {DeliveriesOf(l, PendingItems(l)) : l \in Lts}
Offereds == UNION {DeliveriesOf(l, ServedItems(l)) : l \in Lts}
Settleds == UNION {DeliveriesOf(l, SettledItems(l)) : l \in Lts}

\* A delivery is in a union when its item is in its lieutenant's part of it.
LEMMA MembersNow ==
  ASSUME NEW d
  PROVE  /\ d \in Pendings <=> \E l \in Lts : \E i \in PendingItems(l) : d = [lt |-> l, item |-> i]
         /\ d \in Offereds <=> \E l \in Lts : \E i \in ServedItems(l) : d = [lt |-> l, item |-> i]
         /\ d \in Settleds <=> \E l \in Lts : \E i \in SettledItems(l) : d = [lt |-> l, item |-> i]
BY DEF Pendings, Offereds, Settleds, DeliveriesOf

LEMMA MembersNext ==
  ASSUME NEW d
  PROVE  /\ d \in Pendings' <=> \E l \in Lts : \E i \in PendingItems(l)' : d = [lt |-> l, item |-> i]
         /\ d \in Offereds' <=> \E l \in Lts : \E i \in ServedItems(l)' : d = [lt |-> l, item |-> i]
         /\ d \in Settleds' <=> \E l \in Lts : \E i \in SettledItems(l)' : d = [lt |-> l, item |-> i]
BY DEF Pendings, Offereds, Settleds, DeliveriesOf

\* Queues whose parts stay contribute the same.
LEMMA SameParts ==
  /\ (\A l \in Lts : PendingItems(l)' = PendingItems(l)) => Pendings' = Pendings
  /\ (\A l \in Lts : ServedItems(l)' = ServedItems(l)) => Offereds' = Offereds
  /\ (\A l \in Lts : SettledItems(l)' = SettledItems(l)) => Settleds' = Settleds
<1>1. ASSUME \A l \in Lts : PendingItems(l)' = PendingItems(l) PROVE Pendings' = Pendings
  <2>1. \A d : d \in Pendings' <=> d \in Pendings
    BY <1>1, MembersNow, MembersNext
  <2> QED BY <2>1
<1>2. ASSUME \A l \in Lts : ServedItems(l)' = ServedItems(l) PROVE Offereds' = Offereds
  <2>1. \A d : d \in Offereds' <=> d \in Offereds
    BY <1>2, MembersNow, MembersNext
  <2> QED BY <2>1
<1>3. ASSUME \A l \in Lts : SettledItems(l)' = SettledItems(l) PROVE Settleds' = Settleds
  <2>1. \A d : d \in Settleds' <=> d \in Settleds
    BY <1>3, MembersNow, MembersNext
  <2> QED BY <2>1
<1> QED BY <1>1, <1>2, <1>3

LEMMA SameFiles ==
  ASSUME UNCHANGED <<queue, torn, ack, served>>
  PROVE  UNCHANGED <<Pendings, Offereds, Settleds>>
<1>1. \A l \in Lts : /\ PendingItems(l)' = PendingItems(l)
                     /\ ServedItems(l)' = ServedItems(l)
                     /\ SettledItems(l)' = SettledItems(l)
  BY DEF PendingItems, ServedItems, SettledItems, ReadQueue
<1> QED BY <1>1, SameParts

\* The parts of a queue whose file is whole.
LEMMA PartsOf ==
  ASSUME ConsumptionInv, NEW l \in Lts
  PROVE  /\ PendingItems(l) = {i \in queue[l] : i.seq > ack[l]}
         /\ SettledItems(l) = {i \in queue[l] : i.seq <= ack[l]}
         /\ ServedItems(l) = {i \in queue[l] : i.seq \in served[l]}
<1>1. ReadQueue(l) = queue[l] /\ ack[l] \in Nat /\ \A i \in queue[l] : i.seq \in Nat
  BY BelowCounter
<1> QED BY <1>1 DEF PendingItems, SettledItems, ServedItems

LEMMA PromiseInit == Init => PromiseInv /\ Promise!Init
<1> SUFFICES ASSUME Init PROVE PromiseInv /\ Promise!Init
  OBVIOUS
<1>1. \A l \in Lts : queue[l] = {} /\ served[l] = {} /\ torn[l] = FALSE
  BY DEF Init
<1>2. PromiseInv
  BY <1>1, ConsumptionInit DEF PromiseInv
<1>3. \A l \in Lts : ReadQueue(l) = {}
  BY <1>1 DEF ReadQueue
<1>4. Pendings = {} /\ Offereds = {} /\ Settleds = {}
  BY <1>3 DEF Pendings, Offereds, Settleds, DeliveriesOf, PendingItems, ServedItems, SettledItems
<1> QED BY <1>2, <1>4 DEF Promise!Init, Pendings, Offereds, Settleds, ServedItems, SettledItems

\* What a drain serves is in the queue, what a push adds stays, a retire takes both.
LEMMA PromiseInvStep ==
  ASSUME Orderly, PromiseInv, [Next]_queueVars
  PROVE  PromiseInv'
<1>1. ConsumptionInv'
  BY ConsumptionStep DEF PromiseInv
<1> DEFINE Held == \A l \in Lts : served'[l] \subseteq SeqsOf(queue'[l])
<1>2. CASE UNCHANGED <<queue, served>>
  BY <1>1, <1>2 DEF PromiseInv
<1>3. ASSUME NEW l \in Lts, Produce(l) PROVE Held
  <2>1. PICK j : queue' = [queue EXCEPT ![l] = @ \cup {j}]
    BY <1>3 DEF Produce, CaptainMessage, CardEvent, HookFailed, QueuePush, AppendFile
  <2>2. served' = served
    BY <1>3 DEF Produce, CaptainMessage, CardEvent, HookFailed
  <2>3. \A m \in Lts : queue[m] \subseteq queue'[m]
    BY <2>1 DEF PromiseInv, ConsumptionInv, TypeOK
  <2> QED BY <2>2, <2>3 DEF PromiseInv, SeqsOf
<1>4. ASSUME NEW l \in Lts, Drain(l) \/ CohabitantDrain(l) PROVE Held
  <2>1. Serve({l}) /\ queue' = queue
    BY <1>4 DEF Drain, CohabitantDrain
  <2>2. \A m \in Lts : PendingItems(m) \subseteq queue[m]
    BY DEF PendingItems, ReadQueue
  <2> QED BY <2>1, <2>2 DEF PromiseInv, Serve, SeqsOf
<1>5. ASSUME NEW l \in Lts, RetireCommit(l) PROVE Held
  BY <1>5 DEF RetireCommit, PromiseInv, ConsumptionInv, TypeOK
<1>6. [Next]_queueVars =>
        \/ UNCHANGED <<queue, served>>
        \/ \E l \in Lts : Produce(l) \/ Drain(l) \/ CohabitantDrain(l) \/ RetireCommit(l)
  BY DEF Next, Orderly, queueVars, Forget, Ack, CreateCard, ReassignCard, ArchiveCard,
         RetireBegin, Register, BoardOnly, Crash, Restart, CrashMidCursor, CrashMidAppend,
         CrashMidRetire
<1> QED BY <1>1, <1>2, <1>3, <1>4, <1>5, <1>6 DEF PromiseInv

\* An append is a delivery.
LEMMA PushDelivers ==
  ASSUME PromiseInv, PromiseInv', NEW l \in Lts, NEW t \in Targets \cup {None},
         QueuePush(l, t), UNCHANGED <<torn, ack, served>>
  PROVE  \E d \in [lt : Lts, item : Items] :
           /\ d \notin Pendings \cup Settleds
           /\ Pendings' = Pendings \cup {d}
           /\ UNCHANGED <<Offereds, Settleds>>
<1> DEFINE i == [seq |-> qseq + 1, target |-> t]
           d == [lt |-> l, item |-> i]
<1> USE DEF PromiseInv
<1>1. qseq \in Nat /\ i \in Items
  BY QueuesAssumption DEF ConsumptionInv, TypeOK, QueuePush, Items
<1>2. /\ queue'[l] = queue[l] \cup {i}
      /\ \A m \in Lts : m # l => queue'[m] = queue[m]
  BY DEF QueuePush, AppendFile, ConsumptionInv, TypeOK
<1>3. i \notin queue[l] /\ qseq + 1 > ack[l] /\ qseq + 1 \notin served[l]
  <2>1. \A j \in queue[l] : j.seq \in Nat /\ j.seq <= qseq
    BY BelowCounter
  <2>2. qseq + 1 \notin SeqsOf(queue[l])
    BY <1>1, <2>1 DEF SeqsOf
  <2> QED BY <1>1, <2>1, <2>2, BelowCounter
<1>4. \A m \in Lts : ReadQueue(m) = queue[m] /\ ReadQueue(m)' = queue'[m]
  BY DEF ConsumptionInv, ReadQueue
<1>5. /\ PendingItems(l)' = PendingItems(l) \cup {i}
      /\ ServedItems(l)' = ServedItems(l)
      /\ SettledItems(l)' = SettledItems(l)
  <2>1. ack' = ack /\ served' = served /\ ack[l] \in Nat
    BY BelowCounter
  <2> QED BY <1>2, <1>3, <1>4, <2>1 DEF PendingItems, ServedItems, SettledItems
<1>6. \A m \in Lts : m # l => /\ PendingItems(m)' = PendingItems(m)
                              /\ ServedItems(m)' = ServedItems(m)
                              /\ SettledItems(m)' = SettledItems(m)
  BY <1>2, <1>4 DEF PendingItems, ServedItems, SettledItems
<1>7. d \notin Pendings \cup Settleds
  <2>1. i \notin PendingItems(l) /\ i \notin SettledItems(l)
    BY <1>3, <1>4 DEF PendingItems, SettledItems
  <2> QED BY <2>1, MembersNow
<1>8. Pendings' = Pendings \cup {d}
  <2>1. \A m \in Lts : \A j : j \in PendingItems(m)' <=> j \in PendingItems(m) \/ (m = l /\ j = i)
    BY <1>5, <1>6
  <2> QED BY <2>1, MembersNow, MembersNext
<1>9. Offereds' = Offereds /\ Settleds' = Settleds
  <2>1. \A m \in Lts : ServedItems(m)' = ServedItems(m) /\ SettledItems(m)' = SettledItems(m)
    BY <1>5, <1>6
  <2> QED BY <2>1, SameParts
<1>10. d \in [lt : Lts, item : Items]
  BY <1>1
<1> QED BY <1>7, <1>8, <1>9, <1>10

\* A drain of one queue offers what is pending there.
LEMMA DrainOffers ==
  ASSUME PromiseInv, NEW l \in Lts, Serve({l}), UNCHANGED <<queue, torn, ack>>
  PROVE  /\ Offereds' = Offereds \cup {d \in Pendings : d.lt = l}
         /\ UNCHANGED <<Pendings, Settleds>>
<1>1. \A m \in Lts : ReadQueue(m)' = ReadQueue(m) /\ PendingItems(m)' = PendingItems(m)
                     /\ SettledItems(m)' = SettledItems(m)
  BY DEF ReadQueue, PendingItems, SettledItems
<1>2. \A m \in Lts : m # l => ServedItems(m)' = ServedItems(m)
  BY <1>1 DEF ServedItems, Serve
<1>3. ServedItems(l)' = ServedItems(l) \cup PendingItems(l)
  <2>1. served'[l] = served[l] \cup SeqsOf(PendingItems(l))
    BY DEF Serve
  <2>2. PendingItems(l) \subseteq ReadQueue(l)
    BY DEF PendingItems
  <2>3. \A i, j \in ReadQueue(l) : i.seq = j.seq => i = j
    BY DEF PromiseInv, ConsumptionInv, SeqsUnique
  <2> QED BY <1>1, <2>1, <2>2, <2>3 DEF ServedItems, SeqsOf
<1>4. Pendings' = Pendings /\ Settleds' = Settleds
  BY <1>1, SameParts
<1>5. ASSUME NEW d PROVE d \in Offereds' <=> d \in Offereds \/ (d \in Pendings /\ d.lt = l)
  <2>1. d \in Offereds' => d \in Offereds \/ (d \in Pendings /\ d.lt = l)
    <3> SUFFICES ASSUME NEW m \in Lts, NEW i \in ServedItems(m)', d = [lt |-> m, item |-> i]
                 PROVE  d \in Offereds \/ (d \in Pendings /\ d.lt = l)
      BY MembersNext
    <3>1. i \in ServedItems(m) \/ (m = l /\ i \in PendingItems(m))
      BY <1>2, <1>3
    <3> QED BY <3>1, MembersNow
  <2>2. d \in Offereds => d \in Offereds'
    BY <1>2, <1>3, MembersNow, MembersNext
  <2>3. d \in Pendings /\ d.lt = l => d \in Offereds'
    <3> SUFFICES ASSUME NEW m \in Lts, NEW i \in PendingItems(m), d = [lt |-> m, item |-> i],
                        d.lt = l
                 PROVE  d \in Offereds'
      BY MembersNow
    <3>1. m = l
      OBVIOUS
    <3> QED BY <1>3, <3>1, MembersNext
  <2> QED BY <2>1, <2>2, <2>3
<1> QED BY <1>4, <1>5

\* Where a cursor goes up over what was served, deliveries are settled; where it
\* falls, they are offered again.
LEMMA AckSettles ==
  ASSUME PromiseInv, PromiseInv', UNCHANGED <<queue, torn, served>>,
         \A l \in Lts : ack'[l] >= ack[l]
  PROVE  /\ Pendings' \subseteq Pendings
         /\ Pendings \ Pendings' \subseteq Offereds
         /\ Settleds' = Settleds \cup (Pendings \ Pendings')
         /\ Offereds' = Offereds
<1> USE DEF PromiseInv
<1>1. \A l \in Lts : /\ ReadQueue(l) = queue[l] /\ ReadQueue(l)' = queue[l]
                     /\ ack[l] \in Nat /\ ack'[l] \in Nat
                     /\ \A i \in queue[l] : i.seq \in Nat
  BY QueuesAssumption DEF ConsumptionInv, ReadQueue, TypeOK, Items
<1>2. \A l \in Lts : /\ PendingItems(l)' \subseteq PendingItems(l)
                     /\ PendingItems(l) \ PendingItems(l)' \subseteq ServedItems(l)
                     /\ SettledItems(l)' = SettledItems(l) \cup (PendingItems(l) \ PendingItems(l)')
                     /\ ServedItems(l)' = ServedItems(l)
  <2> TAKE l \in Lts
  <2>1. PendingItems(l) = {i \in queue[l] : i.seq > ack[l]}
        /\ PendingItems(l)' = {i \in queue[l] : i.seq > ack'[l]}
    BY <1>1 DEF PendingItems
  <2>2. \A i \in queue[l] : i.seq <= ack'[l] => i.seq \in served[l]
    BY DEF ConsumptionInv
  <2>3. ServedItems(l)' = ServedItems(l)
    BY <1>1 DEF ServedItems
  <2>4. PendingItems(l) \ PendingItems(l)' \subseteq ServedItems(l)
    BY <1>1, <2>1, <2>2 DEF ServedItems
  <2>5. PendingItems(l)' \subseteq PendingItems(l)
    BY <1>1, <2>1
  <2>6. SettledItems(l)' = SettledItems(l) \cup (PendingItems(l) \ PendingItems(l)')
    BY <1>1, <2>1, <2>5 DEF SettledItems
  <2> QED BY <2>3, <2>4, <2>5, <2>6
<1>3. ASSUME NEW l \in Lts, NEW i
      PROVE  /\ [lt |-> l, item |-> i] \in Pendings <=> i \in PendingItems(l)
             /\ [lt |-> l, item |-> i] \in Pendings' <=> i \in PendingItems(l)'
             /\ [lt |-> l, item |-> i] \in Settleds <=> i \in SettledItems(l)
             /\ [lt |-> l, item |-> i] \in Settleds' <=> i \in SettledItems(l)'
             /\ [lt |-> l, item |-> i] \in Offereds <=> i \in ServedItems(l)
  BY MembersNow, MembersNext
<1>4. ASSUME NEW d
      PROVE  d \in Pendings \cup Pendings' \cup Settleds \cup Settleds'
               => \E l \in Lts : \E i : d = [lt |-> l, item |-> i]
  BY MembersNow, MembersNext
<1>5. Offereds' = Offereds
  BY <1>2, SameParts
<1>6. Pendings' \subseteq Pendings /\ Pendings \ Pendings' \subseteq Offereds
  BY <1>2, <1>3, <1>4
<1>7. Settleds' = Settleds \cup (Pendings \ Pendings')
  BY <1>2, <1>3, <1>4
<1> QED BY <1>5, <1>6, <1>7

LEMMA CursorLossReoffers ==
  ASSUME PromiseInv, PromiseInv', UNCHANGED <<queue, torn, served>>,
         \A l \in Lts : ack'[l] <= ack[l]
  PROVE  /\ Settleds' \subseteq Settleds
         /\ Pendings' = Pendings \cup (Settleds \ Settleds')
         /\ Offereds' = Offereds
<1> USE DEF PromiseInv
<1>1. \A l \in Lts : /\ ReadQueue(l) = queue[l] /\ ReadQueue(l)' = queue[l]
                     /\ ack[l] \in Nat /\ ack'[l] \in Nat
                     /\ \A i \in queue[l] : i.seq \in Nat
  BY QueuesAssumption DEF ConsumptionInv, ReadQueue, TypeOK, Items
<1>2. \A l \in Lts : /\ SettledItems(l)' \subseteq SettledItems(l)
                     /\ PendingItems(l)' = PendingItems(l) \cup (SettledItems(l) \ SettledItems(l)')
                     /\ ServedItems(l)' = ServedItems(l)
  <2> TAKE l \in Lts
  <2>1. PendingItems(l) = {i \in queue[l] : i.seq > ack[l]}
        /\ PendingItems(l)' = {i \in queue[l] : i.seq > ack'[l]}
    BY <1>1 DEF PendingItems
  <2>2. SettledItems(l)' \subseteq SettledItems(l)
    BY <1>1, <2>1 DEF SettledItems
  <2>3. PendingItems(l)' = PendingItems(l) \cup (SettledItems(l) \ SettledItems(l)')
    BY <1>1, <2>1 DEF SettledItems
  <2>4. ServedItems(l)' = ServedItems(l)
    BY <1>1 DEF ServedItems
  <2> QED BY <2>2, <2>3, <2>4
<1>3. ASSUME NEW l \in Lts, NEW i
      PROVE  /\ [lt |-> l, item |-> i] \in Pendings <=> i \in PendingItems(l)
             /\ [lt |-> l, item |-> i] \in Pendings' <=> i \in PendingItems(l)'
             /\ [lt |-> l, item |-> i] \in Settleds <=> i \in SettledItems(l)
             /\ [lt |-> l, item |-> i] \in Settleds' <=> i \in SettledItems(l)'
  BY MembersNow, MembersNext
<1>4. ASSUME NEW d
      PROVE  d \in Pendings \cup Pendings' \cup Settleds \cup Settleds'
               => \E l \in Lts : \E i : d = [lt |-> l, item |-> i]
  BY MembersNow, MembersNext
<1>5. Offereds' = Offereds
  BY <1>2, SameParts
<1>6. Settleds' \subseteq Settleds
  BY <1>2, <1>3, <1>4
<1>7. Pendings' = Pendings \cup (Settleds \ Settleds')
  BY <1>2, <1>3, <1>4
<1> QED BY <1>5, <1>6, <1>7

LEMMA RetireDrops ==
  ASSUME PromiseInv, Orderly, NEW l \in Lts, RetireCommit(l)
  PROVE  /\ Pendings' = Pendings \ {d \in Pendings : d.lt = l}
         /\ Offereds' = Offereds \ {d \in Offereds : d.lt = l}
         /\ Settleds' = Settleds \ {d \in Settleds : d.lt = l}
<1>1. /\ ReadQueue(l)' = {}
      /\ \A m \in Lts : m # l => /\ ReadQueue(m)' = ReadQueue(m)
                                 /\ ack'[m] = ack[m] /\ served'[m] = served[m]
  BY DEF RetireCommit, UnlinkCursors, PromiseInv, ConsumptionInv, TypeOK, ReadQueue
<1>2. /\ PendingItems(l)' = {} /\ ServedItems(l)' = {} /\ SettledItems(l)' = {}
      /\ \A m \in Lts : m # l => /\ PendingItems(m)' = PendingItems(m)
                                 /\ ServedItems(m)' = ServedItems(m)
                                 /\ SettledItems(m)' = SettledItems(m)
  BY <1>1 DEF PendingItems, ServedItems, SettledItems
<1>3. ASSUME NEW d PROVE d \in Pendings' <=> d \in Pendings /\ d.lt # l
  BY <1>2, MembersNow, MembersNext
<1>4. ASSUME NEW d PROVE d \in Offereds' <=> d \in Offereds /\ d.lt # l
  BY <1>2, MembersNow, MembersNext
<1>5. ASSUME NEW d PROVE d \in Settleds' <=> d \in Settleds /\ d.lt # l
  BY <1>2, MembersNow, MembersNext
<1> QED BY <1>3, <1>4, <1>5

\* Each handler is a step of the promise, or changes nothing it knows of.
LEMMA PromiseStep ==
  ASSUME Orderly, PromiseInv, [Next]_queueVars
  PROVE  [Promise!Next]_(Promise!vars)
<1> USE DEF Promise!Next, Promise!vars, Promise!Of, Promise!Deliveries, Pendings, Offereds, Settleds,
        ServedItems, SettledItems
<1>1. PromiseInv'
  BY PromiseInvStep
<1>2. CASE UNCHANGED <<queue, torn, ack, served>>
  BY <1>2, SameFiles
<1>3. ASSUME NEW l \in Lts, Produce(l) PROVE Promise!Next
  <2>1. PICK t \in Targets \cup {None} : QueuePush(l, t)
    BY <1>3 DEF Produce, CaptainMessage, CardEvent, HookFailed
  <2>2. UNCHANGED <<torn, ack, served>>
    BY <1>3 DEF Produce, CaptainMessage, CardEvent, HookFailed, cursorVars
  <2>3. \E d \in [lt : Lts, item : Items] : Promise!Deliver(d)
    BY <1>1, <2>1, <2>2, PushDelivers DEF Promise!Deliver
  <2> QED BY <2>3
<1>4. ASSUME NEW l \in Lts, Drain(l) \/ CohabitantDrain(l) PROVE Promise!Next
  <2>1. Serve({l}) /\ UNCHANGED <<queue, torn, ack>>
    BY <1>4 DEF Drain, CohabitantDrain
  <2>2. UNION {{d \in Pendings : d.lt = m} : m \in {l}} = {d \in Pendings : d.lt = l}
    OBVIOUS
  <2>3. Promise!Offer({l})
    BY <2>1, <2>2, DrainOffers DEF Promise!Offer
  <2> QED BY <2>3
<1>5. ASSUME NEW x \in Callers, NEW l \in Lts, Ack(x, l) PROVE Promise!Next
  <2>1. UNCHANGED <<queue, torn, served>>
    BY <1>5 DEF Ack
  <2>2. \A m \in Lts : ack'[m] >= ack[m]
    <3>1. hand[x] \in Nat /\ \A m \in Lts : ack[m] \in Nat
      BY QueuesAssumption DEF PromiseInv, ConsumptionInv, TypeOK
    <3> QED BY <1>5, <3>1 DEF Ack, CommitAck, WriteAck, MaxOf, PromiseInv, ConsumptionInv, TypeOK
  <2>3. Promise!Settle
    BY <1>1, <2>1, <2>2, AckSettles DEF Promise!Settle
  <2> QED BY <2>3
<1>6. ASSUME NEW l \in Lts, RetireCommit(l) PROVE Promise!Next
  <2>1. Promise!Retire(l)
    BY <1>6, RetireDrops DEF Promise!Retire
  <2> QED BY <2>1
<1>7. ASSUME NEW l \in Lts, CrashMidCursor(l) PROVE Promise!Next
  <2>1. UNCHANGED <<queue, torn, served>>
    BY <1>7 DEF CrashMidCursor
  <2>2. \A m \in Lts : ack'[m] <= ack[m]
    <3>1. \A m \in Lts : ack[m] \in Nat
      BY QueuesAssumption DEF PromiseInv, ConsumptionInv, TypeOK
    <3> QED BY <1>7, <3>1 DEF CrashMidCursor, PromiseInv, ConsumptionInv, TypeOK
  <2>3. Promise!Reoffer
    BY <1>1, <2>1, <2>2, CursorLossReoffers DEF Promise!Reoffer
  <2> QED BY <2>3
<1>8. [Next]_queueVars =>
        \/ UNCHANGED <<queue, torn, ack, served>>
        \/ \E l \in Lts : \/ Produce(l) \/ Drain(l) \/ CohabitantDrain(l)
                          \/ RetireCommit(l) \/ CrashMidCursor(l)
        \/ \E x \in Callers, l \in Lts : Ack(x, l)
  BY DEF Next, Orderly, queueVars, Forget, CreateCard, ReassignCard, ArchiveCard, RetireBegin,
         Register, BoardOnly, cursorVars, Crash, Restart, CrashMidAppend, CrashMidRetire
<1> QED BY <1>2, <1>3, <1>4, <1>5, <1>6, <1>7, <1>8

\* The queues with their files, cursors, restarts and cursor files lost to a crash
\* deliver at least once: every handler is a step of AtLeastOnce or hidden from it.
THEOREM DeliversAtLeastOnce == Orderly => (Spec => ImplementsAtLeastOnce)
<1> SUFFICES ASSUME Orderly PROVE Spec => ImplementsAtLeastOnce
  OBVIOUS
<1>1. Init => PromiseInv /\ Promise!Init
  BY PromiseInit
<1>2. PromiseInv /\ [Next]_queueVars => PromiseInv'
  BY PromiseInvStep
<1>3. PromiseInv /\ [Next]_queueVars => [Promise!Next]_(Promise!vars)
  BY PromiseStep
<1> QED BY <1>1, <1>2, <1>3, PTL DEF Spec, ImplementsAtLeastOnce, Promise!Spec

---------------------------------------------------------------------------
(* The queues with their wakes: module Wakes.                              *)

\* A death is a session that forgets, when it held anything.
LEMMA DeathForgets ==
  ASSUME TypeOK, NEW l \in Lts, Dies(l)
  PROVE  Forget(l) \/ UNCHANGED queueVars
<1>1. CASE hand[l] # 0
  BY <1>1 DEF Dies, Forget
<1>2. CASE hand[l] = 0
  <2>1. hand' = hand
    BY <1>2 DEF Dies, TypeOK, Callers
  <2> QED BY <2>1 DEF Dies, queueVars, boardVars, cursorVars
<1> QED BY <1>1, <1>2

LEMMA WakeStepIsQueueStep ==
  ASSUME TypeOK, [WakeNext]_vars
  PROVE  [Next]_queueVars
<1>1. CASE UNCHANGED vars
  BY <1>1 DEF vars
<1>2. ASSUME NEW l \in Lts,
             Push(l) \/ TurnDrain(l) \/ TurnAck(l) \/ Retired(l) \/ Registered(l)
      PROVE  [Next]_queueVars
  BY <1>2 DEF Push, TurnDrain, TurnAck, Retired, Registered, Next, Callers
<1>3. ASSUME NEW l \in Lts, Dies(l) PROVE [Next]_queueVars
  BY <1>3, DeathForgets DEF Next
<1>4. ASSUME NEW l \in Lts,
             \/ Lapse(l) \/ WakeLands(l) \/ WakeLost(l) \/ WakeFails(l) \/ OtherTurn(l)
             \/ TurnEnd(l) \/ SweepAlive(l) \/ Respawn(l)
      PROVE  [Next]_queueVars
  BY <1>4 DEF Lapse, WakeLands, WakeLost, WakeFails, OtherTurn, TurnEnd, SweepAlive, Respawn
<1>5. CASE OtherDrain
  BY <1>5 DEF OtherDrain, Next, Callers
<1>6. CASE BoardStep
  BY <1>6 DEF BoardStep, Next
<1>7. CASE ServerRestarts
  BY <1>7 DEF ServerRestarts, Next
<1> QED BY <1>1, <1>2, <1>3, <1>4, <1>5, <1>6, <1>7 DEF WakeNext

\* The wakes change nothing the queues promise: marks, sends, turns, deaths and
\* sweeps move the queues only as one of their own handlers does.
THEOREM WakesKeepQueues == WakeSafeSpec => Spec
<1>1. WakeInit => Init /\ TypeOK
  BY TypeInit DEF WakeInit
<1>2. TypeOK /\ [WakeNext]_vars => TypeOK' /\ [Next]_queueVars
  BY WakeStepIsQueueStep, TypeStep
<1> QED BY <1>1, <1>2, PTL DEF WakeSafeSpec, Spec

\* So a number still names one item of one queue.
THEOREM WakesKeepNumbers == WakeSafeSpec => []SeqsUnique
BY WakesKeepQueues, NumbersUnique

-----------------------------------------------------------------------------
(* A mark stands for something pending. The bound on the sends in flight is  *)
(* part of the invariant because a cleared mark moves all of them to `old`.  *)

WakeInv ==
  /\ TypeOK
  /\ WakeTypeOK
  /\ \A l \in Lts : InFlight(l) <= MaxSends
  /\ NudgedOnlyWhilePending

\* The marks and sends of a state fit the next one.
MarksOK ==
  /\ nudged' \in [Lts -> {"none", "fresh", "lapsed"}]
  /\ sends' \in [Lts -> [cur : 0..MaxSends, old : 0..MaxSends]]
  /\ \A l \in Lts : InFlight(l)' <= MaxSends

LEMMA SendsType ==
  ASSUME WakeInv, NEW l \in Lts
  PROVE  /\ sends[l].cur \in Nat /\ sends[l].old \in Nat
         /\ InFlight(l) = sends[l].cur + sends[l].old
         /\ InFlight(l) \in Nat /\ InFlight(l) <= MaxSends
         /\ MaxSends \in Nat
<1>1. sends[l] \in [cur : 0..MaxSends, old : 0..MaxSends]
  BY DEF WakeInv, WakeTypeOK
<1>2. MaxSends \in Nat
  BY WakesAssumption
<1>3. sends[l].cur \in Nat /\ sends[l].old \in Nat
  BY <1>1, <1>2
<1>4. InFlight(l) = sends[l].cur + sends[l].old
  BY DEF InFlight
<1>5. InFlight(l) \in Nat
  BY <1>3, <1>4
<1> QED BY <1>2, <1>3, <1>4, <1>5 DEF WakeInv

\* A change of one field of a record of sends is a new record.
LEMMA SendsFields ==
  ASSUME WakeInv, NEW l \in Lts, NEW c, NEW o
  PROVE  /\ [sends EXCEPT ![l].cur = c] = [sends EXCEPT ![l] = [cur |-> c, old |-> sends[l].old]]
         /\ [sends EXCEPT ![l].old = o] = [sends EXCEPT ![l] = [cur |-> sends[l].cur, old |-> o]]
<1>1. sends[l] \in [cur : 0..MaxSends, old : 0..MaxSends]
  BY DEF WakeInv, WakeTypeOK
<1>2. /\ [sends[l] EXCEPT !.cur = c] = [cur |-> c, old |-> sends[l].old]
      /\ [sends[l] EXCEPT !.old = o] = [cur |-> sends[l].cur, old |-> o]
  BY <1>1
<1> QED BY <1>2

\* What is said of one lieutenant's sends after a step is enough for the others.
LEMMA MarksFrom ==
  ASSUME WakeInv, NEW l \in Lts, nudged' \in [Lts -> {"none", "fresh", "lapsed"}],
         NEW c \in Nat, NEW o \in Nat, c + o <= MaxSends,
         sends' = [sends EXCEPT ![l] = [cur |-> c, old |-> o]]
  PROVE  MarksOK
<1>1. c \in 0..MaxSends /\ o \in 0..MaxSends
  BY WakesAssumption
<1>2. sends' \in [Lts -> [cur : 0..MaxSends, old : 0..MaxSends]]
  BY <1>1 DEF WakeInv, WakeTypeOK
<1>3. \A m \in Lts : InFlight(m)' <= MaxSends
  <2>1. sends'[l] = [cur |-> c, old |-> o]
    BY DEF WakeInv, WakeTypeOK
  <2>2. \A m \in Lts : m # l => sends'[m] = sends[m]
    BY DEF WakeInv, WakeTypeOK
  <2> QED BY <2>1, <2>2 DEF InFlight, WakeInv
<1> QED BY <1>2, <1>3 DEF MarksOK

LEMMA ScheduleMarks ==
  ASSUME WakeInv, NEW l \in Lts, NEW mark \in {"none", "fresh", "lapsed"}, ScheduleWake(l, mark)
  PROVE  MarksOK
<1>1. CASE l \in registered' /\ PendingItems(l)' # {} /\ ~Suppressed(mark)
  <2>1. /\ InFlight(l) < MaxSends
        /\ nudged' = [nudged EXCEPT ![l] = "fresh"]
        /\ sends' = [sends EXCEPT ![l].cur = @ + 1]
    BY <1>1 DEF ScheduleWake
  <2>2. sends' = [sends EXCEPT ![l] = [cur |-> sends[l].cur + 1, old |-> sends[l].old]]
    BY <2>1, SendsFields
  <2>3. /\ sends[l].cur + 1 \in Nat /\ sends[l].old \in Nat
        /\ sends[l].cur + 1 + sends[l].old <= MaxSends
    BY <2>1, SendsType
  <2>4. nudged' \in [Lts -> {"none", "fresh", "lapsed"}]
    BY <2>1 DEF WakeInv, WakeTypeOK
  <2> QED BY <2>2, <2>3, <2>4, MarksFrom
<1>2. CASE ~(l \in registered' /\ PendingItems(l)' # {} /\ ~Suppressed(mark))
  BY <1>2 DEF ScheduleWake, WakeInv, WakeTypeOK, MarksOK, InFlight
<1> QED BY <1>1, <1>2

LEMMA ClearMarks ==
  ASSUME WakeInv, NEW L, ClearNudge(L)
  PROVE  MarksOK
<1>1. \A l \in Lts : InFlight(l) \in 0..MaxSends
  BY SendsType
<1>2. sends' \in [Lts -> [cur : 0..MaxSends, old : 0..MaxSends]]
  BY <1>1, WakesAssumption DEF ClearNudge, WakeInv, WakeTypeOK
<1>3. nudged' \in [Lts -> {"none", "fresh", "lapsed"}]
  BY DEF ClearNudge, WakeInv, WakeTypeOK
<1>4. ASSUME NEW l \in Lts PROVE InFlight(l)' <= MaxSends
  <2>1. CASE l \in L
    <3>1. sends'[l] = [cur |-> 0, old |-> InFlight(l)]
      BY <2>1 DEF ClearNudge
    <3>2. InFlight(l)' = 0 + InFlight(l)
      BY <3>1 DEF InFlight
    <3> QED BY <1>1, <3>2, WakesAssumption
  <2>2. CASE l \notin L
    BY <1>1, <2>2 DEF ClearNudge, InFlight
  <2> QED BY <2>1, <2>2
<1> QED BY <1>2, <1>3, <1>4 DEF MarksOK

LEMMA ResolveMarks ==
  ASSUME WakeInv, NEW l \in Lts, Resolve(l), nudged' \in [Lts -> {"none", "fresh", "lapsed"}]
  PROVE  MarksOK
<1>1. CASE sends[l].cur > 0 /\ sends' = [sends EXCEPT ![l].cur = @ - 1]
  <2>1. sends' = [sends EXCEPT ![l] = [cur |-> sends[l].cur - 1, old |-> sends[l].old]]
    BY <1>1, SendsFields
  <2>2. sends[l].cur - 1 \in Nat /\ sends[l].cur - 1 + sends[l].old <= MaxSends
    BY <1>1, SendsType
  <2> QED BY <2>1, <2>2, MarksFrom, SendsType
<1>2. CASE sends[l].old > 0 /\ sends' = [sends EXCEPT ![l].old = @ - 1]
  <2>1. sends' = [sends EXCEPT ![l] = [cur |-> sends[l].cur, old |-> sends[l].old - 1]]
    BY <1>2, SendsFields
  <2>2. sends[l].old - 1 \in Nat /\ sends[l].cur + (sends[l].old - 1) <= MaxSends
    BY <1>2, SendsType
  <2> QED BY <2>1, <2>2, MarksFrom, SendsType
<1> QED BY <1>1, <1>2 DEF Resolve

LEMMA SameMarks ==
  ASSUME WakeInv, UNCHANGED <<nudged, sends>>
  PROVE  MarksOK
BY DEF MarksOK, WakeInv, WakeTypeOK, InFlight

\* Sessions and deaths keep their shape, and so do the marks and the sends.
LEMMA WakeShape ==
  ASSUME WakeInv, [WakeNext]_vars
  PROVE  MarksOK /\ WakeTypeOK'
<1> DEFINE Rest == /\ sess' \in [Lts -> {"down", "idle", "woken", "working"}]
                   /\ deaths' \in 0..MaxDeaths
<1> SUFFICES MarksOK /\ Rest
  BY DEF MarksOK, WakeTypeOK
<1>0. WakeTypeOK /\ \A l \in Lts : InFlight(l) <= MaxSends
  BY DEF WakeInv
<1>1. CASE UNCHANGED vars
  BY <1>0, <1>1, SameMarks DEF vars, wakeVars, WakeTypeOK
<1>2. ASSUME NEW l \in Lts, Push(l) PROVE MarksOK /\ Rest
  BY <1>0, <1>2, ScheduleMarks DEF Push, WakeTypeOK
<1>3. ASSUME NEW l \in Lts, Lapse(l) PROVE MarksOK /\ Rest
  <2>1. InFlight(l) \in Nat /\ 0 + InFlight(l) <= MaxSends
    BY SendsType
  <2>2. nudged' \in [Lts -> {"none", "fresh", "lapsed"}]
    BY <1>0, <1>3 DEF Lapse, WakeTypeOK
  <2>3. MarksOK
    BY <1>0, <1>3, <2>1, <2>2, MarksFrom DEF Lapse
  <2> QED BY <1>0, <1>3, <2>3 DEF Lapse, WakeTypeOK
<1>4. ASSUME NEW l \in Lts, WakeLands(l) \/ WakeLost(l) \/ WakeFails(l) PROVE MarksOK /\ Rest
  <2>1. Resolve(l) /\ nudged' \in [Lts -> {"none", "fresh", "lapsed"}]
    BY <1>0, <1>4 DEF WakeLands, WakeLost, WakeFails, WakeTypeOK
  <2>2. Rest
    BY <1>0, <1>4 DEF WakeLands, WakeLost, WakeFails, WakeTypeOK
  <2> QED BY <2>1, <2>2, ResolveMarks
<1>5. ASSUME NEW l \in Lts, OtherTurn(l) \/ Dies(l) \/ Registered(l) PROVE MarksOK /\ Rest
  <2>1. MarksOK
    BY <1>0, <1>5, SameMarks DEF OtherTurn, Dies, Registered
  <2>2. Rest
    BY <1>0, <1>5, WakesAssumption DEF OtherTurn, Dies, Registered, WakeTypeOK
  <2> QED BY <2>1, <2>2
<1>6. ASSUME NEW l \in Lts, TurnDrain(l) \/ TurnAck(l) PROVE MarksOK /\ Rest
  BY <1>0, <1>6, ClearMarks DEF TurnDrain, TurnAck, WakeTypeOK
<1>7. ASSUME NEW l \in Lts, TurnEnd(l) \/ SweepAlive(l) PROVE MarksOK /\ Rest
  BY <1>0, <1>7, ScheduleMarks, SameMarks DEF TurnEnd, SweepAlive, WakeTypeOK
<1>8. ASSUME NEW l \in Lts, Respawn(l) PROVE MarksOK /\ Rest
  <2>1. nudged' \in [Lts -> {"none", "fresh", "lapsed"}]
    BY <1>0, <1>8 DEF Respawn, WakeTypeOK
  <2>2. InFlight(l) \in Nat /\ 1 + InFlight(l) <= MaxSends /\ 0 + (InFlight(l) + 1) <= MaxSends
    BY <1>0, <1>8, SendsType DEF Respawn
  <2>3. CASE PendingItems(l) # {}
    <3>1. sends' = [sends EXCEPT ![l] = [cur |-> 1, old |-> InFlight(l)]]
      BY <1>0, <1>8, <2>3 DEF Respawn
    <3> QED BY <1>0, <1>8, <2>1, <2>2, <3>1, MarksFrom DEF Respawn, WakeTypeOK
  <2>4. CASE PendingItems(l) = {}
    <3>1. sends' = [sends EXCEPT ![l] = [cur |-> 0, old |-> InFlight(l) + 1]]
      BY <1>0, <1>8, <2>4 DEF Respawn
    <3> QED BY <1>0, <1>8, <2>1, <2>2, <3>1, MarksFrom DEF Respawn, WakeTypeOK
  <2> QED BY <2>3, <2>4
<1>9. ASSUME NEW l \in Lts, Retired(l) PROVE MarksOK /\ Rest
  BY <1>0, <1>9 DEF Retired, MarksOK, WakeTypeOK, InFlight
<1>10. CASE OtherDrain
  BY <1>0, <1>10, ClearMarks DEF OtherDrain, WakeTypeOK
<1>11. CASE BoardStep
  BY <1>0, <1>11, SameMarks DEF BoardStep, wakeVars, WakeTypeOK
<1>12. CASE ServerRestarts
  <2>1. MarksOK
    BY <1>0, <1>12, WakesAssumption DEF ServerRestarts, MarksOK, InFlight
  <2> QED BY <1>0, <1>12, <2>1 DEF ServerRestarts, WakeTypeOK
<1> QED BY <1>1, <1>2, <1>3, <1>4, <1>5, <1>6, <1>7, <1>8, <1>9, <1>10, <1>11, <1>12
        DEF WakeNext

\* What is pending for a lieutenant whose mark a step keeps stays pending.
LEMMA PendingStays ==
  ASSUME NEW l \in Lts, UNCHANGED <<queue, torn, ack>>
  PROVE  PendingItems(l)' = PendingItems(l)
BY DEF PendingItems, ReadQueue

LEMMA PushedStays ==
  ASSUME TypeOK, NEW l \in Lts, Produce(l), NEW m \in Lts
  PROVE  PendingItems(m) \subseteq PendingItems(m)'
<1>1. PICK j : queue' = [queue EXCEPT ![l] = @ \cup {j}]
  BY DEF Produce, CaptainMessage, CardEvent, HookFailed, QueuePush, AppendFile
<1>2. UNCHANGED <<torn, ack>>
  BY DEF Produce, CaptainMessage, CardEvent, HookFailed, cursorVars
<1>3. queue[m] \subseteq queue'[m]
  BY <1>1 DEF TypeOK
<1> QED BY <1>2, <1>3 DEF PendingItems, ReadQueue

LEMMA NudgedStep ==
  ASSUME WakeInv, [WakeNext]_vars
  PROVE  NudgedOnlyWhilePending'
<1> USE DEF WakeInv
<1> SUFFICES ASSUME NEW m \in Lts, nudged'[m] # "none"
             PROVE  PendingItems(m)' # {}
  BY DEF NudgedOnlyWhilePending
<1>0. nudged[m] # "none" => PendingItems(m) # {}
  BY DEF NudgedOnlyWhilePending
<1>1. CASE UNCHANGED vars
  BY <1>0, <1>1, PendingStays DEF vars, queueVars, wakeVars
<1>2. ASSUME NEW l \in Lts, Push(l) PROVE PendingItems(m)' # {}
  <2>1. CASE nudged[m] = "none"
    BY <1>2, <2>1 DEF Push, ScheduleWake, WakeTypeOK
  <2>2. CASE nudged[m] # "none"
    BY <1>0, <1>2, <2>2, PushedStays DEF Push
  <2> QED BY <2>1, <2>2
<1>3. ASSUME NEW l \in Lts,
             Lapse(l) \/ WakeLands(l) \/ WakeLost(l) \/ WakeFails(l) \/ OtherTurn(l) \/ Dies(l)
             \/ Registered(l)
      PROVE  PendingItems(m)' # {}
  <2>1. UNCHANGED <<queue, torn, ack>>
    BY <1>3 DEF Lapse, WakeLands, WakeLost, WakeFails, OtherTurn, Dies, Registered, queueVars,
                Register, BoardOnly, cursorVars
  <2>2. nudged[m] # "none"
    BY <1>3 DEF Lapse, WakeLands, WakeLost, WakeFails, OtherTurn, Dies, Registered, WakeTypeOK
  <2> QED BY <1>0, <2>1, <2>2, PendingStays
<1>4. ASSUME NEW l \in Lts, TurnDrain(l) PROVE PendingItems(m)' # {}
  <2>1. UNCHANGED <<queue, torn, ack>>
    BY <1>4 DEF TurnDrain, Drain, queueVars
  <2>2. nudged[m] # "none"
    BY <1>4 DEF TurnDrain, ClearNudge
  <2> QED BY <1>0, <2>1, <2>2, PendingStays
<1>5. ASSUME NEW x \in Callers, NEW l \in Lts, Ack(x, l), ClearNudge({l})
      PROVE  PendingItems(m)' # {}
  <2>1. m # l /\ nudged[m] # "none"
    BY <1>5 DEF ClearNudge
  <2>2. UNCHANGED <<queue, torn>> /\ ack'[m] = ack[m]
    BY <1>5, <2>1 DEF Ack, CommitAck, WriteAck, TypeOK
  <2>3. PendingItems(m)' = PendingItems(m)
    BY <2>2 DEF PendingItems, ReadQueue
  <2> QED BY <1>0, <2>1, <2>3
<1>6. ASSUME NEW l \in Lts, TurnEnd(l) \/ SweepAlive(l) PROVE PendingItems(m)' # {}
  <2>1. PendingItems(m)' = PendingItems(m)
    BY <1>6, PendingStays DEF TurnEnd, SweepAlive, queueVars
  <2>2. nudged[m] # "none" \/ PendingItems(m)' # {}
    BY <1>6 DEF TurnEnd, SweepAlive, ScheduleWake, WakeTypeOK
  <2> QED BY <1>0, <2>1, <2>2
<1>7. ASSUME NEW l \in Lts, Respawn(l) PROVE PendingItems(m)' # {}
  <2>1. PendingItems(m)' = PendingItems(m)
    BY <1>7, PendingStays DEF Respawn, queueVars
  <2>2. nudged[m] # "none" \/ PendingItems(m) # {}
    BY <1>7 DEF Respawn, WakeTypeOK
  <2> QED BY <1>0, <2>1, <2>2
<1>8. ASSUME NEW l \in Lts, Retired(l) PROVE PendingItems(m)' # {}
  <2>1. m # l /\ nudged[m] # "none"
    BY <1>8 DEF Retired, WakeTypeOK
  <2>2. queue'[m] = queue[m] /\ torn'[m] = torn[m] /\ ack'[m] = ack[m]
    BY <1>8, <2>1 DEF Retired, RetireCommit, UnlinkCursors, TypeOK
  <2> QED BY <1>0, <2>1, <2>2 DEF PendingItems, ReadQueue
<1>9. CASE OtherDrain
  <2>1. ASSUME NEW l \in Lts, CohabitantDrain(l), ClearNudge({l}) PROVE PendingItems(m)' # {}
    BY <1>0, <2>1, PendingStays DEF CohabitantDrain, ClearNudge
  <2>2. ASSUME NEW x \in Tools, ToolDrain(x), ClearNudge(Lts) PROVE PendingItems(m)' # {}
    BY <2>2 DEF ClearNudge
  <2> QED BY <1>5, <1>9, <2>1, <2>2 DEF OtherDrain, Callers
<1>10. CASE BoardStep
  BY <1>0, <1>10, PendingStays
     DEF BoardStep, wakeVars, CreateCard, ReassignCard, ArchiveCard, RetireBegin, BoardOnly,
         cursorVars
<1>11. CASE ServerRestarts
  BY <1>11 DEF ServerRestarts
<1>12. ASSUME NEW l \in Lts, TurnAck(l) PROVE PendingItems(m)' # {}
  BY <1>5, <1>12 DEF TurnAck, Callers
<1> QED BY <1>1, <1>2, <1>3, <1>4, <1>6, <1>7, <1>8, <1>9, <1>10, <1>11, <1>12 DEF WakeNext

LEMMA WakeInvInit == WakeInit => WakeInv
<1> SUFFICES ASSUME WakeInit PROVE WakeInv
  OBVIOUS
<1>1. TypeOK
  BY TypeInit DEF WakeInit
<1>2. WakeTypeOK /\ NudgedOnlyWhilePending
  BY WakesAssumption DEF WakeInit, WakeTypeOK, NudgedOnlyWhilePending
<1>3. \A l \in Lts : InFlight(l) <= MaxSends
  BY WakesAssumption DEF WakeInit, InFlight
<1> QED BY <1>1, <1>2, <1>3 DEF WakeInv

LEMMA WakeInvStep == WakeInv /\ [WakeNext]_vars => WakeInv'
<1> SUFFICES ASSUME WakeInv, [WakeNext]_vars PROVE WakeInv'
  OBVIOUS
<1>1. TypeOK'
  BY WakeStepIsQueueStep, TypeStep DEF WakeInv
<1> QED BY <1>1, WakeShape, NudgedStep DEF WakeInv, MarksOK

\* The wake state keeps its shape.
THEOREM WakeTypeCorrect == WakeSafeSpec => []WakeTypeOK
<1>1. WakeInv => WakeTypeOK
  BY DEF WakeInv
<1> QED BY <1>1, WakeInvInit, WakeInvStep, PTL DEF WakeSafeSpec

\* A mark that suppresses wakes never outlives what it stands for, whichever of an
\* ack, another caller's drain, a retire, a respawn or a restart comes between.
THEOREM MarksStandForPending == WakeSafeSpec => []NudgedOnlyWhilePending
<1>1. WakeInv => NudgedOnlyWhilePending
  BY DEF WakeInv
<1> QED BY <1>1, WakeInvInit, WakeInvStep, PTL DEF WakeSafeSpec
=============================================================================

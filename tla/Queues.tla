------------------------------- MODULE Queues -------------------------------
(***************************************************************************)
(* The durable delivery queues of the board server (server.js 943-1053):   *)
(* one append-only file per lieutenant, a global sequence number, two      *)
(* cursor files per lieutenant (<lt>.ack and <lt>.drained) and the         *)
(* in-memory index of the latest captain message per chat target.          *)
(*                                                                         *)
(* One action is one run of the event loop between two awaits; a crash may *)
(* fall between two file operations of one action (the Crash... actions).  *)
(* The wake half of a delivery is added by module Wakes.                   *)
(***************************************************************************)
EXTENDS Naturals, FiniteSets

CONSTANTS
  Lts,          \* lieutenant ids (slugs: a retired id may be registered again)
  Cards,        \* card ids
  None,         \* no lieutenant, no target
  Tools,        \* callers with neither a lieutenant nor a tmux session
  MaxSeq,       \* bound: queue items ever numbered
  MaxRestarts,  \* bound: server restarts
  CrashPoints,  \* which partial writes a restart may leave behind
  KillMayFail   \* may the kill of a retiring lieutenant's session fail?

Targets == Lts \cup Cards
Callers == Lts \cup Tools
AllCrashPoints == {"midAppend", "midCursor", "midRetire"}

ASSUME QueuesAssumption ==
  /\ Lts \cap Cards = {}
  /\ None \notin Targets
  /\ Tools \cap (Targets \cup {None}) = {}
  /\ MaxSeq \in Nat
  /\ MaxRestarts \in Nat
  /\ CrashPoints \subseteq AllCrashPoints
  /\ KillMayFail \in BOOLEAN

VARIABLES
  registered,  \* board.lieutenants
  retiring,    \* retires awaiting the kill of the session
  owner,       \* owner[c]: the lieutenant of a card on the board, None off it
  hooks,       \* lieutenants for whose (archived) card a hook script still runs
  queue,       \* queue[l]: the items appended to <l>.jsonl
  torn,        \* torn[l]: a line of <l>.jsonl does not parse
  ack,         \* <l>.ack
  drained,     \* <l>.drained
  qseq,        \* the last sequence number handed out (memory)
  msgSeqs,     \* target -> latest message delivery (memory)
  hand,        \* hand[x]: highest seq caller x was served and has not acked
  served,      \* auxiliary: served[l], the seqs drains have served from l's queue
  restarts

boardVars  == <<registered, retiring, owner, hooks>>
cursorVars == <<ack, drained>>
queueVars  == <<registered, retiring, owner, hooks, queue, torn, ack, drained,
                qseq, msgSeqs, hand, served, restarts>>

\* An item is its number and, for a captain message, the chat it was written in.
Items   == [seq : 1..MaxSeq, target : Targets \cup {None}]
Entries == [seq : 0..MaxSeq, lt : Lts \cup {None}]
NoEntry == [seq |-> 0, lt |-> None]

MaxOf(m, n) == IF m >= n THEN m ELSE n

\* readQueue: one line that does not parse makes the whole file read as empty.
ReadQueue(l) == IF torn[l] THEN {} ELSE queue[l]
\* queueIds: registered lieutenants and whoever has a queue file.
QueueIds == registered \cup {l \in Lts : queue[l] # {} \/ torn[l]}
\* Mutant: a drain consumes.
UnseenItems(l) == {i \in ReadQueue(l) : i.seq > MaxOf(drained[l], ack[l])}
PendingItems(l) == {i \in ReadQueue(l) : i.seq > ack[l]}
SeenCursor(l) == MaxOf(drained[l], ack[l])

SeqsOf(S) == {i.seq : i \in S}
IsTop(n, S) == n \in S \cup {0} /\ \A m \in S : m <= n

\* What scanQueues computes for one target out of the files q.
Messages(q, t) == {e \in [seq : 1..MaxSeq, lt : Lts] :
                     [seq |-> e.seq, target |-> t] \in q[e.lt]}
LatestMessage(q, t) ==
  IF Messages(q, t) = {} THEN NoEntry
  ELSE CHOOSE e \in Messages(q, t) : \A d \in Messages(q, t) : d.seq <= e.seq

Readable(q, tn) == [l \in Lts |-> IF tn[l] THEN {} ELSE q[l]]
ScanQueues(q) == [t \in Targets |-> LatestMessage(q, t)]

\* cardStatus's tri-state: owed until acked, queued until seen.
TargetQueued(t) == msgSeqs[t].seq # 0 /\ msgSeqs[t].seq > SeenCursor(msgSeqs[t].lt)
TargetOwed(t)   == msgSeqs[t].seq # 0 /\ msgSeqs[t].seq > ack[msgSeqs[t].lt]

\* targetLieutenant: the registered lieutenant behind a chat target.
TargetLieutenant(t, l) ==
  /\ l \in registered
  /\ t = l \/ (t \in Cards /\ owner[t] = l)

Init ==
  /\ registered = Lts
  /\ retiring = {}
  /\ owner = [c \in Cards |-> None]
  /\ hooks = {}
  /\ queue = [l \in Lts |-> {}]
  /\ torn = [l \in Lts |-> FALSE]
  /\ ack = [l \in Lts |-> 0]
  /\ drained = [l \in Lts |-> 0]
  /\ qseq = 0
  /\ msgSeqs = [t \in Targets |-> NoEntry]
  /\ hand = [x \in Callers |-> 0]
  /\ served = [l \in Lts |-> {}]
  /\ restarts = 0

-----------------------------------------------------------------------------
(* Producers: everything enters through queuePush. *)

\* Mutant: the file is rewritten with the new line instead of appended to.
OverwriteFile(l, i) == queue' = [queue EXCEPT ![l] = {i}]
AppendFile(l, i) == queue' = [queue EXCEPT ![l] = @ \cup {i}]

\* Number the item, append its line, note it in the index.
QueuePush(l, target) ==
  /\ qseq < MaxSeq
  /\ qseq' = qseq + 1
  /\ AppendFile(l, [seq |-> qseq + 1, target |-> target])
  /\ msgSeqs' = IF target # None /\ qseq + 1 > msgSeqs[target].seq
                THEN [msgSeqs EXCEPT ![target] = [seq |-> qseq + 1, lt |-> l]]
                ELSE msgSeqs

\* The captain writes in a main chat or on a card's thread.
CaptainMessage(t, l) ==
  /\ TargetLieutenant(t, l)
  /\ QueuePush(l, t)
  /\ UNCHANGED <<boardVars, cursorVars, torn, hand, served, restarts>>

\* A worker signal, a done, a PR change: something happened on an owned card.
\* The push names card.owner and does not ask whether it is still registered.
CardEvent(c, l) ==
  /\ owner[c] = l
  /\ QueuePush(l, None)
  /\ UNCHANGED <<boardVars, cursorVars, torn, hand, served, restarts>>

\* A hook of a card that has left the board fails: its owner hears of it,
\* registered or not.
HookFailed(l) ==
  /\ l \in hooks
  /\ QueuePush(l, None)
  /\ hooks' = hooks \ {l}
  /\ UNCHANGED <<registered, retiring, owner, cursorVars, torn, hand, served, restarts>>

-----------------------------------------------------------------------------
(* Consumers: GET /api/feed and POST /api/feed/ack. *)

\* What a drain answers with: the highest pending seq, when anything is pending.
ServesUpTo(l, n) == PendingItems(l) # {} /\ IsTop(n, SeqsOf(PendingItems(l)))

\* The auxiliary record of which items the drain of the queues in L served.
Serve(L) ==
  served' = [l \in Lts |-> IF l \in L THEN served[l] \cup SeqsOf(PendingItems(l))
                                     ELSE served[l]]

AdvanceDrained(l, n) == drained' = [drained EXCEPT ![l] = MaxOf(@, n)]

\* The lieutenant drains at the start of its turn; the ack cursor stays put.
Drain(l) ==
  /\ l \in registered
  /\ \E n \in 1..MaxSeq :
       /\ ServesUpTo(l, n)
       /\ AdvanceDrained(l, n)
       /\ hand' = [hand EXCEPT ![l] = n]
  /\ Serve({l})
  /\ UNCHANGED <<boardVars, queue, torn, ack, qseq, msgSeqs, restarts>>

\* A worker's window sits in its lieutenant's tmux session, so a drain run
\* there resolves to the lieutenant: it is served the lieutenant's items.
CohabitantDrain(l) ==
  /\ l \in registered
  /\ \E n \in 1..MaxSeq : ServesUpTo(l, n) /\ AdvanceDrained(l, n)
  /\ Serve({l})
  /\ UNCHANGED <<boardVars, queue, torn, ack, qseq, msgSeqs, hand, restarts>>

\* Raw tooling, identified by nothing, is served every queue and moves no cursor.
AllPending == UNION {PendingItems(l) : l \in QueueIds}
ToolDrain(x) ==
  /\ AllPending # {}
  /\ \E n \in 1..MaxSeq :
       /\ IsTop(n, SeqsOf(AllPending))
       /\ hand' = [hand EXCEPT ![x] = n]
  /\ Serve(Lts)
  /\ UNCHANGED <<boardVars, queue, torn, cursorVars, qseq, msgSeqs, restarts>>

\* Mutants: the cursor is the next seq to serve; the cursor goes to the head.
CursorPast(l, n) == ack' = [ack EXCEPT ![l] = MaxOf(@, n + 1)]
CursorToHead(l, n) == ack' = [ack EXCEPT ![l] = qseq]
WriteAck(l, n) == ack' = [ack EXCEPT ![l] = MaxOf(@, n)]

\* commitAck: the first queue that holds the seq; its lieutenant must be the
\* caller's, when the caller has one. The cursor never moves back.
CommitAck(l, seq, x) ==
  /\ l \in QueueIds
  /\ seq \in SeqsOf(ReadQueue(l))
  /\ x \in Tools \/ x = l
  /\ WriteAck(l, seq)

\* The caller acks the highest seq it was served, once it has handled the items.
Ack(x, l) ==
  /\ hand[x] # 0
  /\ x \in registered \cup Tools
  /\ CommitAck(l, hand[x], x)
  /\ hand' = [hand EXCEPT ![x] = 0]
  /\ UNCHANGED <<boardVars, queue, torn, drained, qseq, msgSeqs, served, restarts>>

\* The agent's session dies: it no longer knows what it was served.
Forget(l) ==
  /\ hand[l] # 0
  /\ hand' = [hand EXCEPT ![l] = 0]
  /\ UNCHANGED <<boardVars, queue, torn, cursorVars, qseq, msgSeqs, served, restarts>>

-----------------------------------------------------------------------------
(* The board: cards come, go and change hands; lieutenants retire. *)

BoardOnly == UNCHANGED <<queue, torn, cursorVars, qseq, msgSeqs, hand, served, restarts>>

\* A card is created for a registered lieutenant.
CreateCard(c, l) ==
  /\ owner[c] = None
  /\ l \in registered
  /\ owner' = [owner EXCEPT ![c] = l]
  /\ BoardOnly /\ UNCHANGED <<registered, retiring, hooks>>

\* patchCard: the owner changes; the items already queued stay where they are.
ReassignCard(c, l) ==
  /\ owner[c] \notin {None, l}
  /\ l \in registered
  /\ owner' = [owner EXCEPT ![c] = l]
  /\ BoardOnly /\ UNCHANGED <<registered, retiring, hooks>>

\* A card leaves the board; its card-archived hooks may still be running.
ArchiveCard(c) ==
  /\ owner[c] # None
  /\ owner' = [owner EXCEPT ![c] = None]
  /\ hooks' \in {hooks, hooks \cup {owner[c]}}
  /\ BoardOnly /\ UNCHANGED <<registered, retiring>>

\* retireLieutenant up to the await: refused while it owns cards.
RetireBegin(l) ==
  /\ l \in registered \ retiring
  /\ \A c \in Cards : owner[c] # l
  /\ retiring' = retiring \cup {l}
  /\ BoardOnly /\ UNCHANGED <<registered, owner, hooks>>

\* The session is gone with what it was served, or the kill failed.
Killed(l) ==
  \/ hand' = [hand EXCEPT ![l] = 0]
  \/ KillMayFail /\ UNCHANGED hand

\* Mutants: the ack file stays behind; the index is not rebuilt.
UnlinkDrained(l) == drained' = [drained EXCEPT ![l] = 0] /\ UNCHANGED ack
KeepIndex == UNCHANGED msgSeqs

UnlinkCursors(l) ==
  /\ ack' = [ack EXCEPT ![l] = 0]
  /\ drained' = [drained EXCEPT ![l] = 0]
Reindex == msgSeqs' = ScanQueues(Readable(queue', torn'))

\* After the await: unregister, unlink the queue, rebuild the index from the
\* other files, unlink both cursors. A kill that failed is only logged.
RetireCommit(l) ==
  /\ l \in retiring
  /\ retiring' = retiring \ {l}
  /\ registered' = registered \ {l}
  /\ queue' = [queue EXCEPT ![l] = {}]
  /\ torn' = [torn EXCEPT ![l] = FALSE]
  /\ Reindex
  /\ UnlinkCursors(l)
  /\ served' = [served EXCEPT ![l] = {}]
  /\ Killed(l)
  /\ UNCHANGED <<owner, hooks, qseq, restarts>>

\* The id is registered again; createLieutenant touches no queue file.
Register(l) ==
  /\ l \notin registered
  /\ registered' = registered \cup {l}
  /\ BoardOnly /\ UNCHANGED <<retiring, owner, hooks>>

-----------------------------------------------------------------------------
(* Restarts. The agents' tmux sessions outlive the server, the memory does   *)
(* not: qseq and the index are recovered from the files that can be read.    *)

\* Mutant: the counter is recovered from the items still pending.
RecoveredFromPending(n, q, tn) ==
  IsTop(n, UNION {{i.seq : i \in {j \in Readable(q, tn)[l] : j.seq > ack[l]}} : l \in Lts})
RecoveredSeq(n, q, tn) == IsTop(n, UNION {SeqsOf(Readable(q, tn)[l]) : l \in Lts})

\* What a boot does with the files it finds (q, tn).
Boot(q, tn) ==
  /\ restarts' = restarts + 1
  /\ \E n \in 0..MaxSeq :
       /\ RecoveredSeq(n, q, tn)
       /\ qseq' = n
  /\ msgSeqs' = ScanQueues(Readable(q, tn))
  /\ retiring' = {}
  /\ hooks' = {}
  /\ UNCHANGED <<registered, owner>>

Restart ==
  /\ Boot(queue, torn)
  /\ UNCHANGED <<queue, torn, cursorVars, hand, served>>

\* The server dies inside appendFileSync: part of the line is on the disk.
CrashMidAppend(t, l) ==
  /\ "midAppend" \in CrashPoints
  /\ TargetLieutenant(t, l)
  /\ torn' = [torn EXCEPT ![l] = TRUE]
  /\ Boot(queue, torn')
  /\ UNCHANGED <<queue, cursorVars, hand, served>>

\* The server dies between the truncation and the write of an ack or a drained
\* cursor: the file is empty and reads as 0.
CrashMidCursor(l) ==
  /\ "midCursor" \in CrashPoints
  /\ \/ ack' = [ack EXCEPT ![l] = 0] /\ UNCHANGED drained
     \/ drained' = [drained EXCEPT ![l] = 0] /\ UNCHANGED ack
  /\ Boot(queue, torn)
  /\ UNCHANGED <<queue, torn, hand, served>>

\* The server dies inside a retire, after the queue file and the first `gone`
\* cursor files are unlinked and before the board is saved: board.json still
\* lists the lieutenant. Its session was killed before the await resolved.
CrashMidRetire(l, gone) ==
  /\ "midRetire" \in CrashPoints
  /\ l \in retiring
  /\ queue' = [queue EXCEPT ![l] = {}]
  /\ torn' = [torn EXCEPT ![l] = FALSE]
  /\ ack' = IF gone >= 1 THEN [ack EXCEPT ![l] = 0] ELSE ack
  /\ drained' = IF gone >= 2 THEN [drained EXCEPT ![l] = 0] ELSE drained
  /\ served' = [served EXCEPT ![l] = {}]
  /\ Killed(l)
  /\ Boot(queue', torn')

-----------------------------------------------------------------------------
Produce(l) ==
  \/ \E t \in Targets : CaptainMessage(t, l)
  \/ \E c \in Cards : CardEvent(c, l)
  \/ HookFailed(l)

Crash ==
  /\ restarts < MaxRestarts
  /\ \/ Restart
     \/ \E l \in Lts : CrashMidCursor(l)
     \/ \E l \in Lts, t \in Targets : CrashMidAppend(t, l)
     \/ \E l \in Lts, gone \in 0..2 : CrashMidRetire(l, gone)

Next ==
  \/ \E l \in Lts : Produce(l)
  \/ \E l \in Lts : Drain(l) \/ CohabitantDrain(l) \/ Forget(l)
  \/ \E x \in Tools : ToolDrain(x)
  \/ \E x \in Callers, l \in Lts : Ack(x, l)
  \/ \E c \in Cards, l \in Lts : CreateCard(c, l) \/ ReassignCard(c, l)
  \/ \E c \in Cards : ArchiveCard(c)
  \/ \E l \in Lts : RetireBegin(l) \/ RetireCommit(l) \/ Register(l)
  \/ Crash

Spec == Init /\ [][Next]_queueVars
-----------------------------------------------------------------------------
(* Properties. *)

\* The shape of the state.
TypeOK ==
  /\ registered \subseteq Lts /\ retiring \subseteq Lts /\ hooks \subseteq Lts
  /\ owner \in [Cards -> Lts \cup {None}]
  /\ queue \in [Lts -> SUBSET Items]
  /\ torn \in [Lts -> BOOLEAN]
  /\ ack \in [Lts -> 0..MaxSeq] /\ drained \in [Lts -> 0..MaxSeq]
  /\ qseq \in 0..MaxSeq
  /\ msgSeqs \in [Targets -> Entries]
  /\ hand \in [Callers -> 0..MaxSeq]
  /\ served \in [Lts -> SUBSET (1..MaxSeq)]
  /\ restarts \in 0..MaxRestarts

\* A sequence number names one item of one queue, and the counter is at or past
\* every number in use: commitAck looks a seq up across all the queues, so a
\* number in two of them would let one lieutenant's ack land on another's item.
SeqsUnique ==
  /\ \A l \in Lts : \A i \in ReadQueue(l) : i.seq <= qseq
  /\ \A l, m \in Lts : \A i \in ReadQueue(l), j \in ReadQueue(m) :
        i.seq = j.seq => l = m /\ i = j

\* No item is consumed before some drain has served it: an item at or below its
\* queue's ack cursor was served. A cursor left ahead of the queue, or a seq
\* handed out again below it, would consume an item nobody ever saw.
OnlyServedIsSettled ==
  \A l \in Lts : \A i \in ReadQueue(l) : i.seq <= ack[l] => i.seq \in served[l]

\* The in-memory index answers owed and queued as a re-read of every queue file
\* would, after pushes, retires and restarts in any order.
IndexAgreesWithFiles == msgSeqs = ScanQueues(Readable(queue, torn))

\* A card belongs to a registered lieutenant (createCard: "every card belongs
\* to exactly one lieutenant").
CardsHaveLieutenants == \A c \in Cards : owner[c] \in registered \cup {None}

\* What is pending stays on offer until its own queue's cursor passes it or its
\* lieutenant is retired; no crash, restart or other queue's ack takes it away.
PendingKept ==
  [][\A l \in Lts : \A i \in PendingItems(l) :
       i \in PendingItems(l)' \/ i.seq <= ack'[l] \/ l \in retiring \ retiring']_queueVars

\* "Only the ack clears owed" (server.js 1195): a target that stops being owed
\* had its lieutenant's cursor moved, unless it is the retired lieutenant's own
\* chat or a card that has no lieutenant.
OnlyAckClearsOwed ==
  [][\A t \in Targets :
       TargetOwed(t) /\ ~TargetOwed(t)' /\ (t \in Cards => owner'[t] \in registered')
         => \/ ack'[msgSeqs[t].lt] >= msgSeqs[t].seq
            \/ t \in retiring \ retiring']_queueVars

\* The drained cursor marks the start of the lieutenant's turn: when it moves,
\* the lieutenant itself was served up to it.
DrainedMeansServedToOwner ==
  [][\A l \in Lts : drained'[l] > drained[l] => hand'[l] = drained'[l]]_queueVars

\* The queues implement AtLeastOnce.
DeliveriesOf(l, S) == {[lt |-> l, item |-> i] : i \in S}
Promise == INSTANCE AtLeastOnce WITH
  outstanding <- UNION {DeliveriesOf(l, PendingItems(l)) : l \in Lts},
  offered <- UNION {DeliveriesOf(l, {i \in ReadQueue(l) : i.seq \in served[l]}) : l \in Lts},
  settled <- UNION {DeliveriesOf(l, ReadQueue(l) \ PendingItems(l)) : l \in Lts}

\* Every step of the server, its crashes included, is a step of the promise:
\* what is appended is offered until it is acked, and acked only once offered.
ImplementsAtLeastOnce == Promise!Spec
=============================================================================

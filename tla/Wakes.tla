------------------------------- MODULE Wakes -------------------------------
(***************************************************************************)
(* The wake half of a delivery (server.js 1121-1159) over the queues of    *)
(* module Queues: the nudged map, the line typed into a lieutenant's       *)
(* session, the turns of the agent that answers it, the turn-end re-nudge  *)
(* and the supervision sweep that revives a dead or deaf lieutenant.       *)
(***************************************************************************)
EXTENDS Queues

CONSTANTS
  MaxSends,   \* bound: wake lines in flight to one lieutenant
  MaxDeaths   \* bound: session deaths

ASSUME WakesAssumption == MaxSends \in Nat \ {0} /\ MaxDeaths \in Nat

VARIABLES
  nudged,  \* nudged[l]: no mark, a mark within WAKE_TTL_MS, or an older one
  sends,   \* sends[l]: harness.send calls in flight: cur, issued since the mark
           \* was last cleared; old, issued before that
  sess,    \* the session: down, idle, woken (turn begun), working (drained)
  deaths

wakeVars == <<nudged, sends, sess, deaths>>
vars == <<queueVars, wakeVars>>

InFlight(l) == sends[l].cur + sends[l].old

WakeInit ==
  /\ Init
  /\ nudged = [l \in Lts |-> "none"]
  /\ sends = [l \in Lts |-> [cur |-> 0, old |-> 0]]
  /\ sess = [l \in Lts |-> "idle"]
  /\ deaths = 0

-----------------------------------------------------------------------------
(* scheduleWake and the marks. *)

\* Mutant: a mark suppresses wakes however old it is.
SuppressedForever(mark) == mark # "none"
Suppressed(mark) == mark = "fresh"

\* scheduleWake(l) after the step, the mark being `mark` before it: a no-op when
\* l is not registered, has nothing pending or was nudged within the TTL.
ScheduleWake(l, mark) ==
  IF l \in registered' /\ PendingItems(l)' # {} /\ ~Suppressed(mark)
  THEN /\ InFlight(l) < MaxSends
       /\ nudged' = [nudged EXCEPT ![l] = "fresh"]
       /\ sends' = [sends EXCEPT ![l].cur = @ + 1]
  ELSE /\ nudged' = [nudged EXCEPT ![l] = mark]
       /\ UNCHANGED sends

\* Mutant: a drain or an ack leaves the mark.
KeepNudge(L) == UNCHANGED <<nudged, sends>>

\* The marks of the lieutenants in L are deleted: what is in flight to them was
\* sent before.
ClearNudge(L) ==
  /\ nudged' = [l \in Lts |-> IF l \in L THEN "none" ELSE nudged[l]]
  /\ sends' = [l \in Lts |-> IF l \in L THEN [cur |-> 0, old |-> InFlight(l)] ELSE sends[l]]

\* The mark outlives its TTL.
Lapse(l) ==
  /\ nudged[l] = "fresh"
  /\ nudged' = [nudged EXCEPT ![l] = "lapsed"]
  /\ sends' = [sends EXCEPT ![l] = [cur |-> 0, old |-> InFlight(l)]]
  /\ UNCHANGED <<queueVars, sess, deaths>>

\* A queue append and the wake that rides behind it.
Push(l) == Produce(l) /\ ScheduleWake(l, nudged[l]) /\ UNCHANGED <<sess, deaths>>

-----------------------------------------------------------------------------
(* The sends in flight. *)

\* Mutant: any send is taken for one of the current mark's.
ResolveCurrent(l) == InFlight(l) > 0 /\ sends' = [sends EXCEPT ![l].cur = @ - 1]

\* One send of l resolves.
Resolve(l) ==
  \/ sends[l].cur > 0 /\ sends' = [sends EXCEPT ![l].cur = @ - 1]
  \/ sends[l].old > 0 /\ sends' = [sends EXCEPT ![l].old = @ - 1]

\* The line is typed into an idle session and becomes a turn.
WakeLands(l) ==
  /\ sess[l] = "idle"
  /\ Resolve(l)
  /\ sess' = [sess EXCEPT ![l] = "woken"]
  /\ UNCHANGED <<queueVars, nudged, deaths>>

\* The line lands in a busy pane and never becomes a turn.
WakeLost(l) ==
  /\ sess[l] \in {"woken", "working"}
  /\ Resolve(l)
  /\ UNCHANGED <<queueVars, nudged, sess, deaths>>

\* The send rejects; the handler deletes the mark, whoever set it.
WakeFails(l) ==
  /\ Resolve(l)
  /\ nudged' = [nudged EXCEPT ![l] = "none"]
  /\ UNCHANGED <<queueVars, sess, deaths>>

-----------------------------------------------------------------------------
(* The agent's turn: drain, handle, ack, end. *)

\* A turn the wake did not start: somebody types at the terminal.
OtherTurn(l) ==
  /\ sess[l] = "idle"
  /\ sess' = [sess EXCEPT ![l] = "woken"]
  /\ UNCHANGED <<queueVars, nudged, sends, deaths>>

\* The first act of a turn is a drain, which clears the mark.
TurnDrain(l) ==
  /\ sess[l] = "woken"
  /\ \/ Drain(l)
     \/ l \in registered /\ PendingItems(l) = {} /\ UNCHANGED queueVars
  /\ ClearNudge({l})
  /\ sess' = [sess EXCEPT ![l] = "working"]
  /\ UNCHANGED deaths

TurnAck(l) ==
  /\ sess[l] = "working"
  /\ Ack(l, l)
  /\ ClearNudge({l})
  /\ UNCHANGED <<sess, deaths>>

\* The turn ends; the Stop hook's POST re-nudges, when it arrives.
TurnEnd(l) ==
  /\ sess[l] \in {"woken", "working"}
  /\ sess' = [sess EXCEPT ![l] = "idle"]
  /\ UNCHANGED <<queueVars, deaths>>
  /\ \/ ScheduleWake(l, nudged[l])
     \/ UNCHANGED <<nudged, sends>>

\* A drain from a worker's window, and the unidentified callers.
OtherDrain ==
  /\ \/ \E l \in Lts : CohabitantDrain(l) /\ ClearNudge({l})
     \/ \E x \in Tools : ToolDrain(x) /\ ClearNudge(Lts)
     \/ \E x \in Tools, l \in Lts : Ack(x, l) /\ ClearNudge({l})
  /\ UNCHANGED <<sess, deaths>>

-----------------------------------------------------------------------------
(* Sessions die; the supervision sweep wakes the living and revives the dead. *)

Dies(l) ==
  /\ sess[l] # "down"
  /\ deaths < MaxDeaths
  /\ deaths' = deaths + 1
  /\ sess' = [sess EXCEPT ![l] = "down"]
  /\ hand' = [hand EXCEPT ![l] = 0]
  /\ UNCHANGED <<boardVars, queue, torn, cursorVars, qseq, msgSeqs, served, restarts, nudged, sends>>

\* superviseTick, session up: re-run scheduleWake.
SweepAlive(l) ==
  /\ l \in registered
  /\ sess[l] # "down"
  /\ PendingItems(l) # {}
  /\ ~Suppressed(nudged[l])
  /\ UNCHANGED <<queueVars, sess, deaths>>
  /\ ScheduleWake(l, nudged[l])

\* superviseTick, session down: a new incarnation, the mark deleted, and a wake
\* (or the bare "session respawned" line, which sets no mark).
Respawn(l) ==
  /\ l \in registered
  /\ sess[l] = "down"
  /\ InFlight(l) < MaxSends
  /\ sess' = [sess EXCEPT ![l] = "idle"]
  /\ nudged' = [nudged EXCEPT ![l] = IF PendingItems(l) # {} THEN "fresh" ELSE "none"]
  /\ sends' = [sends EXCEPT ![l] =
       IF PendingItems(l) # {} THEN [cur |-> 1, old |-> InFlight(l)]
                               ELSE [cur |-> 0, old |-> InFlight(l) + 1]]
  /\ UNCHANGED <<queueVars, deaths>>

-----------------------------------------------------------------------------
(* The board and the server around them. *)

BoardStep ==
  /\ \/ \E c \in Cards, l \in Lts : CreateCard(c, l) \/ ReassignCard(c, l)
     \/ \E c \in Cards : ArchiveCard(c)
     \/ \E l \in Lts : RetireBegin(l)
  /\ UNCHANGED wakeVars

\* The mark goes with the lieutenant; its session too, when the kill worked.
Retired(l) ==
  /\ RetireCommit(l)
  /\ nudged' = [nudged EXCEPT ![l] = "none"]
  /\ \/ hand'[l] = 0 /\ sess' = [sess EXCEPT ![l] = "down"]
     \/ KillMayFail /\ UNCHANGED <<hand, sess>>
  /\ UNCHANGED <<sends, deaths>>

\* Registered again, with a live session.
Registered(l) ==
  /\ Register(l)
  /\ sess' = [sess EXCEPT ![l] = IF @ = "down" THEN "idle" ELSE @]
  /\ UNCHANGED <<nudged, sends, deaths>>

\* The marks and the sends are memory; the sessions are not the server's.
ServerRestarts ==
  /\ Crash
  /\ nudged' = [l \in Lts |-> "none"]
  /\ sends' = [l \in Lts |-> [cur |-> 0, old |-> 0]]
  /\ UNCHANGED <<sess, deaths>>

WakeNext ==
  \/ \E l \in Lts :
       \/ Push(l) \/ Lapse(l)
       \/ WakeLands(l) \/ WakeLost(l) \/ WakeFails(l)
       \/ OtherTurn(l) \/ TurnDrain(l) \/ TurnAck(l) \/ TurnEnd(l)
       \/ Dies(l) \/ SweepAlive(l) \/ Respawn(l)
       \/ Retired(l) \/ Registered(l)
  \/ OtherDrain
  \/ BoardStep
  \/ ServerRestarts

-----------------------------------------------------------------------------
(* Fairness: timers fire, promises settle and an agent ends the turn it      *)
(* began; a wake repeated forever finds the pane idle once, and turns begun  *)
(* forever drain once and ack once.                                          *)
WakeFairness(l) ==
  /\ WF_vars(Lapse(l))
  /\ WF_vars(WakeLands(l) \/ WakeLost(l) \/ WakeFails(l))
  /\ SF_vars(WakeLands(l))
  /\ SF_vars(TurnDrain(l)) /\ SF_vars(TurnAck(l)) /\ WF_vars(TurnEnd(l))
  /\ WF_vars(SweepAlive(l)) /\ WF_vars(Respawn(l))

WakeSafeSpec == WakeInit /\ [][WakeNext]_vars
WakeSpec == WakeSafeSpec /\ \A l \in Lts : WakeFairness(l)

-----------------------------------------------------------------------------
(* Properties. *)

\* The shape of the wake state.
WakeTypeOK ==
  /\ nudged \in [Lts -> {"none", "fresh", "lapsed"}]
  /\ sends \in [Lts -> [cur : 0..MaxSends, old : 0..MaxSends]]
  /\ sess \in [Lts -> {"down", "idle", "woken", "working"}]
  /\ deaths \in 0..MaxDeaths

Pending(l, n) == l \in registered /\ n \in SeqsOf(PendingItems(l))

\* Every item pending for a lieutenant is eventually consumed, whatever wakes
\* are lost, sessions die and servers restart meanwhile.
EveryItemConsumed == \A l \in Lts, n \in 1..MaxSeq : Pending(l, n) ~> ~Pending(l, n)

\* A mark stands for something pending: one left behind by an ack, a retire or a
\* restart would suppress the wake of the next item for a whole TTL.
NudgedOnlyWhilePending == \A l \in Lts : nudged[l] # "none" => PendingItems(l) # {}

\* "While items are pending-and-nudged, further appends do not stack identical
\* wakes" (server.js 1123): one wake in flight per mark.
WakesCoalesce == \A l \in Lts : sends[l].cur <= 1
=============================================================================

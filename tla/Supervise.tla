----------------------------- MODULE Supervise -----------------------------
(***************************************************************************)
(* One card's worker as the server watches it: its signals and its turns,  *)
(* the supervision tick with its ladder of stall alarms, what the owner is *)
(* told, the lease the worker writes and the state a reader is shown       *)
(* (server.js 1160-1175, 1315-1336, 1980-2000, 2450-2490, 3054-3065,       *)
(* 3450-3760, 3825-3884, 5242-5278).                                       *)
(*                                                                         *)
(* A unit of the clock is long enough for one whole tick.  What a worker   *)
(* is, how it starts, and what may fail about it, is in Workers.           *)
(***************************************************************************)
EXTENDS Integers, FiniteSets, FiniteSetsExt

CONSTANTS Window, Ttl, MaxClock, MaxActs

VARIABLES
  clock, ticked,      \* now, and whether this unit's tick has run
  col, held, w,       \* the card's column, whether a worker is on record, the record
  alive, turn,        \* its session, and whether its agent is in a turn
  posts, ends,        \* turn-end posts on their way, and those that read the agent's status
  tick, show,         \* the tick and a reader's GET, across their question to the session
  pausing,            \* a pause that waits for the kill
  lease, reply,       \* card.status.worker, and the state last read to a reader
  rung, rangAt, calm, \* history: the alarms of this silence, the last one, and when it began
  owes,               \* history: the worker stopped and its owner was not told
  acts                \* what the crew and the worker did so far, MaxActs at most
vars == <<clock, ticked, col, held, w, alive, turn, posts, ends, tick, show, pausing, lease, reply, rung, rangAt, calm, owes, acts>>
card == <<col, held, w>>
agent == <<alive, turn, posts>>
asks == <<ends, tick, show, pausing>>
lent == <<lease, reply>>
bell == <<rung, rangAt, calm>>
told == <<bell, owes>>

SuperviseAssumption == {Window, Ttl, MaxClock, MaxActs} \subseteq Nat

Fresh == [spawned |-> clock, lastTurnEnd |-> 0, lastSignal |-> 0, notified |-> 0, hits |-> 0,
          done |-> FALSE, paused |-> FALSE, expectExit |-> FALSE, flagged |-> FALSE, stopNotified |-> FALSE]
Quiet == [st |-> "idle", w |-> Fresh, old |-> FALSE]
(* the record a handler went on with: the one it asked about, dropped or not *)
Of(ask) == IF ask.old THEN ask.w ELSE w
Lets(ask) == IF ask.st = "idle" \/ ask.old THEN ask ELSE [ask EXCEPT !.w = w, !.old = TRUE]

ClearStale(r) == [r EXCEPT !.notified = 0, !.hits = 0]
Calmed == rung' = 0 /\ rangAt' = 0 /\ calm' = clock
LastActivity(r) == Max({r.spawned, r.lastTurnEnd, r.lastSignal})

(* the record of a worker that is back at work: reopened or resumed *)
Watching == ClearStale([w EXCEPT !.done = FALSE, !.flagged = FALSE, !.stopNotified = FALSE, !.paused = FALSE])

(* ------------------------------ the agent ------------------------------ *)
Sent ==       \* a finished worker that lives is reopened; then a line is typed into its pane
  /\ held /\ alive /\ turn' \in {turn, TRUE}
  /\ IF w.done
     THEN /\ w' = [Watching EXCEPT !.expectExit = FALSE]
          /\ col' = "working" /\ Calmed
     ELSE UNCHANGED <<col, w, bell>>
  /\ UNCHANGED <<held, alive, posts, asks, lent, owes>>
Signal ==
  /\ held /\ turn
  /\ w' = ClearStale([w EXCEPT !.lastSignal = clock, !.stopNotified = FALSE]) /\ Calmed
  /\ UNCHANGED <<col, held, agent, asks, lent, owes>>
Done ==
  /\ held /\ turn
  /\ w' = ClearStale([w EXCEPT !.done = TRUE, !.flagged = FALSE, !.expectExit = FALSE, !.stopNotified = FALSE])
  /\ Calmed
  /\ owes' = FALSE /\ UNCHANGED <<col, held, agent, asks, lent>>
MustTell == held /\ col = "working" /\ ~w.done
Stops ==      \* its hook posts, and the post may be lost
  /\ turn /\ turn' = FALSE
  /\ \/ posts < 2 /\ posts' = posts + 1 /\ owes' = (owes \/ MustTell)
     \/ UNCHANGED <<posts, owes>>
  /\ UNCHANGED <<card, alive, asks, lent, bell>>
Dies ==
  /\ alive /\ alive' = FALSE /\ turn' = FALSE
  /\ UNCHANGED <<card, posts, asks, lent, told>>

(* ------------------------------ the turn's end ------------------------------ *)
TurnEnd ==
  /\ posts > 0 /\ posts' = posts - 1
  /\ IF held THEN /\ w' = ClearStale([w EXCEPT !.lastTurnEnd = clock]) /\ ends' = ends + 1 /\ Calmed
             ELSE UNCHANGED <<w, ends, bell>>
  /\ UNCHANGED <<col, held, alive, turn, tick, show, pausing, lent, owes>>
RefreshAgentStatus ==      \* the status is read, well or badly, and the card looked at again
  /\ ends > 0 /\ ends' = ends - 1
  /\ IF MustTell THEN w' = [w EXCEPT !.stopNotified = TRUE] /\ owes' = FALSE ELSE UNCHANGED <<w, owes>>
  /\ UNCHANGED <<col, held, agent, tick, show, pausing, lent, bell>>

(* ------------------------------ the tick ------------------------------ *)
Watched == held /\ ~w.done /\ ~w.flagged /\ ~w.paused
SuperviseTick ==
  /\ tick.st = "idle" /\ ~ticked
  /\ IF Watched THEN tick' = [st |-> "asked", w |-> w, old |-> FALSE] /\ UNCHANGED ticked
                ELSE ticked' = TRUE /\ UNCHANGED tick
  /\ UNCHANGED <<clock, card, agent, ends, show, pausing, lent, told>>
Alive == tick.st = "asked" /\ tick' = [tick EXCEPT !.st = IF alive THEN "up" ELSE "down"]
         /\ UNCHANGED <<clock, ticked, card, agent, ends, show, pausing, lent, told>>
\* Mutant: what was asked about is judged, not what is.
AsAsked(r) == /\ col = "working" /\ clock - LastActivity(tick.w) > Window
              /\ tick.w.notified = 0 \/ clock - tick.w.notified > Window
Stalled(r) == /\ ~r.paused /\ col = "working"
              /\ clock - LastActivity(r) > Window
              /\ r.notified = 0 \/ clock - r.notified > Window
Judge ==
  /\ tick.st \in {"up", "down"} /\ tick' = Quiet /\ ticked' = TRUE
  /\ LET r == Of(tick)
         ring == tick.st = "up" /\ Stalled(r)
         new == IF ring THEN [r EXCEPT !.notified = clock, !.hits = @ + 1]
                ELSE IF tick.st = "down" /\ ~r.paused THEN [r EXCEPT !.flagged = TRUE] ELSE r
     IN  /\ IF tick.old THEN UNCHANGED w ELSE w' = new
         /\ IF ring /\ ~tick.old THEN rung' = rung + 1 /\ rangAt' = clock ELSE UNCHANGED <<bell>>
  /\ UNCHANGED <<clock, col, held, agent, ends, show, pausing, lent, calm, owes>>
Later == /\ ticked /\ clock < MaxClock /\ clock' = clock + 1 /\ ticked' = FALSE
         /\ UNCHANGED <<card, agent, asks, lent, told>>

(* ------------------------------ the crew ------------------------------ *)
LetGo == tick' = Lets(tick) /\ show' = Lets(show) /\ ends' = 0 /\ pausing' = FALSE
(* over nobody, or over a session that reported done *)
Start ==
  /\ col = "off" /\ (held => w.done)
  /\ col' = "working" /\ held' = TRUE /\ w' = Fresh /\ alive' = TRUE /\ turn' = TRUE
  /\ IF held THEN LetGo ELSE UNCHANGED asks
  /\ Calmed /\ UNCHANGED <<posts, lent, owes>>
Resume ==
  /\ held /\ ~alive /\ ~w.expectExit
  /\ alive' = TRUE /\ turn' = TRUE /\ col' = "working"
  /\ w' = Watching
  /\ Calmed /\ UNCHANGED <<held, posts, asks, lent, owes>>
(* The card leaves Working; a worker that reported done goes with it, if it can. *)
Handoff ==
  /\ col = "working" /\ col' = "off" /\ Calmed /\ owes' = FALSE
  /\ w' = ClearStale([w EXCEPT !.stopNotified = FALSE])
  /\ \/ held /\ w.done /\ held' = FALSE /\ LetGo /\ alive' = FALSE /\ turn' = FALSE
     \/ UNCHANGED <<held, alive, turn, asks>>
  /\ UNCHANGED <<posts, lent>>
Park ==
  /\ col = "working" /\ ~(held /\ alive) /\ col' = "off" /\ Calmed /\ owes' = FALSE
  /\ w' = ClearStale([w EXCEPT !.stopNotified = FALSE])
  /\ UNCHANGED <<held, agent, asks, lent>>
(* Marked before the kill; a worker that expects its own exit is marked and not killed. *)
Pause ==
  /\ held /\ ~w.done /\ ~pausing
  /\ \E exits \in BOOLEAN :
       /\ pausing' = ~exits
       /\ w' = ClearStale([w EXCEPT !.paused = TRUE, !.expectExit = @ \/ exits, !.stopNotified = FALSE])
  /\ Calmed
  /\ UNCHANGED <<col, held, agent, ends, tick, show, lent, owes>>
PauseKills ==
  /\ pausing /\ pausing' = FALSE
  /\ \/ /\ alive' = FALSE /\ turn' = FALSE /\ UNCHANGED calm
        /\ w' = [w EXCEPT !.expectExit = FALSE]
     \/ w' = [w EXCEPT !.paused = FALSE] /\ calm' = clock /\ UNCHANGED <<alive, turn>>
  /\ UNCHANGED <<col, held, posts, ends, tick, show, lent, rung, rangAt, owes>>

(* ------------------------------ the lease and its readers ------------------------------ *)
SetStatus(state) ==
  /\ lease' = [state |-> state, expires |-> clock + Ttl]
  /\ UNCHANGED <<card, agent, asks, reply, told>>
Decays == {"working", "needs-you"}
DerivedWorker == IF lease.state \in Decays /\ lease.expires <= clock THEN "idle" ELSE lease.state
(* a written lease is the answer; without one the session is asked *)
Show ==
  /\ show.st = "idle"
  /\ IF DerivedWorker = "absent" /\ held
     THEN show' = [st |-> "asked", w |-> w, old |-> FALSE] /\ reply' = "none"
     ELSE reply' = DerivedWorker /\ UNCHANGED show
  /\ UNCHANGED <<card, agent, ends, tick, pausing, lease, told>>
Asked == show.st = "asked" /\ show' = [show EXCEPT !.st = IF alive THEN "up" ELSE "down"]
         /\ UNCHANGED <<card, agent, ends, tick, pausing, lent, told>>
Word == LET r == Of(show) IN IF r.done \/ r.paused THEN "idle" ELSE "working"
StatusWithLiveness ==
  /\ show.st \in {"up", "down"} /\ show' = Quiet
  /\ reply' = IF show.st = "up" THEN Word ELSE "absent"
  /\ UNCHANGED <<card, agent, ends, tick, pausing, lease, told>>

Init ==
  /\ clock = 1 /\ ticked = FALSE /\ col = "off" /\ held = FALSE /\ w = Fresh
  /\ alive = FALSE /\ turn = FALSE /\ posts = 0 /\ ends = 0 /\ tick = Quiet /\ show = Quiet
  /\ pausing = FALSE /\ lease = [state |-> "absent", expires |-> 0] /\ reply = "none"
  /\ rung = 0 /\ rangAt = 0 /\ calm = 0 /\ owes = FALSE /\ acts = 0
Act ==
  \/ Sent \/ Signal \/ Done \/ Stops \/ Dies \/ Start \/ Resume \/ Handoff \/ Park \/ Pause
  \/ Show \/ \E s \in {"absent", "idle", "working"} : SetStatus(s)
Answered == TurnEnd \/ RefreshAgentStatus \/ PauseKills \/ Asked \/ StatusWithLiveness
Next ==
  \/ acts < MaxActs /\ acts' = acts + 1 /\ Act /\ UNCHANGED <<clock, ticked>>
  \/ Answered /\ UNCHANGED <<clock, ticked, acts>>
  \/ (SuperviseTick \/ Alive \/ Judge \/ Later) /\ UNCHANGED acts
Spec == Init /\ [][Next]_vars
----------------------------------------------------------------------------
(* The ladder on the record is the alarms of this silence: a signal, a turn's end, done, a  *)
(* pause, a resume or leaving Working ends it, whatever a tick had asked before, so the     *)
(* first alarm of a silence is quiet and the second is loud (server.js 3457, 3829-3836).    *)
LadderIsThisSilence == held => w.hits = rung /\ w.notified = rangAt
(* An alarm rings after a whole window without a spawn, a signal or a turn's end, and a     *)
(* whole window after the last one (one for a record dropped meanwhile is no news of it)  *)
(* (server.js 3831, stale.test.js).                                                         *)
RingsOnSilence == [][
  rung' > rung => /\ \A t \in {w.spawned, w.lastSignal, w.lastTurnEnd} : clock - t > Window
                  /\ rung > 0 => clock - rangAt > Window]_vars
(* A worker that hangs comes to the captain: two windows of silence, watched throughout,    *)
(* have rung the loud alarm, whatever else the tick's questions crossed (server.js          *)
(* 3829-3836, 3713-3717).                                                                   *)
HangIsLoud ==
  /\ ticked /\ tick.st = "idle" /\ Watched /\ alive /\ col = "working"
  /\ clock - Max({LastActivity(w), calm}) > 2 * Window + 1
  => w.hits >= 2
(* Every stop of a worker on a Working card is told to its owner, the second of two in a    *)
(* row too (server.js 5259-5263 "a worker re-sent after a stop ... has stopped AGAIN").     *)
StopIsTold == posts = 0 /\ ends = 0 /\ held /\ col = "working" => ~owes
(* A reader is never told that a worker works that has reported done or was paused while    *)
(* its session was asked (server.js 2482).                                                  *)
NotShownWorking == [][
  reply' = "working" /\ show.st = "up" /\ show' = Quiet /\ ~show.old => ~w.done /\ ~w.paused]_vars
=============================================================================

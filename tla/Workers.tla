------------------------------- MODULE Workers -------------------------------
(***************************************************************************)
(* The life of one card's workers (server.js 2434-3712 and the routes that *)
(* drive it): start, resume, done, send, pause, park, the handoff, archive *)
(* and restore, the merged-PR tick, the supervision tick, the boot sweep.  *)
(*                                                                         *)
(* Handlers interleave at their awaits. A handler in flight is a task: the *)
(* card object and the worker record it captured, what it awaits, and the  *)
(* answer. An await takes two steps, the answer (with its effect on the    *)
(* world) and the continuation, so that what was answered can be stale.    *)
(* Cards share neither pane nor git worktree path: one card is enough.     *)
(***************************************************************************)
EXTENDS Naturals, Sequences

CONSTANTS
  Slots,        \* handlers that may be in flight together
  Ops,          \* the handlers of this instance
  Keep,         \* the playbook's keep_worktree
  KillMayFail,  \* may harness.kill throw, or leave the pane and not say so?
  MaxRecs,      \* bound: worker records ever made
  MaxGens,      \* bound: times the card object is (re)made, restores included
  MaxRestarts   \* bound: server restarts

AllOps == {"start", "resume", "done", "send", "pause", "park", "watch",
           "handoff", "archive", "merge", "restore"}

ASSUME WorkersAssumption ==
  /\ Ops \subseteq AllOps
  /\ Keep \in BOOLEAN /\ KillMayFail \in BOOLEAN
  /\ MaxRecs \in Nat \ {0} /\ MaxGens \in Nat \ {0} /\ MaxRestarts \in Nat

VARIABLES
  onBoard,   \* the card is on the board (off it: archived)
  col,       \* its column; off the board, the frozen one
  gen,       \* which object carries it: a restore makes a new one
  pointer,   \* attributes.worktree is set
  recs,      \* every record ever pushed on board.workers, in order
  pane,      \* the card's tmux window: none (or stopped: taken by a pause), a
             \* bare shell, a live agent
  ground,    \* the worktree at the card's path: none, clean, dirty
  task,      \* the handlers in flight
  sweep,     \* the record the boot sweep has yet to visit, 0 if none
  restarts

vars == <<onBoard, col, gen, pointer, recs, pane, ground, task, sweep, restarts>>
cardVars == <<onBoard, col, gen, pointer>>
world == <<pane, ground>>
boot == <<sweep, restarts>>

Columns == {"backlog", "working", "review"}
Rec == [reg : BOOLEAN, done : BOOLEAN, flagged : BOOLEAN, paused : BOOLEAN,
        expectExit : BOOLEAN, killFailed : BOOLEAN, released : BOOLEAN]
NewRec == [reg |-> TRUE, done |-> FALSE, flagged |-> FALSE, paused |-> FALSE,
           expectExit |-> FALSE, killFailed |-> FALSE, released |-> FALSE]
Free == [kind |-> "free", pc |-> "none", ans |-> "none", w |-> 0, gen |-> 0, flag |-> FALSE]

\* findWorker: the first record of board.workers, 0 when there is none.
FindIn(rs) ==
  IF \E r \in DOMAIN rs : rs[r].reg
  THEN CHOOSE r \in DOMAIN rs : rs[r].reg /\ \A q \in DOMAIN rs : rs[q].reg => r <= q
  ELSE 0
FindWorker == FindIn(recs)

-----------------------------------------------------------------------------
(* Tasks. *)

InFlight(kinds) == \E s \in Slots : task[s].kind \in kinds

\* Awaits that only let time pass: a request body, hook scripts, a teardown.
Delays == {"body", "hooks", "teardown"}
AwaitOf(pc) == IF pc \in Delays THEN "ok" ELSE "wait"

Begin(s, kind, pc, w, flag) ==
  /\ task[s] = Free
  /\ task' = [task EXCEPT ![s] = [kind |-> kind, pc |-> pc, ans |-> AwaitOf(pc),
                                  w |-> w, gen |-> gen, flag |-> flag]]
GoTo(s, pc, flag) ==
  task' = [task EXCEPT ![s].pc = pc, ![s].ans = AwaitOf(pc), ![s].flag = flag]
Go(s, pc) == GoTo(s, pc, task[s].flag)
\* Mutant: what the handler held is not let go of.
EndOnly(s) == task' = [task EXCEPT ![s].kind = "free"]
End(s) == task' = [task EXCEPT ![s] = Free]

At(s, kinds, pc) == task[s].kind \in kinds /\ task[s].pc = pc /\ task[s].ans # "wait"
Says(s, ans) == task[s].ans = ans
W(s) == task[s].w

\* The handler's card object is the one on the board.
Current(s) == onBoard /\ task[s].gen = gen
MoveTo(s, column) == col' = IF Current(s) THEN column ELSE col
EnterWorking(s) == MoveTo(s, "working")

Outcome(a, p, g) == [ans |-> a, pane |-> p, ground |-> g]

\* What an await can answer, and what it leaves of the pane and the ground.
Outcomes(pc) ==
  CASE pc \in {"alive", "verify"} ->
         {Outcome(IF pane = "live" THEN "up" ELSE "down", pane, ground)}
    [] pc \in {"kill", "pauseKill", "abortKill"} ->
         {Outcome("ok", IF pc = "pauseKill" /\ pane = "live" THEN "stopped" ELSE "none", ground)}
           \cup (IF KillMayFail THEN {Outcome("ok", pane, ground), Outcome("err", pane, ground)}
                               ELSE {})
    [] pc \in {"release", "stale", "undo", "abort"} ->
         {IF ground = "dirty" THEN Outcome("kept", pane, ground)
                              ELSE Outcome("released", pane, "none")}
    [] pc = "create" ->
         {Outcome("err", pane, ground)}
           \cup (IF ground = "none" THEN {Outcome("ok", pane, "clean")} ELSE {})
    [] pc = "spawn" ->
         {Outcome("err", pane, ground)}
           \cup (IF pane \in {"none", "stopped"} /\ ground # "none"
                 THEN {Outcome("ok", "live", ground)} ELSE {})
    [] pc = "resume" ->
         {Outcome("ok", "live", ground),
          Outcome("err", IF pane = "live" THEN pane ELSE "none", ground)}

\* The harness, tmux or git answers an await.
Answer(s) ==
  /\ task[s].ans = "wait"
  /\ \E o \in Outcomes(task[s].pc) :
       /\ task' = [task EXCEPT ![s].ans = o.ans]
       /\ pane' = o.pane
       /\ ground' = o.ground
  /\ UNCHANGED <<cardVars, recs, boot>>

-----------------------------------------------------------------------------
(* killCardWorker: kill, then alive again; the record only notes a failure.  *)
(* dropWorkerRecord: only the record that still holds the card goes.         *)

\* killCardWorker acts only on the record that holds the card.
Killable(w) == w # 0 /\ FindWorker = w

KillVerify(s) ==
  /\ task[s].pc = "kill" /\ Says(s, "ok")
  /\ Go(s, "verify")
  /\ UNCHANGED <<cardVars, recs, world, boot>>

KillOver(s) ==
  \/ task[s].pc = "verify" /\ ~Says(s, "wait")
  \/ task[s].pc = "kill" /\ Says(s, "err")
\* Mutant: the kill is believed without asking alive() again.
Believed(s) == ~Says(s, "err")
Verified(s) == Says(s, "down")
NoteKill(s) == [recs EXCEPT ![W(s)].killFailed = ~Verified(s)]

\* Mutant: whatever record holds the card is dropped.
DropAny(rs, w) == [r \in DOMAIN rs |-> [rs[r] EXCEPT !.reg = FALSE]]
Drop(rs, w) == IF w # 0 /\ FindIn(rs) = w THEN [rs EXCEPT ![w].reg = FALSE] ELSE rs

-----------------------------------------------------------------------------
(* card.start *)

\* No record, or none any more: release against the card's own pointer first.
WithoutRecord(pc) == pc = (IF pointer /\ ground # "none" THEN "stale" ELSE "create")

\* Mutant: no per-card guard on starts.
Unguarded == TRUE
NotStarting == ~InFlight({"start", "resume"})

StartBegin(s) ==
  /\ "start" \in Ops /\ onBoard /\ NotStarting
  /\ col # "working"
  /\ FindWorker # 0 => recs[FindWorker].done
  /\ Len(recs) < MaxRecs
  /\ \E pc \in {"alive", "stale", "create"} :
       /\ IF FindWorker # 0 THEN pc = "alive" ELSE WithoutRecord(pc)
       /\ Begin(s, "start", pc, FindWorker, FALSE)
       /\ pointer' = (pointer /\ pc # "create")
  /\ UNCHANGED <<onBoard, col, gen, recs, world, boot>>

\* A live session is not spawned over, unless it is done and its ground gone.
StartAlive(s) ==
  /\ At(s, {"start"}, "alive")
  /\ LET w == W(s)
         proceeds == Says(s, "down") \/ (recs[w].done /\ ground = "none")
     IN  IF ~proceeds \/ FindWorker \notin {0, w} THEN End(s) /\ UNCHANGED pointer
         ELSE \E pc \in {"kill", "stale", "create"} :
                /\ IF Killable(w) THEN pc = "kill" ELSE WithoutRecord(pc)
                /\ Go(s, pc)
                /\ pointer' = (pointer /\ ~(pc = "create" /\ Current(s)))
  /\ UNCHANGED <<onBoard, col, gen, recs, world, boot>>

StartKilled(s) ==
  /\ task[s].kind = "start" /\ KillOver(s)
  /\ recs' = NoteKill(s)
  /\ IF Verified(s) THEN Go(s, "release") ELSE End(s)
  /\ UNCHANGED <<cardVars, world, boot>>

StartReleased(s) ==
  /\ At(s, {"start"}, "release")
  /\ IF Says(s, "released") THEN recs' = Drop(recs, W(s)) /\ Go(s, "create")
                            ELSE UNCHANGED recs /\ End(s)
  /\ UNCHANGED <<cardVars, world, boot>>

StartStale(s) ==
  /\ At(s, {"start"}, "stale")
  /\ IF Says(s, "released") THEN Go(s, "create") /\ pointer' = (pointer /\ ~Current(s))
                            ELSE End(s) /\ UNCHANGED pointer
  /\ UNCHANGED <<onBoard, col, gen, recs, world, boot>>

StartCreated(s) ==
  /\ At(s, {"start"}, "create")
  /\ IF Says(s, "ok") THEN Go(s, "spawn") ELSE End(s)
  /\ UNCHANGED <<cardVars, recs, world, boot>>

\* Spawned: bound to whatever card object the start began with, if some object
\* of that id is on the board; a start whose card left gives everything back.
StartSpawned(s) ==
  /\ At(s, {"start"}, "spawn")
  /\ IF Says(s, "ok") /\ onBoard
     THEN /\ recs' = Append(recs, NewRec)
          /\ pointer' = (pointer \/ Current(s))
          /\ EnterWorking(s)
          /\ End(s)
     ELSE /\ Go(s, IF Says(s, "ok") THEN "abortKill" ELSE "undo")
          /\ UNCHANGED <<recs, pointer, col>>
  /\ UNCHANGED <<onBoard, gen, world, boot>>

StartUndone(s) ==
  /\ \/ At(s, {"start"}, "abortKill") /\ Go(s, "abort")
     \/ (At(s, {"start"}, "undo") \/ At(s, {"start"}, "abort")) /\ End(s)
  /\ UNCHANGED <<cardVars, recs, world, boot>>

\* card.start --resume: the recorded worker comes back in its own worktree.
ResumeBegin(s) ==
  /\ "resume" \in Ops /\ onBoard /\ NotStarting
  /\ FindWorker # 0 /\ ~recs[FindWorker].expectExit /\ ground # "none"
  /\ Begin(s, "resume", "resume", FindWorker, FALSE)
  /\ UNCHANGED <<cardVars, recs, world, boot>>

\* The record is written and the card enters Working, whoever holds it by now.
Resumed(s) ==
  /\ At(s, {"resume"}, "resume")
  /\ IF Says(s, "ok") /\ onBoard
     THEN /\ recs' = [recs EXCEPT ![W(s)].done = FALSE, ![W(s)].flagged = FALSE,
                                  ![W(s)].paused = FALSE, ![W(s)].killFailed = FALSE]
          /\ EnterWorking(s)
          /\ End(s)
     ELSE /\ IF Says(s, "ok") THEN Go(s, "abortKill") ELSE End(s)
          /\ UNCHANGED <<recs, col>>
  /\ UNCHANGED <<onBoard, gen, pointer, world, boot>>

ResumeUndone(s) ==
  /\ At(s, {"resume"}, "abortKill")
  /\ End(s)
  /\ UNCHANGED <<cardVars, recs, world, boot>>

-----------------------------------------------------------------------------
(* The worker's own words, and the lieutenant's to it. *)

WorkerDone ==
  /\ "done" \in Ops /\ onBoard /\ pane = "live"
  /\ FindWorker # 0
  /\ recs' = [recs EXCEPT ![FindWorker].done = TRUE, ![FindWorker].flagged = FALSE,
                          ![FindWorker].expectExit = FALSE]
  /\ UNCHANGED <<cardVars, world, task, boot>>

SendBegin(s) ==
  /\ "send" \in Ops /\ onBoard /\ FindWorker # 0
  /\ Begin(s, "send", "alive", FindWorker, FALSE)
  /\ UNCHANGED <<cardVars, recs, world, boot>>

\* A done worker that was alive, on ground that is there, is reopened.
SendAlive(s) ==
  /\ At(s, {"send"}, "alive")
  /\ IF recs[W(s)].done /\ ground # "none" /\ Says(s, "up")
     THEN /\ recs' = [recs EXCEPT ![W(s)].done = FALSE, ![W(s)].flagged = FALSE,
                                  ![W(s)].paused = FALSE, ![W(s)].killFailed = FALSE,
                                  ![W(s)].expectExit = FALSE]
          /\ EnterWorking(s)
     ELSE UNCHANGED <<recs, col>>
  /\ End(s)
  /\ UNCHANGED <<onBoard, gen, pointer, world, boot>>

\* worker.pause marks before it kills; --expect-exit marks and kills nothing.
\* (--park is this and then a park.)
PauseBegin(s) ==
  /\ "pause" \in Ops /\ onBoard
  /\ FindWorker # 0 /\ ~recs[FindWorker].done
  /\ \/ /\ recs' = [recs EXCEPT ![FindWorker].paused = TRUE, ![FindWorker].expectExit = TRUE]
        /\ UNCHANGED task
     \/ /\ recs' = [recs EXCEPT ![FindWorker].paused = TRUE]
        /\ Begin(s, "pause", "pauseKill", FindWorker, FALSE)
  /\ UNCHANGED <<cardVars, world, boot>>

PauseKilled(s) ==
  /\ At(s, {"pause"}, "pauseKill")
  /\ recs' = IF Says(s, "ok") THEN [recs EXCEPT ![W(s)].expectExit = FALSE]
                              ELSE [recs EXCEPT ![W(s)].paused = FALSE]
  /\ End(s)
  /\ UNCHANGED <<cardVars, world, boot>>

ParkBegin(s) ==
  /\ "park" \in Ops /\ onBoard /\ col = "working"
  /\ IF FindWorker = 0 THEN col' = "backlog" /\ UNCHANGED task
                       ELSE Begin(s, "park", "alive", FindWorker, FALSE) /\ UNCHANGED col
  /\ UNCHANGED <<onBoard, gen, pointer, recs, world, boot>>

\* Mutant: a live worker is parked all the same.
ParkAnyway(s) == TRUE
ParkAllowed(s) == Says(s, "down")
ParkAlive(s) ==
  /\ At(s, {"park"}, "alive")
  /\ IF ParkAllowed(s) THEN MoveTo(s, "backlog") ELSE UNCHANGED col
  /\ End(s)
  /\ UNCHANGED <<onBoard, gen, pointer, recs, world, boot>>

\* superviseTick over this worker; ticks never overlap.
WatchBegin(s) ==
  /\ "watch" \in Ops /\ ~InFlight({"watch"}) /\ FindWorker # 0
  /\ LET w == recs[FindWorker] IN ~w.done /\ ~w.flagged /\ ~w.paused
  /\ Begin(s, "watch", "alive", FindWorker, FALSE)
  /\ UNCHANGED <<cardVars, recs, world, boot>>

Died(s) == Says(s, "down") /\ ~recs[W(s)].paused

\* Of what the await let happen, only a pause is asked about again.
WatchAlive(s) ==
  /\ At(s, {"watch"}, "alive")
  /\ recs' = IF Died(s) THEN [recs EXCEPT ![W(s)].flagged = TRUE] ELSE recs
  /\ End(s)
  /\ UNCHANGED <<cardVars, world, boot>>

-----------------------------------------------------------------------------
(* Leaving: the handoff, archive, the merged PR. Each ends the worker, then  *)
(* gives the ground back, then drops the record; all but the first step runs *)
(* detached from the request.                                                *)

Detached == {"handoff", "archive", "merge"}

\* A worker bound since a merge was noticed: neither nobody nor the one it saw.
BoundSince(t, rs) == FindIn(rs) \notin {0, t.w}

\* The chain ends, rs being the records after the release: the record goes when
\* its kill was verified (and, at a handoff, the ground positively went). A
\* merged PR then ends whatever worker is bound by now and archives the card.
Finish(s, killed, released, rs) ==
  LET t == task[s]
      left == IF killed /\ (released \/ t.kind # "handoff") THEN Drop(rs, t.w) ELSE rs
  IN  /\ recs' = left
      /\ IF t.kind = "merge" /\ BoundSince(t, left)
         THEN /\ task' = [task EXCEPT ![s].kind = "late", ![s].w = FindIn(left),
                                      ![s].pc = "kill", ![s].ans = "wait"]
              /\ UNCHANGED onBoard
         ELSE /\ End(s)
              /\ onBoard' = (onBoard /\ t.kind # "merge")

\* Nobody, or the record being released, holds the card and so its path.
HoldsGround(w) == FindWorker \in {0, w}
Kept(s) == task[s].kind = "handoff" /\ W(s) # 0 /\ Keep

\* releaseCardWorktree up to the teardown it awaits, or its early returns.
EnterRelease(s, killed, rs) ==
  IF HoldsGround(W(s)) /\ (W(s) # 0 \/ pointer) /\ ~Kept(s)
  THEN GoTo(s, "teardown", killed) /\ recs' = rs /\ UNCHANGED onBoard
  ELSE Finish(s, killed, FALSE, rs)

\* What follows the kill: a handoff releases, the others run their hooks first.
AfterKill(s, killed, rs) ==
  IF task[s].kind = "handoff" THEN EnterRelease(s, killed, rs)
  ELSE GoTo(s, "hooks", killed) /\ recs' = rs /\ UNCHANGED onBoard

HandoffBegin(s) ==
  /\ "handoff" \in Ops /\ onBoard
  /\ Begin(s, "handoff", "body", FindWorker, col = "working")
  /\ UNCHANGED <<cardVars, recs, world, boot>>

\* moveCard: an agent hands off to review; the captain also takes a Working card
\* to the backlog. The worker ends with it when it had left Working and was done.
HandoffMoved(s) ==
  /\ At(s, {"handoff"}, "body")
  /\ \E column \in {"review"} \cup (IF col = "working" THEN {"backlog"} ELSE {}) :
       MoveTo(s, column)
  /\ IF ~task[s].flag \/ (W(s) # 0 /\ ~recs[W(s)].done)
     THEN End(s) /\ UNCHANGED <<recs, onBoard>>
     ELSE IF Killable(W(s)) /\ ~Kept(s)
          THEN Go(s, "kill") /\ UNCHANGED <<recs, onBoard>>
          ELSE AfterKill(s, FALSE, recs)
  /\ UNCHANGED <<gen, pointer, world, boot>>

ArchiveBegin(s) ==
  /\ "archive" \in Ops /\ onBoard
  /\ Begin(s, "archive", "body", FindWorker, FALSE)
  /\ UNCHANGED <<cardVars, recs, world, boot>>

\* archiveCard takes whatever object carries the id off the board.
Archived(s) ==
  /\ At(s, {"archive"}, "body")
  /\ onBoard' = FALSE
  /\ Go(s, IF Killable(W(s)) THEN "kill" ELSE "hooks")
  /\ UNCHANGED <<col, gen, pointer, recs, world, boot>>

\* prWatchTick: the last open PR of the card has merged; ticks never overlap.
MergeBegin(s) ==
  /\ "merge" \in Ops /\ onBoard /\ ~InFlight({"merge", "late"})
  /\ Begin(s, "merge", IF FindWorker # 0 THEN "kill" ELSE "hooks", FindWorker, FALSE)
  /\ UNCHANGED <<cardVars, recs, world, boot>>

DetachedKilled(s) ==
  /\ task[s].kind \in Detached /\ KillOver(s)
  /\ AfterKill(s, Verified(s), NoteKill(s))
  /\ UNCHANGED <<col, gen, pointer, world, boot>>

HooksRan(s) ==
  /\ At(s, Detached, "hooks")
  /\ EnterRelease(s, task[s].flag, recs)
  /\ UNCHANGED <<col, gen, pointer, world, boot>>

\* After the teardown the holder is asked again; then the clone lock.
TornDown(s) ==
  /\ At(s, Detached, "teardown")
  /\ IF HoldsGround(W(s)) THEN Go(s, "release") /\ UNCHANGED <<recs, onBoard>>
                          ELSE Finish(s, task[s].flag, FALSE, recs)
  /\ UNCHANGED <<col, gen, pointer, world, boot>>

Released(s) ==
  /\ At(s, Detached, "release")
  /\ LET gone == Says(s, "released")
     IN  /\ pointer' = (pointer /\ ~(gone /\ onBoard))
         /\ Finish(s, task[s].flag, gone,
                   IF gone /\ W(s) # 0 THEN [recs EXCEPT ![W(s)].released = TRUE] ELSE recs)
  /\ UNCHANGED <<col, gen, world, boot>>

\* The worker bound while the merge was being handled ends too.
LateKilled(s) ==
  /\ task[s].kind = "late" /\ KillOver(s)
  /\ recs' = IF Verified(s) THEN Drop(NoteKill(s), W(s)) ELSE NoteKill(s)
  /\ onBoard' = FALSE
  /\ End(s)
  /\ UNCHANGED <<col, gen, pointer, world, boot>>

\* Mutant: the column is restored as it was frozen.
AsFrozen == col
RestoredColumn == IF col = "working" THEN "backlog" ELSE col

\* card.restore: a new object from the frozen snapshot, out of Working.
Restore ==
  /\ "restore" \in Ops /\ ~onBoard /\ gen < MaxGens
  /\ onBoard' = TRUE
  /\ gen' = gen + 1
  /\ col' = RestoredColumn
  /\ UNCHANGED <<pointer, recs, world, task, boot>>

-----------------------------------------------------------------------------
(* The server restarts: handlers in flight are gone, panes and ground stay;  *)
(* the boot sweep visits the records it finds.                               *)

Restart ==
  /\ restarts < MaxRestarts
  /\ restarts' = restarts + 1
  /\ task' = [s \in Slots |-> Free]
  /\ sweep' = FindWorker
  /\ UNCHANGED <<cardVars, recs, world>>

\* Spared: a Working card's record, a kept worker, one that never reported done.
Spared(w) == onBoard /\ (col = "working" \/ Keep \/ ~recs[w].done)

\* flag: on the board, the record still holds ground; off it, a kill had failed.
SweepVisit(s) ==
  /\ sweep # 0
  /\ sweep' = 0
  /\ IF Spared(sweep) \/ ~Killable(sweep) THEN UNCHANGED task
     ELSE Begin(s, IF onBoard THEN "sweepOn" ELSE "sweepOff", "kill", sweep,
                IF onBoard THEN ~recs[sweep].released ELSE recs[sweep].killFailed)
  /\ UNCHANGED <<cardVars, recs, world, restarts>>

SweepKilled(s) ==
  /\ task[s].kind \in {"sweepOn", "sweepOff"} /\ KillOver(s)
  /\ LET drops == IF task[s].kind = "sweepOn" THEN Verified(s) /\ ~task[s].flag
                                              ELSE Verified(s) \/ task[s].flag
     IN  recs' = IF drops THEN Drop(NoteKill(s), W(s)) ELSE NoteKill(s)
  /\ End(s)
  /\ UNCHANGED <<cardVars, world, boot>>

-----------------------------------------------------------------------------
(* The world: the agent exits (its window may stay), writes, commits.        *)

AgentExits ==
  /\ pane = "live"
  /\ pane' \in {"shell", "none"}
  /\ UNCHANGED <<cardVars, recs, ground, task, boot>>

Work ==
  /\ ground # "none"
  /\ ground' \in (IF pane = "live" THEN {"clean", "dirty"} ELSE {"clean"})
  /\ ground' # ground
  /\ UNCHANGED <<cardVars, recs, pane, task, boot>>

-----------------------------------------------------------------------------
Begins(s) ==
  \/ StartBegin(s) \/ ResumeBegin(s) \/ SendBegin(s) \/ PauseBegin(s) \/ ParkBegin(s)
  \/ WatchBegin(s) \/ HandoffBegin(s) \/ ArchiveBegin(s) \/ MergeBegin(s)

\* What a handler in flight does next.
Continues(s) ==
  \/ Answer(s) \/ KillVerify(s)
  \/ StartAlive(s) \/ StartKilled(s) \/ StartReleased(s) \/ StartStale(s)
  \/ StartCreated(s) \/ StartSpawned(s) \/ StartUndone(s)
  \/ Resumed(s) \/ ResumeUndone(s) \/ SendAlive(s) \/ PauseKilled(s) \/ ParkAlive(s)
  \/ WatchAlive(s) \/ HandoffMoved(s) \/ Archived(s) \/ DetachedKilled(s) \/ HooksRan(s)
  \/ TornDown(s) \/ Released(s) \/ LateKilled(s) \/ SweepKilled(s)

Next ==
  \/ \E s \in Slots : Begins(s) \/ Continues(s) \/ SweepVisit(s)
  \/ WorkerDone \/ Restore \/ Restart \/ AgentExits \/ Work

\* A card nobody works on, or one whose worker is at work.
Init ==
  /\ onBoard = TRUE /\ gen = 1 /\ sweep = 0 /\ restarts = 0
  /\ task = [s \in Slots |-> Free]
  /\ \/ /\ col = "backlog" /\ pointer = FALSE /\ recs = <<>>
        /\ pane = "none" /\ ground = "none"
     \/ /\ col = "working" /\ pointer = TRUE /\ recs = <<NewRec>>
        /\ pane = "live" /\ ground \in {"clean", "dirty"}

Spec == Init /\ [][Next]_vars

\* Promises settle, hooks and teardowns run on budgets, the sweep runs.
Fairness == /\ \A s \in Slots : WF_vars(Continues(s))
            /\ WF_vars(\E s \in Slots : SweepVisit(s))
FairSpec == Spec /\ Fairness

-----------------------------------------------------------------------------
(* Properties. *)

Kinds == AllOps \cup {"free", "late", "sweepOn", "sweepOff"}

\* The shape of the state.
TypeOK ==
  /\ onBoard \in BOOLEAN /\ col \in Columns /\ gen \in 1..MaxGens /\ pointer \in BOOLEAN
  /\ recs \in Seq(Rec) /\ Len(recs) <= MaxRecs
  /\ pane \in {"none", "stopped", "shell", "live"} /\ ground \in {"none", "clean", "dirty"}
  /\ \A s \in Slots : /\ task[s].kind \in Kinds /\ task[s].w \in {0} \cup DOMAIN recs
                       /\ task[s].kind = "free" => task[s] = Free
  /\ sweep \in {0} \cup DOMAIN recs /\ restarts \in 0..MaxRestarts

\* One worker per card: however starts, handoffs, archives and restores overlap,
\* board.workers never holds two records of the card.
OneRecord == \A q, r \in DOMAIN recs : recs[q].reg /\ recs[r].reg => q = r

\* A live agent has a record on the board, or a start that will bind or end it.
NoLeakedWorker == pane = "live" => FindWorker # 0 \/ InFlight({"start", "resume"})

\* Both: however starts, handoffs, archives and restores overlap, a card has one
\* worker, and no agent lives that no record on the board, or start, answers for.
OneWorker == OneRecord /\ NoLeakedWorker

\* Working has a worker on record: dead or paused, it is still there to resume.
WorkingHasWorker == onBoard /\ col = "working" => FindWorker # 0

\* The worktree is never taken from under a worker at work on its card.
AtWork == onBoard /\ col = "working" /\ pane = "live" /\ FindWorker # 0
            /\ ~recs[FindWorker].done
GroundStays == AtWork => (ground' = "none" => ground = "none")
GroundStaysUnderWorker == [][GroundStays]_vars

\* A record is dropped only once its agent is gone; the one exception is a card
\* off the board whose worker has already survived a kill.
DropsWhenGone ==
  FindWorker # 0 /\ ~recs'[FindWorker].reg
    => pane # "live" \/ (~onBoard /\ recs[FindWorker].killFailed)
DroppedOnlyWhenGone == [][DropsWhenGone]_vars

\* "worker dead w/o done": what supervision reports as died had not reported
\* done, was not paused and is not alive.
DiedIsDead ==
  [][\A r \in DOMAIN recs : recs'[r].flagged /\ ~recs[r].flagged
       => ~recs[r].done /\ pane # "live"]_vars

\* "the death must never look like a crash" (worker.pause): a worker whose
\* window a pause took is not reported as died.
PauseIsNoDeath ==
  [][\A r \in DOMAIN recs : recs'[r].flagged /\ ~recs[r].flagged => pane # "stopped"]_vars

\* A park never leaves a live worker on a Backlog card.
ParkLeavesNobody ==
  [][onBoard /\ col = "working" /\ col' = "backlog" /\ pane = "live"
       => InFlight({"handoff", "start", "resume"})]_vars

\* A worker whose window a pause took is not reported as died, and a park leaves
\* no live worker on a Backlog card (3643-3712).
RestIsHonest == PauseIsNoDeath /\ ParkLeavesNobody

\* An archived card is eventually without a live worker, or restored.
ArchivedEndsWorker == ~onBoard ~> onBoard \/ pane # "live"
=============================================================================

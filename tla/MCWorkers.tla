------------------------------ MODULE MCWorkers ------------------------------
(* One card's workers for TLC, in four settings: a card's whole life (the    *)
(* module's own constants); kills that fail, and a restart whose sweep       *)
(* retries them; a playbook that keeps its worktree; and a worker as it is   *)
(* watched over and shown, in Supervise. A behaviour stays in the setting it *)
(* starts in, and the card of the other settings stays idle.                 *)
EXTENDS Workers, TLC

CONSTANTS s1, s2, s3   \* handlers that may be in flight together

VARIABLES setting, xBoard, xCol, xGen, xPointer, xRecs, xPane, xGround, xTask, xSweep, xRestarts,
  clock, ticked, wCol, held, w, alive, turn, posts, ends, tick, show, pausing, lease, reply, rung,
  rangAt, calm, owes, acts

xvars == <<xBoard, xCol, xGen, xPointer, xRecs, xPane, xGround, xTask, xSweep, xRestarts>>
wvars == <<clock, ticked, wCol, held, w, alive, turn, posts, ends, tick, show, pausing, lease,
  reply, rung, rangAt, calm, owes, acts>>

Stubborn == INSTANCE Workers WITH Keep <- FALSE, KillMayFail <- TRUE,
  Ops <- {"start", "done", "handoff", "archive"}, MaxRecs <- 2, MaxGens <- 1, MaxRestarts <- 1,
  onBoard <- xBoard, col <- xCol, gen <- xGen, pointer <- xPointer, recs <- xRecs, pane <- xPane,
  ground <- xGround, task <- xTask, sweep <- xSweep, restarts <- xRestarts
Keeping == INSTANCE Workers WITH Slots <- {s1, s2, s3}, Keep <- TRUE, KillMayFail <- FALSE,
  Ops <- {"done", "handoff", "send", "resume", "archive"}, MaxRecs <- 1, MaxGens <- 1, MaxRestarts <- 0,
  onBoard <- xBoard, col <- xCol, gen <- xGen, pointer <- xPointer, recs <- xRecs, pane <- xPane,
  ground <- xGround, task <- xTask, sweep <- xSweep, restarts <- xRestarts

Watch == INSTANCE Supervise WITH
  Window <- 1, Ttl <- 1, MaxClock <- 5, MaxActs <- 4, col <- wCol

ASSUME OtherWorkersAssumption ==
  Stubborn!WorkersAssumption /\ Keeping!WorkersAssumption /\ Watch!SuperviseAssumption

\* A card nobody works on.
Idle == col = "backlog" /\ Init
XIdle == xCol = "backlog" /\ Keeping!Init

MCInit == /\ Watch!Init
          /\ \/ setting = "life" /\ Init /\ XIdle
             \/ setting = "stubborn" /\ Stubborn!Init /\ Idle
             \/ setting = "kept" /\ Keeping!Init /\ Idle
             \/ setting = "watched" /\ XIdle /\ Idle
MCNext == /\ \/ setting = "life" /\ Next /\ UNCHANGED <<xvars, wvars>>
             \/ setting = "stubborn" /\ Stubborn!Next /\ UNCHANGED <<vars, wvars>>
             \/ setting = "kept" /\ Keeping!Next /\ UNCHANGED <<vars, wvars>>
             \/ setting = "watched" /\ Watch!Next /\ UNCHANGED <<vars, xvars>>
          /\ UNCHANGED setting
MCSpec == MCInit /\ [][MCNext]_<<setting, vars, xvars, wvars>>

(* A state is told by the setting it is in: the rest never changes. *)
Running == <<setting, CASE setting = "life" -> vars
                       [] setting = "watched" -> wvars
                       [] OTHER -> xvars>>

MCSymmetry == Permutations({s1, s2})

\* Though kills fail and say nothing, and a boot sweeps what was left, a record is dropped
\* only once its agent is gone, but for a card off the board that survived a kill (2903,
\* 3009). Where a playbook keeps its worktree, a handoff takes it from under nobody at work
\* (2825), and a Working card keeps its worker, the sends that reopen it included (2791).
LeftStanding ==
  /\ [][setting = "stubborn" => Stubborn!DropsWhenGone]_xvars
  /\ [][setting = "kept" => Keeping!GroundStays]_xvars
  /\ [](setting = "kept" => Keeping!WorkingHasWorker)

\* A worker that is silent is rung for, quietly and then aloud, a worker that stops is told of
\* each time, and none is shown at work that is paused or done (3457, 3829, 5259, 2482).
SilenceIsHeard ==
  /\ [](setting = "watched" => Watch!LadderIsThisSilence /\ Watch!HangIsLoud /\ Watch!StopIsTold)
  /\ Watch!RingsOnSilence /\ Watch!NotShownWorking
=============================================================================

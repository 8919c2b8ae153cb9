------------------------------ MODULE Onboard ------------------------------
(***************************************************************************)
(* The first run of one workspace and every run of init after it: the port *)
(* it settles on, the config and the settings file it merges into, the     *)
(* scaffold that is copied only where nothing is, the lieutenant, her      *)
(* charter and her welcome, the first schedule and its marker, the step of *)
(* the onboarding conversation, her session (cli/bc-axi, firstrun.js,      *)
(* playbooks.js, hooks.js, claude-tmux.js).                                *)
(*                                                                         *)
(* What stands between two awaits of a run is one step.  Another           *)
(* workspace's board is a holder of a port that answers like ours.         *)
(***************************************************************************)
EXTENDS Integers, FiniteSets

CONSTANTS Runs, Ports, MaxRuns, Trouble, MaxTrouble
OnboardAssumption == Ports \subseteq Nat /\ 0 \notin Ports /\ MaxRuns \in Nat

VARIABLES
  holder,    \* Ports -> who listens: None, Mine, Neighbour or Other
  cfg,       \* config.json: its port (0: the default) and whether his own keys are in it
  settings,  \* settings.local.json: [hook, his], or Torn
  copies,    \* the copied files (AGENTS.md, captain.md, playbooks, hooks), by whom; the charter too
  board,     \* what our board holds: [lt, chat, sched, step, live], sched once removed by him
  mark,      \* gh-watch.seeded stands
  run,       \* Runs -> [at, kind, port, saw, clean]: clean while nobody undoes its work
  runs,      \* runs started so far
  ended,     \* some run got to its end
  strays,    \* kinds of runs that wrote to another workspace's board
  put,       \* he removed the schedule after a run had ended, and it came back
  troubles
vars == <<holder, cfg, settings, copies, board, mark, run, runs, ended, strays, put, troubles>>
disk == <<cfg, settings, copies, mark>>
past == <<runs, ended, strays, put, troubles>>
Holders == {"none", "mine", "neighbour", "other"}
Default == CHOOSE p \in Ports : \A q \in Ports : p <= q
Torn == [hook |-> FALSE, his |-> FALSE]
Idle == [at |-> "idle", kind |-> "onboard", port |-> 0, saw |-> FALSE, clean |-> TRUE]
Trouble1(t) == t \in Trouble \ troubles /\ Cardinality(troubles) < MaxTrouble /\ troubles' = troubles \cup {t}
Asked(r) == IF cfg.port = 0 THEN Default ELSE cfg.port
Undone == run' = [r \in Runs |-> [run[r] EXCEPT !.clean = FALSE]]
Goes(r, at) == run' = [run EXCEPT ![r].at = at]
(* a request of r is answered by whoever holds its port *)
Served(r) == holder[run[r].port] \in {"mine", "neighbour"}
Ours(r) == holder[run[r].port] = "mine"
Writes(r, b) == IF Ours(r) THEN board' = b /\ UNCHANGED strays
                ELSE strays' = strays \cup {run[r].kind} /\ UNCHANGED board

(* ------------------------------- a run begins ------------------------------- *)
(* onboard: empty folder, or a workspace to continue; teleport: from inside a session *)
Starts(r, k) ==
  /\ run[r].at = "idle" /\ runs < MaxRuns
  /\ \/ (\A q \in Runs : run[q].at = "idle") /\ UNCHANGED troubles
     \/ Trouble1("overlap")
  /\ run' = [run EXCEPT ![r] = [at |-> IF k = "onboard" THEN "settle" ELSE "ensure", kind |-> k,
                                port |-> Asked(r), saw |-> FALSE, clean |-> TRUE]]
  /\ runs' = runs + 1 /\ UNCHANGED <<holder, disk, board, ended, strays, put>>
AnyBoard(p) == holder[p] \in {"none", "mine", "neighbour"}
(* our own board on a port is not "taken"; another workspace's is *)
Settled(p) == holder[p] \in {"none", "mine"}
SettleOnboardPort(r) ==
  /\ run[r].at = "settle" /\ \E p \in Ports : p >= run[r].port /\ Settled(p)
  /\ LET free == {p \in Ports : p >= run[r].port /\ Settled(p)}
         p == CHOOSE p \in free : \A q \in free : p <= q
     IN /\ run' = [run EXCEPT ![r].port = p, ![r].at = "config"]
  /\ UNCHANGED <<holder, disk, board, past>>
NoPort(r) ==
  /\ run[r].at = "settle" /\ ~\E p \in Ports : p >= run[r].port /\ Settled(p)
  /\ run' = [run EXCEPT ![r] = Idle] /\ UNCHANGED <<holder, disk, board, past>>
WriteConfigKeys(r) ==
  /\ run[r].at = "config" /\ Goes(r, "ensure")
  /\ cfg' = IF run[r].port # Default THEN [cfg EXCEPT !.port = run[r].port] ELSE cfg
  /\ UNCHANGED <<holder, settings, copies, mark, board, past>>
(* whoever answers /api/status is up; else a server is started on the port *)
EnsureServer(r) ==
  /\ run[r].at = "ensure" /\ holder[run[r].port] # "other"
  /\ holder' = IF holder[run[r].port] = "none" /\ \A p \in Ports : holder[p] # "mine"
               THEN [holder EXCEPT ![run[r].port] = "mine"] ELSE holder
  /\ run' = IF holder'[run[r].port] = "none" THEN [run EXCEPT ![r] = Idle]
            ELSE [run EXCEPT ![r].at = IF run[r].kind = "onboard" THEN "hook" ELSE "register"]
  /\ UNCHANGED <<disk, board, past>>

(* --------------------------- files, merged and copied --------------------------- *)
(* two merges of one file: what cannot be read is replaced *)
InstallTurnEndHook(r) ==
  /\ run[r].at = "hook" /\ settings' = [settings EXCEPT !.hook = TRUE] /\ Goes(r, "scaffold")
  /\ UNCHANGED <<holder, cfg, copies, mark, board, past>>
(* a copy only where nothing is *)
Seeded(f) == [copies EXCEPT ![f] = IF @ = "none" THEN "ours" ELSE @]
ScaffoldWorkspace(r) ==
  /\ run[r].at = "scaffold" /\ copies' = Seeded("files")
  /\ Goes(r, IF run[r].kind = "onboard" THEN "charter" ELSE "look")
  /\ UNCHANGED <<holder, cfg, settings, mark, board, past>>
SeedCharter(r) ==
  /\ run[r].at = "charter" /\ copies' = Seeded("charter") /\ Goes(r, "register")
  /\ UNCHANGED <<holder, cfg, settings, mark, board, past>>

(* ------------------------------ what the board is asked ------------------------------ *)
(* already registered is fine: the founder's session is then refreshed *)
Register(r) ==
  /\ run[r].at = "register" /\ Served(r)
  /\ Writes(r, [board EXCEPT !.lt = TRUE, !.live = @ \/ run[r].kind = "teleport"])
  /\ Goes(r, IF run[r].kind = "onboard" THEN "look" ELSE "hook")
  /\ UNCHANGED <<holder, disk, runs, ended, put, troubles>>
NoMarker == FALSE
SeededBefore == mark
AllDone(r) == "done"
Next1(r) == IF run[r].kind = "onboard" THEN "greet" ELSE "done"
SeedGhWatchLooks(r) ==
  /\ run[r].at = "look"
  /\ \/ SeededBefore /\ Goes(r, Next1(r)) /\ UNCHANGED <<mark, troubles>>
     \/ ~SeededBefore /\ Trouble1("lost") /\ Goes(r, Next1(r)) /\ UNCHANGED mark
     \/ /\ ~SeededBefore /\ Served(r) /\ UNCHANGED troubles
        /\ IF Ours(r) /\ board.sched
           THEN mark' = TRUE /\ Goes(r, Next1(r)) ELSE Goes(r, "seed") /\ UNCHANGED mark
  /\ UNCHANGED <<holder, cfg, settings, copies, board, runs, ended, strays, put>>
(* a refused or an unanswered request is a line on the screen, and no marker *)
SeedGhWatchPosts(r) ==
  /\ run[r].at = "seed" /\ Served(r)
  /\ Writes(r, [board EXCEPT !.sched = TRUE]) /\ put' = (put \/ (Ours(r) /\ ~board.sched /\ board.removed))
  /\ \/ Goes(r, "mark") /\ UNCHANGED troubles
     \/ Trouble1("lost") /\ Goes(r, Next1(r))
  /\ UNCHANGED <<holder, disk, runs, ended>>
SeedGhWatchMarks(r) ==
  /\ run[r].at = "mark" /\ mark' = TRUE /\ Goes(r, Next1(r))
  /\ UNCHANGED <<holder, cfg, settings, copies, board, past>>
(* the chat is read, and greeted where it is empty *)
Looks(r) ==
  /\ run[r].at = "greet" /\ Served(r)
  /\ run' = [run EXCEPT ![r].saw = Ours(r) /\ board.lt /\ board.chat = 0, ![r].at = "welcome"]
  /\ UNCHANGED <<holder, disk, board, past>>
Welcomes(r) ==
  /\ run[r].at = "welcome" /\ Served(r) /\ Goes(r, "ask")
  /\ IF run[r].saw THEN Writes(r, [board EXCEPT !.chat = IF @ < 2 THEN @ + 1 ELSE @]) ELSE UNCHANGED <<board, strays>>
  /\ UNCHANGED <<holder, disk, runs, ended, put, troubles>>
AsksStep(r) ==
  /\ run[r].at = "ask" /\ Served(r)
  /\ run' = [run EXCEPT ![r].saw = Ours(r) /\ board.step = 0, ![r].at = "step"]
  /\ UNCHANGED <<holder, disk, board, past>>
SetsStep(r) ==
  /\ run[r].at = "step" /\ Served(r) /\ Goes(r, "spawn")
  /\ IF run[r].saw THEN Writes(r, [board EXCEPT !.step = 1]) ELSE UNCHANGED <<board, strays>>
  /\ UNCHANGED <<holder, disk, runs, ended, put, troubles>>
(* her session: live already, started, or a failure that leaves the board up *)
Spawns(r) ==
  /\ run[r].at = "spawn" /\ Served(r) /\ Goes(r, "done")
  /\ \/ Writes(r, [board EXCEPT !.live = TRUE, !.lt = TRUE])
     \/ UNCHANGED <<board, strays>>
  /\ UNCHANGED <<holder, disk, runs, ended, put, troubles>>
Ends(r) ==
  /\ run[r].at = "done" /\ run' = [run EXCEPT ![r] = Idle] /\ ended' = TRUE
  /\ UNCHANGED <<holder, disk, board, runs, strays, put, troubles>>
(* a request fails, or the run is stopped: what was done stays *)
Fails(r) ==
  /\ run[r].at \notin {"idle", "done", "mark"} /\ run' = [run EXCEPT ![r] = Idle]
  /\ UNCHANGED <<holder, disk, board, past>>

(* ------------------------- everybody else, between two steps ------------------------- *)
Running == \E r \in Runs : run[r].at # "idle"
(* another program, or another workspace's server, comes and goes *)
PortChanges(p, who) ==
  /\ who \in {"none", "neighbour", "other"} /\ holder[p] # "mine" /\ holder[p] # who
  /\ holder' = [holder EXCEPT ![p] = who]
  /\ IF Running THEN Trouble1("taken") ELSE UNCHANGED troubles
  /\ UNCHANGED <<disk, board, run, runs, ended, strays, put>>
ServerStops(p) ==
  /\ holder[p] = "mine" /\ holder' = [holder EXCEPT ![p] = "none"]
  /\ UNCHANGED <<disk, board, run, past>>
HeEdits(f) ==
  /\ copies[f] = "ours" /\ copies' = [copies EXCEPT ![f] = "his"]
  /\ UNCHANGED <<holder, cfg, settings, mark, board, run, past>>
HeRemovesSchedule ==
  /\ board.sched /\ board' = [board EXCEPT !.sched = FALSE, !.removed = ended]
  /\ UNCHANGED <<holder, disk, run, past>>
SheGoesOn ==
  /\ board.live /\ board.step = 1 /\ board' = [board EXCEPT !.step = 2]
  /\ UNCHANGED <<holder, disk, run, past>>
HeRetiresHer ==
  /\ board.lt /\ Trouble1("retire") /\ board' = [board EXCEPT !.lt = FALSE, !.live = FALSE, !.chat = 0]
  /\ Undone /\ UNCHANGED <<holder, disk, runs, ended, strays, put>>
(* a settings file somebody left half written is not read: the merge starts from nothing *)
HalfWritten ==
  /\ settings.his /\ Trouble1("torn") /\ settings' = Torn
  /\ Undone /\ UNCHANGED <<holder, cfg, copies, mark, board, runs, ended, strays, put>>

Init ==
  /\ holder \in [Ports -> {"none", "neighbour", "other"}]
  /\ cfg = [port |-> 0] /\ settings = [hook |-> FALSE, his |-> TRUE]
  /\ copies \in [{"files", "charter"} -> {"none", "his"}]
  /\ board = [lt |-> FALSE, chat |-> 0, sched |-> FALSE, step |-> 0, live |-> FALSE, removed |-> FALSE]
  /\ mark = FALSE /\ run = [r \in Runs |-> Idle] /\ runs = 0 /\ ended = FALSE
  /\ strays = {} /\ put = FALSE /\ troubles = {}
Steps(r) ==
  \/ SettleOnboardPort(r) \/ NoPort(r) \/ WriteConfigKeys(r) \/ EnsureServer(r) \/ InstallTurnEndHook(r)
  \/ ScaffoldWorkspace(r) \/ SeedCharter(r) \/ Register(r) \/ SeedGhWatchLooks(r) \/ SeedGhWatchPosts(r)
  \/ SeedGhWatchMarks(r) \/ Looks(r) \/ Welcomes(r) \/ AsksStep(r) \/ SetsStep(r) \/ Spawns(r) \/ Ends(r)
Next ==
  \/ \E r \in Runs : Steps(r) \/ Fails(r) \/ \E k \in {"onboard", "teleport"} : Starts(r, k)
  \/ \E p \in Ports : ServerStops(p) \/ \E w \in Holders : PortChanges(p, w)
  \/ \E f \in {"files", "charter"} : HeEdits(f)
  \/ HeRemovesSchedule \/ SheGoesOn \/ HeRetiresHer \/ HalfWritten
Spec == Init /\ [][Next]_vars

(* -------------------------------- properties -------------------------------- *)
(* A schedule he removed after a run had ended is not put back by a later run.             *)
SeedSticks == ~put
(* A first run writes to its own workspace's board, whatever else answers on the ports.    *)
OwnBoard == "onboard" \notin strays
(* A run that gets to its end leaves no step of the first run out.                          *)
EndsWhole == [][\A r \in Runs : run[r].at # "done" /\ run'[r].at = "done" /\ run[r].kind = "onboard" /\ run[r].clean =>
  /\ board'.lt /\ board'.chat > 0 /\ board'.step > 0 /\ copies'["charter"] # "none" /\ settings'.hook
  /\ (mark' \/ "lost" \in troubles)]_vars
(* Refuted: no init of either kind writes to another workspace's board.                     *)
AlwaysOwnBoard == strays = {}
(* Refuted with overlapping runs: the onboarding conversation never goes back.              *)
StepForward == [][board'.step >= board.step]_vars
(* Refuted with overlapping runs: she welcomes once.                                        *)
WelcomedOnce == board.chat < 2
(* Refuted once he has retired her: a run does not bring back what he sent away.            *)
RetiredStays == [][board.lt' => board.lt \/ "retire" \notin troubles]_vars
=============================================================================

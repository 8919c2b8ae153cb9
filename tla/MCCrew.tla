------------------------ MODULE MCCrew ------------------------
(* What keeps the crew going, for TLC: the queues with their wakes, the      *)
(* queues where a crash may fall anywhere, the sessions and their cycles,    *)
(* the panes lines are typed into, named hooks and event keys, the projects  *)
(* cards are built on, the notifications that reach him, and who is on the   *)
(* crew with what is theirs.                                                 *)
EXTENDS Wakes

CONSTANT Parts    \* the parts to run: "wakes", "rough", "sessions", "panes", "hooks", "push", "base", "roster"

VARIABLES
  which,   \* the part that runs in this behaviour
  lt, cards, recorded, window, op, cycling, attempts, bells, era, sessionsDeaths, commands,
  composer, panesHeard, buffer, send, hubs, current, feeding, client, glitches, panesKeys,
  hooksLock, call, orphans, hooksKeys, told, wakes, spare, stuck, post, screen, losses, crashes,
  events, seq, pushSeq, queued, shadows, store, ep, used, page, mirror, reqs, pushes, pushHeard,
  due, chosen, pushTroubles,
  tip, clone, baseLock, pool, lease, dirs, job, remains, starts, baseTroubles,
  roster, rec, line, live, archive, retires, spawns, births, regs, minted, voice, excused, acts

S == INSTANCE Sessions WITH
  Harness <- {"claude", "codex"}, Codex <- {"codex"}, Captain <- {"c1"},
  Commands <- {"reset", "switch", "revive", "retire"}, MaxCommands <- 1, MaxDeaths <- 2,
  Glitch <- TRUE, deaths <- sessionsDeaths
P == INSTANCE Panes WITH
  Pane <- {"p1", "p2"}, Watched <- "p1", Sender <- {"line", "brief"}, MultiLine <- {"brief"},
  Retries <- 2, Client <- {"v1", "v2"}, Hub <- {"h1", "h2", "h3"}, MaxGlitches <- 2,
  MaxKeys <- 1, heard <- panesHeard, keys <- panesKeys
H == INSTANCE Hooks WITH
  Caller <- {"s1", "s2", "cli"}, Sched <- {"s1", "s2"}, CardKey <- {"key"}, FailKey <- "fail",
  MaxLosses <- 2, MaxCrashes <- 1, lock <- hooksLock, keys <- hooksKeys
N == INSTANCE Push WITH
  MaxSeq <- 2, MaxEnd <- 2, MaxReq <- 2,
  Trouble <- {"restart", "archive", "lose", "mute", "wipe", "rotate", "overlap"},
  MaxTrouble <- 1, heard <- pushHeard, troubles <- pushTroubles
B == INSTANCE Base WITH
  Board <- {"a", "b"}, Home <- "a", Shared <- {"c1"}, Own <- {"c2"}, Slot <- {"s1", "s2"},
  MaxTip <- 2, MaxStarts <- [c \in {"c1", "c2"} |-> IF c = "c2" THEN 2 ELSE 1],
  Trouble <- {"offline", "carry", "nopool", "kept", "git"}, MaxTrouble <- 1,
  lock <- baseLock, troubles <- baseTroubles
M == INSTANCE Roster WITH
  Ids <- {"a", "b"}, Prefixes <- {"P", "Q"}, Nobody <- "-", MaxActs <- 6, MaxWaits <- 2

sessionsVars == <<lt, cards, recorded, window, op, cycling, attempts, bells, era, sessionsDeaths,
  commands>>
panesVars == <<composer, panesHeard, buffer, send, hubs, current, feeding, client, glitches,
  panesKeys>>
hooksVars == <<hooksLock, call, orphans, hooksKeys, told, wakes, spare, stuck, post, screen, losses,
  crashes>>
pushVars == <<events, seq, pushSeq, queued, shadows, store, ep, used, page, mirror, reqs, pushes,
  pushHeard, due, chosen, pushTroubles>>
baseVars == <<tip, clone, baseLock, pool, lease, dirs, job, remains, starts, baseTroubles>>
rosterVars == <<roster, rec, line, live, archive, retires, spawns, births, regs, minted, voice,
  excused, acts>>
crewVars ==
  <<which, vars, sessionsVars, panesVars, hooksVars, pushVars, baseVars, rosterVars>>

\* Two lieutenants and an unidentified caller; a crash may fall inside an append or a retire.
R == INSTANCE Queues WITH Lts <- {"a", "b"}, Cards <- {}, None <- "none", Tools <- {"tool"},
  MaxSeq <- 2, MaxRestarts <- 1, CrashPoints <- {"midAppend", "midCursor", "midRetire"},
  KillMayFail <- TRUE

(* Every part starts, the one that runs is chosen; the others keep one of their starts.
   (TLC leaves unevaluated what is never compared, and cannot store it: hence the last line.) *)
CrewInit ==
  /\ which \in Parts
  /\ IF which = "rough" THEN R!Init /\ nudged = [l \in Lts |-> "none"]
       /\ sends = [l \in Lts |-> [cur |-> 0, old |-> 0]] /\ sess = [l \in Lts |-> "idle"] /\ deaths = 0
     ELSE WakeInit
  /\ S!Init
  /\ P!Init
  /\ H!Init
  /\ N!Init
  /\ B!Init
  /\ M!Init
  /\ which # "sessions" => lt.h = "claude"
  /\ which # "panes" => \A s \in {"line", "brief"} : send[s].pane = "p1"
  /\ crewVars = crewVars

(* The parts share no state: a step is a step of the part that runs. *)
CrewNext ==
  \/ which = "wakes" /\ WakeNext /\ UNCHANGED <<which, sessionsVars, panesVars, hooksVars, pushVars, baseVars, rosterVars>>
  \/ which = "rough" /\ R!Next /\ UNCHANGED <<which, wakeVars, sessionsVars, panesVars, hooksVars, pushVars, baseVars, rosterVars>>
  \/ which = "sessions" /\ S!Next /\ UNCHANGED <<which, vars, panesVars, hooksVars, pushVars, baseVars, rosterVars>>
  \/ which = "panes" /\ P!Next /\ UNCHANGED <<which, vars, sessionsVars, hooksVars, pushVars, baseVars, rosterVars>>
  \/ which = "hooks" /\ H!Next /\ UNCHANGED <<which, vars, sessionsVars, panesVars, pushVars, baseVars, rosterVars>>
  \/ which = "push" /\ N!Next /\ UNCHANGED <<which, vars, sessionsVars, panesVars, hooksVars, baseVars, rosterVars>>
  \/ which = "base" /\ B!Next /\ UNCHANGED <<which, vars, sessionsVars, panesVars, hooksVars, pushVars, rosterVars>>
  \/ which = "roster" /\ M!Next /\ UNCHANGED <<which, vars, sessionsVars, panesVars, hooksVars, pushVars, baseVars>>

CrewSpec == CrewInit /\ [][CrewNext]_crewVars

(* A state is told by the part that runs: the others never change. *)
Running ==
  <<which, CASE which = "wakes" -> vars
           [] which = "rough" -> vars
           [] which = "sessions" -> sessionsVars
           [] which = "panes" -> panesVars
           [] which = "hooks" -> hooksVars
           [] which = "push" -> pushVars
           [] which = "base" -> baseVars
           [] which = "roster" -> rosterVars>>
----------------------------------------------------------------------------
ASSUME CrewAssumption ==
  /\ R!QueuesAssumption /\ S!SessionsAssumption /\ P!PanesAssumption /\ H!HooksAssumption
  /\ B!BaseAssumption /\ N!PushAssumption /\ M!RosterAssumption

\* A lieutenant has one agent and an outage rings once, and no tick restarts what a cycle is
\* restarting (server.js 1860, 3781-3795).
OneAgentOneBell == [](S!OneAgent /\ S!OneBell) /\ S!QuietCycle

\* What is told is told once and not swallowed, though callers, cancels, cards that leave and
\* crashes fall anywhere: a text sent to a pane is submitted once or reported unsent and no
\* screen feed outlives its viewers (tmux.js 236, server.js 1451); one run of a named hook at
\* a time, and its news once (hooks.js 309, server.js 2536); a push for each event that asks
\* for one, for who chose to be told (server.js 416, webpush.js 187).
ToldOnce ==
  /\ which = "panes" => P!SentOnce /\ P!NoLeakedFeed
  /\ which = "hooks" => H!OneAtATime /\ H!NeverSwallowed /\ H!HeardOnce /\ H!ScreenCurrent
  /\ which = "push" => N!HeardOnce /\ N!NoneMissed /\ N!ChoiceKept

\* A worker starts on the tip that was fetched or its captain is warned, and a start that
\* fails leaves no checkout leased to nobody (worktrees.js 103, 163, 241).
GroundFresh == which = "base" => B!OnFetchedTip /\ B!FreshOrWarned /\ B!NothingLeft

\* Two lieutenants share neither prefix nor card id, a number is minted once, a card has an
\* owner on the crew, and the line reaches who spoke last (server.js 39, 667, 2140, 922).
CrewApart == which = "roster" => M!TypeOK /\ M!CrewApart
=============================================================================

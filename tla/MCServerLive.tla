------------------------ MODULE MCServerLive ------------------------
(* What the server owes in the end, for TLC: the workers at rest, the wakes, *)
(* the schedules, the sessions, the projects, the start, the usage index and *)
(* the activity dots, each small and under its own fairness.                 *)
EXTENDS Workers

CONSTANT Parts    \* the parts to run: "rest", "wakes", "due", "sessions", "base", "boot", "usage", "activity"

VARIABLES
  which,   \* the part that runs in this behaviour
  registered, retiring, wakesOwner, hooks, queue, wakesTorn, ack, drained, qseq, msgSeqs, hand,
  served, wakesRestarts, nudged, sends, wakesSess, wakesDeaths,
  dueClock, dueBoot, sched, claim, left, phase, hook, installed, keys, fired, account,
  dueRestarts,
  lt, cards, recorded, window, op, cycling, attempts, bells, era, sessionsDeaths, commands,
  tip, clone, baseLock, pool, lease, dirs, job, remains, starts, baseTroubles,
  dir, pidfile, bootDisk, charter, bootLog, proc, listening, worn, call, acked, stray,
  reason, overlap, bootTroubles,
  usageLog, usageTorn, ino, made, old, usageOwner, usageLock, runs, usageDisk, cache, fresh,
  sidecar, last, line, trail, work, counted, usageTroubles,
  activityClock, polled, activitySess, script, agent, posts, ref, lastEnd, watches, map, conn,
  wire, shown, saw, since, activityTroubles

K == INSTANCE Wakes WITH
  Lts <- {"a"}, Cards <- {}, None <- "none", Tools <- {"tool"}, MaxSeq <- 2, MaxRestarts <- 1,
  CrashPoints <- {"midCursor"}, KillMayFail <- TRUE, MaxSends <- 1, MaxDeaths <- 1,
  owner <- wakesOwner, torn <- wakesTorn, restarts <- wakesRestarts, sess <- wakesSess,
  deaths <- wakesDeaths
D == INSTANCE Schedules WITH
  Objs <- {"o1"}, Names <- {"n"}, Failures <- {"f"}, Overlaps <- {"skip", "queue", "restart"},
  Catchups <- {"latest", "all"}, Cap <- 2, MaxTime <- 3, MaxRestarts <- 1, Nobody <- "nobody",
  Other <- "other", clock <- dueClock, boot <- dueBoot, restarts <- dueRestarts
S == INSTANCE Sessions WITH
  Harness <- {"claude", "codex"}, Codex <- {"codex"}, Captain <- {"c1"},
  Commands <- {"reset", "switch", "revive", "retire"}, MaxCommands <- 1, MaxDeaths <- 1,
  Glitch <- FALSE, deaths <- sessionsDeaths
B == INSTANCE Base WITH
  Board <- {"a", "b"}, Home <- "a", Shared <- {"c1"}, Own <- {"c2"}, Slot <- {"s1"}, MaxTip <- 1,
  MaxStarts <- [c \in {"c1", "c2"} |-> 1], Trouble <- {"offline", "git", "clone"}, MaxTrouble <- 1, lock <- baseLock,
  troubles <- baseTroubles
T == INSTANCE Boot WITH
  Callers <- {1, 2}, Ports <- {1}, Pids <- {1, 2}, MaxChanges <- 0, Legacy <- FALSE,
  Charters <- TRUE, Trouble <- {"crash", "recycled", "taken", "slow", "unwritable"},
  MaxTrouble <- 1, disk <- bootDisk, log <- bootLog, troubles <- bootTroubles
U == INSTANCE Usage WITH
  Runners <- {"server", "hook"}, Files <- {1}, Sessions <- {"s1"}, MaxCost <- 1, MaxWork <- 1,
  Trouble <- {"killed", "aged", "replaced", "gone", "unlisted", "moved"}, MaxTrouble <- 1,
  log <- usageLog, torn <- usageTorn, owner <- usageOwner, lock <- usageLock, disk <- usageDisk,
  troubles <- usageTroubles
A == INSTANCE Activity WITH
  Boards <- {"a"}, MaxSessions <- 1, MaxLines <- 2, MaxClock <- 2, Quiet <- 2, Hold <- 2,
  Window <- 4, Trouble <- {"late", "lost", "interrupt", "drop", "restart"}, MaxTrouble <- 1,
  clock <- activityClock, sess <- activitySess, troubles <- activityTroubles

wakesVars == <<registered, retiring, wakesOwner, hooks, queue, wakesTorn, ack, drained, qseq,
  msgSeqs, hand, served, wakesRestarts, nudged, sends, wakesSess, wakesDeaths>>
dueVars == <<dueClock, dueBoot, sched, claim, left, phase, hook, installed, keys, fired, account,
  dueRestarts>>
sessionsVars == <<lt, cards, recorded, window, op, cycling, attempts, bells, era, sessionsDeaths,
  commands>>
baseVars == <<tip, clone, baseLock, pool, lease, dirs, job, remains, starts, baseTroubles>>
bootVars == <<dir, pidfile, bootDisk, charter, bootLog, proc, listening, worn, call, acked,
  stray, reason, overlap, bootTroubles>>
usageVars == <<usageLog, usageTorn, ino, made, old, usageOwner, usageLock, runs, usageDisk, cache,
  fresh, sidecar, last, line, trail, work, counted, usageTroubles>>
activityVars == <<activityClock, polled, activitySess, script, agent, posts, ref, lastEnd,
  watches, map, conn, wire, shown, saw, since, activityTroubles>>
serverVars == <<which, vars, wakesVars, dueVars, sessionsVars, baseVars, bootVars, usageVars, activityVars>>

(* Every part starts, the one that runs is chosen; the others keep one of their starts. *)
ServerInit ==
  /\ which \in Parts
  /\ Init
  /\ K!WakeInit
  /\ D!Init
  /\ S!Init
  /\ B!Init
  /\ T!Init
  /\ U!Init
  /\ A!Init
  /\ which # "sessions" => lt.h = "claude"

(* The parts share no state: a step is a step of the part that runs. *)
ServerNext ==
  \/ which = "rest" /\ Next /\ UNCHANGED <<which, wakesVars, dueVars, sessionsVars, baseVars, bootVars, usageVars, activityVars>>
  \/ which = "wakes" /\ K!WakeNext /\ UNCHANGED <<which, vars, dueVars, sessionsVars, baseVars, bootVars, usageVars, activityVars>>
  \/ which = "due" /\ D!Next /\ UNCHANGED <<which, vars, wakesVars, sessionsVars, baseVars, bootVars, usageVars, activityVars>>
  \/ which = "sessions" /\ S!Next /\ UNCHANGED <<which, vars, wakesVars, dueVars, baseVars, bootVars, usageVars, activityVars>>
  \/ which = "base" /\ B!Next /\ UNCHANGED <<which, vars, wakesVars, dueVars, sessionsVars, bootVars, usageVars, activityVars>>
  \/ which = "boot" /\ T!Next /\ UNCHANGED <<which, vars, wakesVars, dueVars, sessionsVars, baseVars, usageVars, activityVars>>
  \/ which = "usage" /\ U!Next /\ UNCHANGED <<which, vars, wakesVars, dueVars, sessionsVars, baseVars, bootVars, activityVars>>
  \/ which = "activity" /\ A!Next /\ UNCHANGED <<which, vars, wakesVars, dueVars, sessionsVars, baseVars, bootVars, usageVars>>

ServerSpec == ServerInit /\ [][ServerNext]_serverVars
----------------------------------------------------------------------------
(* The fairness of each module, while its part runs. *)
RestFair == /\ which = "rest" /\ \A s \in Slots : WF_vars(which = "rest" /\ Continues(s))
            /\ WF_vars(which = "rest" /\ \E s \in Slots : SweepVisit(s))
WakesFair ==
  /\ which = "wakes" /\ WF_wakesVars(which = "wakes" /\ K!Lapse("a"))
  /\ WF_wakesVars(which = "wakes" /\ (K!WakeLands("a") \/ K!WakeLost("a") \/ K!WakeFails("a")))
  /\ SF_wakesVars(which = "wakes" /\ K!WakeLands("a")) /\ SF_wakesVars(which = "wakes" /\ K!TurnDrain("a"))
  /\ SF_wakesVars(which = "wakes" /\ K!TurnAck("a")) /\ WF_wakesVars(which = "wakes" /\ K!TurnEnd("a"))
  /\ WF_wakesVars(which = "wakes" /\ K!SweepAlive("a")) /\ WF_wakesVars(which = "wakes" /\ K!Respawn("a"))
DueFair ==
  /\ which = "due" /\ WF_dueVars(which = "due" /\ D!Proceeds("o1")) /\ SF_dueVars(which = "due" /\ D!FiringEnds("o1"))
  /\ SF_dueVars(which = "due" /\ D!TickFires("o1") /\ hook.by = "nobody") /\ SF_dueVars(which = "due" /\ D!TickArms("o1"))
  /\ SF_dueVars(which = "due" /\ D!TickOverlaps("o1") /\ sched["o1"].overlap = "skip")
  /\ SF_dueVars(which = "due" /\ D!OtherEnds)
SessionsFair ==
  /\ which = "sessions" /\ WF_sessionsVars(which = "sessions" /\ S!TickStep)
  /\ WF_sessionsVars(which = "sessions" /\ S!CaptainStep("c1"))
  /\ \A w \in S!Window : WF_sessionsVars(which = "sessions" /\ S!Boot(w))
BaseFair ==
  /\ which = "base"
  /\ \A w \in {"a", "b"} : WF_baseVars(which = "base" /\ \E k \in B!Key : k[1] = w /\ B!AtWork(k))
BootFair ==
  /\ which = "boot"
  /\ \A p \in {1, 2} : WF_bootVars(which = "boot" /\ (T!CheckPid(p) \/ T!TakePid(p) \/ T!MigrateCharters(p) \/ T!Listen(p)))
  /\ \A c \in {1, 2} : WF_bootVars(which = "boot" /\ T!EnsureServer(c)) /\ WF_bootVars(which = "boot" /\ (T!Answers(c) \/ T!GivesUp(c)))
UsageFair ==
  /\ which = "usage" /\ \A p \in {"server", "hook"} : WF_usageVars(which = "usage" /\ U!Runs(p))
  /\ WF_usageVars(which = "usage" /\ U!LockAges) /\ WF_usageVars(which = "usage" /\ U!Look)
  /\ SF_usageVars(which = "usage" /\ U!Look /\ U!Starts("server"))
ActivityFair ==
  /\ which = "activity" /\ WF_activityVars(which = "activity" /\ A!Poll) /\ WF_activityVars(which = "activity" /\ A!Second)
  /\ WF_activityVars(which = "activity" /\ A!TurnEnd) /\ WF_activityVars(which = "activity" /\ A!Receive("a"))
  /\ WF_activityVars(which = "activity" /\ conn["a"] = "dead" /\ A!Connect("a"))

ASSUME ServerAssumption ==
  /\ K!QueuesAssumption /\ K!WakesAssumption /\ D!SchedulesAssumption /\ S!SessionsAssumption
  /\ B!BaseAssumption /\ U!UsageAssumption

\* What the crew waits for comes: an item is consumed though wakes are lost and the session
\* dies, a due schedule fires, is queued or is dropped as told, a lieutenant without an agent
\* gets one or rings, an archived card's worker ends (1151, 4086, 3781, 2306).
CrewIsServed ==
  /\ WakesFair => K!EveryItemConsumed
  /\ DueFair => D!DueIsHandled
  /\ SessionsFair => S!Answered
  /\ RestFair => ArchivedEndsWorker

\* What the host waits for ends: git on a clone whatever failed before it, a command that
\* starts the server, a spent token's way into the index, a turn's dot (worktrees.js 52,
\* bc-axi 790, usage.js 654, server.js 3914).
HostSettles ==
  /\ BaseFair => B!QueueMoves
  /\ BootFair => T!EnsureEnds /\ T!BoardComes
  /\ UsageFair => U!FinallyShown
  /\ ActivityFair => A!EndIsShown
============================================================================

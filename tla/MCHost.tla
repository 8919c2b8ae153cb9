------------------------ MODULE MCHost ------------------------
(* The host and what is heard of the crew, for TLC: the server's start, the *)
(* usage index, when schedules are due, the activity dots, the voices,       *)
(* dictation, the hooks' trace, and bc-axi's first run. *)
EXTENDS Boot, TLC

CONSTANT Parts    \* the parts to run, named as in Running

VARIABLES
  which,   \* the part that runs in this behaviour
  voiceOn, queue, said, loop, manual, live, sent, over, pending, lost, ghosts, audio, holds,
  engine, stalled, drift, fate, speechTroubles,
  take, st, track, wrote, told, thrown, room, hush, takes, up, down, part, dictationTroubles,
  clock, polled, sess, script, agent, posts, ref, lastEnd, watches, map, conn, wire, shown, saw,
  since, activityTroubles,
  holder, cfg, settings, copies, board, mark, run, onboardRuns, ended, strays, put,
  onboardTroubles,
  usageLog, torn, ino, made, old, owner, lock, usageRuns, usageDisk, cache, fresh, sidecar,
  last, line, trail, work, counted, usageTroubles,
  when, anchor, catchup, now, boot, cursor, first, fired, dropped,
  installed, batches, inFlight, file, traced, tears

S == INSTANCE Speech WITH
  MaxSaid <- 4, QueueMax <- 2, MaxChunks <- 2, MaxHolds <- 1,
  Trouble <- {"pause", "dry", "dies", "fails", "stalls", "stop", "skip", "halt", "denied"},
  MaxTrouble <- 1, troubles <- speechTroubles
D == INSTANCE Dictation WITH
  MaxTaps <- 3, MaxTakes <- 2, MaxChunks <- 3,
  Trouble <- {"twice", "escape", "deny", "recfail", "upfail"}, MaxTrouble <- 2,
  troubles <- dictationTroubles
A == INSTANCE Activity WITH
  Boards <- {"a"}, MaxSessions <- 2, MaxLines <- 4, MaxClock <- 2, Quiet <- 2, Hold <- 2,
  Window <- 4, Trouble <- {"late", "lost", "interrupt", "reset", "drop", "restart"},
  MaxTrouble <- 1, troubles <- activityTroubles
O == INSTANCE Onboard WITH
  Runs <- {"r1", "r2"}, Ports <- {1, 2}, MaxRuns <- 3, Trouble <- {"retire", "torn"},
  MaxTrouble <- 1, runs <- onboardRuns, troubles <- onboardTroubles
U == INSTANCE Usage WITH
  Runners <- {"server", "hook"}, Files <- {1, 2}, Sessions <- {"s1"}, MaxCost <- 2, MaxWork <- 2,
  Trouble <- {"killed", "aged", "replaced", "gone", "unlisted", "forked", "moved"},
  MaxTrouble <- 1, log <- usageLog, runs <- usageRuns, disk <- usageDisk,
  troubles <- usageTroubles
W == INSTANCE When WITH
  MaxTime <- 28, NextHorizon <- 60, CatchupHorizon <- 28, CatchupCap <- 2, Naps <- {5, 16},
  Ages <- {0, 2}, SpringsAt <- 8, FallsAt <- 20
traceHooks == {[name |-> 1, event |-> "named"], [name |-> 1, event |-> "done"], [name |-> 2, event |-> "done"]}
T == INSTANCE Trace WITH
  Hook <- traceHooks, Schedules <- {"hourly"}, Packaged <- {1}, Size <- 2, Chunks <- {1, 2, 4},
  Near <- 7, Far <- 8, Over <- 1, MaxBatches <- 1, MaxRuns <- 3, MaxTears <- 1

speechVars == <<voiceOn, queue, said, loop, manual, live, sent, over, pending, lost, ghosts,
  audio, holds, engine, stalled, drift, fate, speechTroubles>>
dictationVars == <<take, st, track, wrote, told, thrown, room, hush, takes, up, down, part,
  dictationTroubles>>
activityVars == <<clock, polled, sess, script, agent, posts, ref, lastEnd, watches, map, conn,
  wire, shown, saw, since, activityTroubles>>
onboardVars == <<holder, cfg, settings, copies, board, mark, run, onboardRuns, ended, strays, put,
  onboardTroubles>>
usageVars == <<usageLog, torn, ino, made, old, owner, lock, usageRuns, usageDisk, cache, fresh,
  sidecar, last, line, trail, work, counted, usageTroubles>>
whenVars == <<when, anchor, catchup, now, boot, cursor, first, fired, dropped>>
traceVars == <<installed, batches, inFlight, file, traced, tears>>
hostVars == <<which, vars, speechVars, dictationVars, activityVars, onboardVars, usageVars, whenVars, traceVars>>

(* Every part starts, the one that runs is chosen; the others keep one of their starts.
   (TLC leaves unevaluated what is never compared, and cannot store it: hence the last line.) *)
HostInit ==
  /\ which \in Parts
  /\ Init
  /\ S!Init
  /\ D!Init
  /\ A!Init
  /\ O!Init
  /\ U!Init
  /\ W!Init
  /\ T!Init
  /\ which # "speech" => voiceOn
  /\ which # "dictation" => part = "composer"
  /\ which # "onboard" => holder[1] = "none" /\ holder[2] = "none" /\ copies.files = copies.charter
  /\ which # "onboard" => copies.files = "none"
  /\ which # "trace" => installed = {}
  /\ which # "when" => catchup = "none" /\ anchor = 0 /\ when = CHOOSE w \in W!Whens : W!Parses(w)
  /\ hostVars = hostVars

(* The parts share no state: a step is a step of the part that runs. *)
HostNext ==
  \/ which = "boot" /\ Next /\ UNCHANGED <<which, speechVars, dictationVars, activityVars, onboardVars, usageVars, whenVars, traceVars>>
  \/ which = "speech" /\ S!Next /\ UNCHANGED <<which, vars, dictationVars, activityVars, onboardVars, usageVars, whenVars, traceVars>>
  \/ which = "dictation" /\ D!Next /\ UNCHANGED <<which, vars, speechVars, activityVars, onboardVars, usageVars, whenVars, traceVars>>
  \/ which = "activity" /\ A!Next /\ UNCHANGED <<which, vars, speechVars, dictationVars, onboardVars, usageVars, whenVars, traceVars>>
  \/ which = "onboard" /\ O!Next /\ UNCHANGED <<which, vars, speechVars, dictationVars, activityVars, usageVars, whenVars, traceVars>>
  \/ which = "usage" /\ U!Next /\ UNCHANGED <<which, vars, speechVars, dictationVars, activityVars, onboardVars, whenVars, traceVars>>
  \/ which = "when" /\ W!Next /\ UNCHANGED <<which, vars, speechVars, dictationVars, activityVars, onboardVars, usageVars, traceVars>>
  \/ which = "trace" /\ T!Next /\ UNCHANGED <<which, vars, speechVars, dictationVars, activityVars, onboardVars, usageVars, whenVars>>

HostSpec == HostInit /\ [][HostNext]_hostVars

(* Two states of the boot are one when they differ in what no guard and no property here tells
   apart: the log, a signalled stranger, an edit of the charter, the excuse of a command that
   waits for nothing, the looks of a pid the file does not name, which of two looks gets a
   program taken for a server, and, once boots overlapped, the changes that were saved. *)
seenAs == IF pidfile \in Pids THEN <<Recycled(pidfile), Mistakable(pidfile)>> ELSE <<>>
saved == IF overlap THEN disk.key ELSE <<disk, acked, [p \in Pids |-> proc[p].mem]>>
control == [p \in Pids |-> <<proc[p].st, proc[p].port, proc[p].key, proc[p].home>>]
bootSeen == <<dir, pidfile, charter = "none", control, listening, seenAs, call, saved, overlap, troubles,
  {c \in reason : call[c].st = "waits"}>>

(* Of the first runs there are two at most, and which one is which says nothing. *)
onboardSeen == <<holder, cfg, settings, copies, board, mark, {run[r] : r \in DOMAIN run},
  onboardRuns, ended, strays, put, onboardTroubles>>

(* A state is told by the part that runs: the others never change. *)
Running ==
  <<which, CASE which = "boot" -> bootSeen
           [] which = "speech" -> speechVars
           [] which = "dictation" -> dictationVars
           [] which = "activity" -> activityVars
           [] which = "onboard" -> onboardSeen
           [] which = "usage" -> usageVars
           [] which = "when" -> whenVars
           [] which = "trace" -> traceVars>>
\* No command is told from another.
CallersAlike == Permutations(Callers)
----------------------------------------------------------------------------
ASSUME HostAssumption ==
  /\ S!SpeechAssumption /\ D!DictationAssumption
  /\ U!UsageAssumption /\ O!OnboardAssumption /\ W!WhenAssumption /\ T!TraceAssumption

\* What is said is heard whole, silence is silence, and dictated words come once
\* (speech.js 456, voice.js 302, mic.js 154, talk.js 186).
VoiceWhole ==
  /\ which = "speech" => S!HeardWhole /\ S!SilenceIsSilence
  /\ which = "dictation" => D!WordsComeOnce /\ D!CrewSpeaksAgain

\* The dots show the turns and tools the server knows of (server.js 3914, activity.js 151).
ActivityAgrees ==
  which = "activity" => A!AgreesWithServer /\ A!ToolIsSeen /\ A!StartIsShown

\* A server that does not start says why, and a first run keeps his charter and files, joins
\* its own board and ends with everything written or says why (bc-axi 278, 411, 592, 790).
StartsHonestly == FailsForAReason /\ [](O!SeedSticks /\ O!OwnBoard) /\ O!EndsWhole

\* A spent token is counted once, by one run at a time, and no reading is lost
\* (usage.js 208, 654, 734).
CountedOnce == which = "usage" => U!CountedOnce /\ U!OneRun /\ U!NoReadingLost

\* No due minute is dropped or run twice through a sleep or a change of the clock's offset,
\* and the next one is offered (schedules.js 156, 182); what fired is read back from the
\* trace whole, newest first, as the run of the hook and the schedule whose it was, and a
\* torn line costs no more than itself and the next one (hooks.js 412, 453, 525).
NoneLostOrTwice ==
  /\ which = "when" => W!NoneLostOrTwice /\ W!NextIsOffered
  /\ which = "trace" => T!ScanIsLines /\ T!LastRunShown /\ T!TornCostsTwo /\ T!FiringsAgree
============================================================================

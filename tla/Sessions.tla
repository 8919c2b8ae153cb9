------------------------------ MODULE Sessions ------------------------------
(***************************************************************************)
(* One lieutenant's session and everybody who may restart it: the          *)
(* supervision tick, the captain's /reset, a move to another harness, the  *)
(* revival of `init --onboard`, and retirement.  All of them act on ONE    *)
(* tmux window name, through awaits, with nothing but a Set of ids between *)
(* them (src/server/server.js and the verbs of src/harness).               *)
(*                                                                         *)
(* An operation is a program counter per actor; each action is the code    *)
(* between two awaits.  Threads stand for conversations: a harness mints   *)
(* one when it launches with no id, and can resume only its own.           *)
(***************************************************************************)
EXTENDS Naturals, FiniteSets

CONSTANTS
  Harness,      \* the harnesses registered with the port
  Codex,        \* the ones whose relay records the thread id in a file
  Captain,      \* the captain's commands that may be in flight at once
  Commands,     \* which commands he gives: "reset", "switch", "revive", "retire"
  MaxCommands,  \* bound: commands the captain gives
  MaxDeaths,    \* bound: times an agent ends by itself
  Glitch        \* may a tmux read fail while the window stands?

SessionsAssumption ==
  /\ Codex \subseteq Harness /\ "tick" \notin Captain
  /\ MaxCommands \in Nat /\ MaxDeaths \in Nat
  /\ Glitch \in BOOLEAN

Tick == "tick"
Actor == Captain \cup {Tick}
Window == 1..3                       \* windows that may carry the name at once
NoThread == [h |-> "none", n |-> 0]
Thread == [h : Harness, n : 0..MaxCommands]   \* n: the era it was begun in
Gone == [st |-> "gone", h |-> "none", thread |-> NoThread]
IdleOp == [pc |-> "idle", cmd |-> "none", h |-> "none", id |-> NoThread, n |-> 0]

VARIABLES
  lt,        \* the record on the board: is it here, ref.harness, ref.resumeId
  cards,     \* how many cards it owns
  recorded,  \* <state key>.session-id, written by the relay of a Codex harness
  window,    \* the tmux windows called "lt": gone, shell, boot, up
  op,        \* each actor's operation
  cycling,   \* is the id in cyclingLieutenants?
  attempts,  \* respawnAttempts
  bells,     \* needs-captain events since the lieutenant was last known alive
  era,       \* how many times the captain has had it started over
  deaths, commands                    \* bounds
vars == <<lt, cards, recorded, window, op, cycling, attempts, bells, era, deaths, commands>>
bounds == <<era, deaths, commands>>

Init ==
  \E h \in Harness :
    LET t == [h |-> h, n |-> 0] IN
    /\ lt = [here |-> TRUE, h |-> h, id |-> IF h \in Codex THEN NoThread ELSE t]
    /\ window = [w \in Window |-> IF w = 1 THEN [st |-> "up", h |-> h, thread |-> t] ELSE Gone]
    /\ cards = 0 /\ recorded = NoThread /\ op = [a \in Actor |-> IdleOp]
    /\ cycling = FALSE /\ attempts = 0 /\ bells = 0
    /\ era = 0 /\ deaths = 0 /\ commands = 0

--------------------------------------------------------------------------
(* tmux, as the harness uses it.  A target by name resolves only when the  *)
(* name is one window's; every other read or write of it fails.            *)
Standing == {w \in Window : window[w].st # "gone"}
Live     == {w \in Window : window[w].st = "up"}
ResolvesLoosely == Standing # {}
Resolves == Cardinality(Standing) = 1
Target   == CHOOSE w \in Standing : TRUE
Shows(h) == Resolves /\ window[Target].st = "up" /\ window[Target].h = h
KilledByName == IF Resolves THEN [window EXCEPT ![Target] = Gone] ELSE window

\* What alive(ref) may answer: the truth, or an error when tmux cannot be read.
\* Of two windows of one name it reads the existence of one and the command of
\* whatever pane tmux falls back to.
AliveAnswer == (IF Cardinality(Standing) > 1 THEN {"yes", "no"}
                ELSE IF \E w \in Standing : window[w].st \in {"boot", "up"} THEN {"yes"} ELSE {"no"})
               \cup (IF Glitch THEN {"error"} ELSE {})

At(a, pc)   == op[a].pc = pc
Go(a, pc)   == op' = [op EXCEPT ![a].pc = pc]
Reply(a)    == op' = [op EXCEPT ![a] = IdleOp]
Resuming(a) == op[a].cmd = "resume"

--------------------------------------------------------------------------
(* The verbs, one await at a time.                                         *)

\* killPane: by name, and every error swallowed.
KillPane(a) ==
  /\ At(a, "kill")
  /\ window' \in {KilledByName} \cup (IF Glitch THEN {window} ELSE {})
  /\ Go(a, IF Resuming(a) THEN "create" ELSE "claim")
  /\ UNCHANGED <<lt, cards, recorded, cycling, attempts, bells, bounds>>

\* claimPaneNames: a spawn refuses a name in use; resume() does not ask.
ClaimNames(a) ==
  /\ At(a, "claim")
  /\ Go(a, IF Standing # {} THEN "thrown" ELSE "create")
  /\ UNCHANGED <<lt, cards, recorded, window, cycling, attempts, bells, bounds>>

\* createPane: nothing makes the earlier check hold here.
CreatePane(a) ==
  /\ At(a, "create")
  /\ window' = IF Standing = Window THEN window      \* bound: a fourth is not counted
                ELSE [window EXCEPT ![CHOOSE w \in Window : w \notin Standing] = [Gone EXCEPT !.st = "shell"]]
  /\ Go(a, "type")
  /\ UNCHANGED <<lt, cards, recorded, cycling, attempts, bells, bounds>>

\* The launch line is typed into whatever the name resolves to.  A shell runs
\* it: a fresh conversation, or the recorded one, which only its own harness
\* can open.  An agent already there receives it as text.
TypeLaunch(a) ==
  LET fresh == [h |-> op[a].h, n |-> IF op[a].cmd \in {"reset", "switch"} THEN era + 1 ELSE era]
      t == IF op[a].id = NoThread THEN fresh ELSE op[a].id IN
  /\ At(a, "type")
  /\ IF ~Resolves
     THEN Go(a, "cleanup") /\ UNCHANGED window
     ELSE /\ window' = IF window[Target].st = "shell" /\ t.h = op[a].h
                       THEN [window EXCEPT ![Target] = [st |-> "boot", h |-> op[a].h, thread |-> t]]
                       ELSE window
          /\ op' = [op EXCEPT ![a].pc = "settle", ![a].id = t]
  /\ UNCHANGED <<lt, cards, recorded, cycling, attempts, bells, bounds>>

\* launchAndSettle: this harness's own UI, a vanished window, or 45 seconds.
Settle(a) ==
  /\ At(a, "settle")
  /\ Go(a, IF ~Shows(op[a].h) THEN "cleanup" ELSE IF Resuming(a) THEN "done" ELSE "deliver")
  /\ UNCHANGED <<lt, cards, recorded, window, cycling, attempts, bells, bounds>>

\* deliverPrompt, and for claude the last look of verifyLive: the brief is in,
\* or the spawn failed.
DeliverPrompt(a) ==
  /\ At(a, "deliver")
  /\ (Shows(op[a].h) /\ Go(a, "done")) \/ Go(a, "cleanup")
  /\ UNCHANGED <<lt, cards, recorded, window, cycling, attempts, bells, bounds>>

\* The catch of spawn and resume: kill what holds the name, and throw.
CleanUp(a) ==
  /\ At(a, "cleanup")
  /\ window' = KilledByName
  /\ Go(a, "thrown")
  /\ UNCHANGED <<lt, cards, recorded, cycling, attempts, bells, bounds>>

\* The ref a spawn returns names the conversation only when the harness let
\* the caller choose its id.
RefId(a) == IF op[a].h \in Codex /\ ~Resuming(a) THEN NoThread ELSE op[a].id
Known == attempts' = 0 /\ bells' = 0        \* respawnAttempts.delete

--------------------------------------------------------------------------
(* superviseTick, for this lieutenant.                                     *)
TickLook ==
  /\ At(Tick, "idle") /\ lt.here /\ ~cycling
  /\ op' = [op EXCEPT ![Tick] = [IdleOp EXCEPT !.pc = "look", !.h = lt.h]]
  /\ UNCHANGED <<lt, cards, recorded, window, cycling, attempts, bells, bounds>>

\* resumable(): the ref's id, or the recorded file.
Memory == IF recorded # NoThread THEN recorded ELSE lt.id

\* The answer, and the guard asked again on the way out: the kill of a /reset
\* can land while alive() is in flight.
CycleUnseen == FALSE
CycleSeen == cycling
NeverGiveUp == FALSE
GiveUp == attempts + 1 > 3
TickAnswer ==
  /\ At(Tick, "look")
  /\ \E ans \in AliveAnswer :
       IF ans = "yes" THEN Known /\ Reply(Tick)
       ELSE IF CycleSeen \/ GiveUp
       THEN Reply(Tick) /\ UNCHANGED <<attempts, bells>>
       ELSE /\ attempts' = attempts + 1
            /\ op' = [op EXCEPT ![Tick] =
                 IF Memory # NoThread
                 THEN [pc |-> "ask", cmd |-> "resume", h |-> op[Tick].h, id |-> Memory, n |-> attempts + 1]
                 ELSE [pc |-> "kill", cmd |-> "spawn", h |-> lt.h, id |-> NoThread, n |-> attempts + 1]]
            /\ UNCHANGED bells
  /\ UNCHANGED <<lt, cards, recorded, window, cycling, bounds>>

\* resume() asks alive() itself first: a live session is returned as it is.
ResumeAsks ==
  /\ At(Tick, "ask")
  /\ \E ans \in AliveAnswer :
       IF ans = "yes"
       THEN op' = [op EXCEPT ![Tick].pc = "done", ![Tick].h = lt.h, ![Tick].id = lt.id]
       ELSE Go(Tick, IF ans = "error" THEN "thrown" ELSE "kill")
  /\ UNCHANGED <<lt, cards, recorded, window, cycling, attempts, bells, bounds>>

TickDone ==
  /\ At(Tick, "done")
  /\ lt' = [lt EXCEPT !.h = op[Tick].h, !.id = RefId(Tick)]
  /\ Known /\ Reply(Tick)
  /\ UNCHANGED <<cards, recorded, window, cycling, bounds>>

\* A failed attempt; the third rings for the captain.
CountAgain == 0
Flagged == 4
TickThrown ==
  /\ At(Tick, "thrown")
  /\ IF op[Tick].n = 3
     THEN attempts' = Flagged /\ bells' = bells + 1
     ELSE UNCHANGED <<attempts, bells>>
  /\ Reply(Tick)
  /\ UNCHANGED <<lt, cards, recorded, window, cycling, bounds>>

--------------------------------------------------------------------------
(* What the captain may order.                                             *)
Begin(c, cmd, pc, h) ==
  /\ At(c, "idle") /\ lt.here /\ cmd \in Commands /\ commands < MaxCommands
  /\ commands' = commands + 1
  /\ op' = [op EXCEPT ![c] = [pc |-> pc, cmd |-> cmd, h |-> h, id |-> NoThread, n |-> 0]]
  /\ UNCHANGED <<lt, cards, recorded, window, attempts, bells, era, deaths>>

\* withCycleGuard: the id is added, and removed in a finally.
BeginReset(c)     == Begin(c, "reset", "kill", lt.h) /\ cycling' = TRUE
BeginSwitch(c, h) == h # lt.h /\ Begin(c, "switch", "kill", h) /\ cycling' = TRUE
\* --onboard: a session that answers alive is left alone; no guard.
BeginRevive(c) ==
  \E ans \in AliveAnswer : Begin(c, "revive", IF ans = "yes" THEN "kept" ELSE "claim", lt.h)
                           /\ UNCHANGED cycling
BeginRetire(c) == cards = 0 /\ Begin(c, "retire", "retire", lt.h) /\ UNCHANGED cycling

\* The command answers, one way or the other.
CommandDone(c) ==
  /\ At(c, "done")
  /\ lt' = [lt EXCEPT !.h = op[c].h, !.id = IF op[c].cmd = "switch" THEN NoThread ELSE RefId(c)]
  /\ IF op[c].cmd = "revive" THEN UNCHANGED <<attempts, bells, cycling, era>>
     ELSE Known /\ cycling' = FALSE /\ era' = era + 1
  /\ Reply(c)
  /\ UNCHANGED <<cards, recorded, window, deaths, commands>>
CommandThrownGuarded(c) ==           \* no finally: a marker left behind
  /\ At(c, "thrown") \/ At(c, "kept")
  /\ Reply(c)
  /\ UNCHANGED <<lt, cards, recorded, window, cycling, attempts, bells, bounds>>
CommandThrown(c) ==
  /\ At(c, "thrown") \/ At(c, "kept")
  /\ cycling' = IF op[c].cmd = "revive" THEN cycling ELSE FALSE
  /\ Reply(c)
  /\ UNCHANGED <<lt, cards, recorded, window, attempts, bells, bounds>>

\* retireLieutenant: the cards were counted before this kill was awaited.
Retire(c) ==
  /\ At(c, "retire")
  /\ window' = KilledByName
  /\ lt' = [lt EXCEPT !.here = FALSE]
  /\ Known /\ Reply(c)
  /\ UNCHANGED <<cards, recorded, cycling, bounds>>

--------------------------------------------------------------------------
(* The rest of the world.                                                  *)
CreateCard  == lt.here /\ cards = 0 /\ cards' = 1
               /\ UNCHANGED <<lt, recorded, window, op, cycling, attempts, bells, bounds>>
ArchiveCard == cards = 1 /\ cards' = 0
               /\ UNCHANGED <<lt, recorded, window, op, cycling, attempts, bells, bounds>>

Boot(w) ==
  /\ window[w].st = "boot" /\ window' = [window EXCEPT ![w].st = "up"]
  /\ UNCHANGED <<lt, cards, recorded, op, cycling, attempts, bells, bounds>>

\* An agent exits to its shell, or its window goes with it.
Die(w) ==
  /\ window[w].st = "up" /\ deaths < MaxDeaths
  /\ window' \in {[window EXCEPT ![w] = Gone], [window EXCEPT ![w] = [Gone EXCEPT !.st = "shell"]]}
  /\ deaths' = deaths + 1
  /\ UNCHANGED <<lt, cards, recorded, op, cycling, attempts, bells, era, commands>>

\* A turn ends: the relay of a Codex harness records its id, and the server
\* adopts the id of whoever runs in the lieutenant's session.
Recorded(w) == IF window[w].h \in Codex THEN window[w].thread ELSE recorded
Adopted(w) == IF lt.here THEN [lt EXCEPT !.id = window[w].thread] ELSE lt
TurnEnd(w) ==
  /\ window[w].st = "up"
  /\ \A a \in Actor : op[a].pc \notin {"settle", "deliver", "cleanup"}    \* no brief yet, no turn
  /\ recorded' = Recorded(w) /\ lt' = Adopted(w)
  /\ UNCHANGED <<cards, window, op, cycling, attempts, bells, bounds>>

Step(a) == KillPane(a) \/ ClaimNames(a) \/ CreatePane(a) \/ TypeLaunch(a) \/ Settle(a)
           \/ DeliverPrompt(a) \/ CleanUp(a)
TickStep == Step(Tick) \/ TickLook \/ TickAnswer \/ ResumeAsks \/ TickDone \/ TickThrown
CaptainStep(c) == Step(c) \/ CommandDone(c) \/ CommandThrown(c) \/ Retire(c)
Next ==
  \/ TickStep
  \/ \E c \in Captain :
       \/ CaptainStep(c)
       \/ BeginReset(c) \/ BeginRevive(c) \/ BeginRetire(c)
       \/ \E h \in Harness : BeginSwitch(c, h)
  \/ \E w \in Window : Boot(w) \/ Die(w) \/ TurnEnd(w)
  \/ CreateCard \/ ArchiveCard

\* The server keeps running its own code, the tick is an interval timer, and a
\* launched agent comes up.  Nothing obliges an agent to die or to end a turn,
\* nor the captain to give a command.
Fairness ==
  /\ WF_vars(TickStep)
  /\ \A c \in Captain : WF_vars(CaptainStep(c))
  /\ \A w \in Window : WF_vars(Boot(w))
Spec == Init /\ [][Next]_vars /\ Fairness
--------------------------------------------------------------------------
(* What must hold, whoever runs while whoever else awaits.                 *)

\* The shapes; and a count of attempts that stops where the bell is rung.
TypeOK ==
  /\ lt \in [here : BOOLEAN, h : Harness, id : Thread \cup {NoThread}]
  /\ cards \in 0..1 /\ recorded \in Thread \cup {NoThread}
  /\ \A w \in Window : window[w].st \in {"gone", "shell", "boot", "up"}
  /\ cycling \in BOOLEAN /\ attempts \in 0..4

\* However a respawn, a reset, a switch and a revival interleave, two agents
\* never run under one lieutenant's name: a conversation nobody addresses
\* would go on working in the workspace.  (createPane checks nothing, so two
\* windows of one name do happen; the exact target is what saves it.)
OneAgent == Cardinality({w \in Window : window[w].st \in {"boot", "up"}}) <= 1

\* "3 respawn attempts failed - needs the captain" rings once per outage.
OneBell == bells <= 1

\* Supervision decides to respawn only when the captain is not himself
\* restarting the lieutenant.
Restarting == {c \in Captain : op[c].cmd \in {"reset", "switch"}}
QuietCycle == [][(At(Tick, "look") /\ op'[Tick].pc \in {"ask", "kill"}) => Restarting = {}]_vars

\* A lieutenant that is down comes back or the captain is told: no failed
\* command, and no failed attempt, silences supervision for good.  (Two windows
\* of one name are the exception.)
Twins == Cardinality(Standing) > 1
Answered == (lt.here /\ Live = {}) ~> (Live # {} \/ bells > 0 \/ ~lt.here \/ Twins)

(* What the code's words promise and the code does not keep (README).      *)

\* A switch drops the resumeId so that supervision never tries "to resume a
\* thread that does not exist": but the recorded file outlives the switch.
OwnThread == At(Tick, "settle") /\ op[Tick].h = lt.h => op[Tick].id.h = lt.h
\* "The conversation is gone and cannot be undone from here."
NoOldMemory == (\A a \in Actor : At(a, "idle")) /\ era > 0 => \A w \in Live : window[w].thread.n = era
\* The guard is "wrapped around the call for the whole of it".
GuardHeld == Restarting # {} => cycling
\* The ref on the board names the harness that runs.
RefNamesAgent == (\A a \in Actor : At(a, "idle")) /\ lt.here => \A w \in Live : window[w].h = lt.h
\* "Refuses while the lieutenant still owns non-archived cards."
CardHasOwner == cards > 0 => lt.here
\* ... whatever windows the races leave behind.
AnsweredAlways == (lt.here /\ Live = {}) ~> (Live # {} \/ bells > 0 \/ ~lt.here)
\* Supervision never ends a live session.
LiveLeftAlone == [][\A w \in Live : window'[w].st = "gone" /\ op'[Tick] # op[Tick] => FALSE]_vars
\* The captain is not told that a lieutenant who is up is down.
FalseBell == [][bells' > bells => Live = {}]_vars
=============================================================================

----------------------------- MODULE Schedules ------------------------------
(***************************************************************************)
(* The board's own clock (schedules.js, server.js 4068-4407): schedules    *)
(* that fire one named hook, the tick, the passes that run their due       *)
(* windows, the overlap and catch-up policies, the event keys of failures. *)
(*                                                                         *)
(* Time is counted in windows: window w has come due once clock >= w. A    *)
(* cursor between two windows stands for the earlier one, since only the   *)
(* windows past it matter. What the code does after an await that is       *)
(* already settled runs before the event loop turns: an Attempt or a       *)
(* PassEnds comes before any tick, request or exit of a process.           *)
(***************************************************************************)
EXTENDS Naturals, FiniteSets

CONSTANTS
  Objs,        \* schedule objects (a name removed and added again is another one)
  Names, Failures,
  Overlaps, Catchups,  \* the policies a schedule may be added with
  Cap,         \* CATCHUP_CAP
  MaxTime,     \* bound: windows
  MaxRestarts, \* bound: server restarts
  Nobody, Other  \* who runs the hook: nobody, a caller that is no schedule

ASSUME SchedulesAssumption ==
  /\ Overlaps \subseteq {"skip", "queue", "restart"}
  /\ Catchups \subseteq {"latest", "all", "none"}
  /\ Cap \in Nat \ {0} /\ MaxTime \in Nat \ {0} /\ MaxRestarts \in Nat
  /\ Nobody \notin Objs /\ Other \notin Objs /\ Nobody # Other

VARIABLES
  clock,      \* the newest window that has come due
  boot,       \* SCHEDULER_BOOT
  sched,      \* board.schedules, and the objects passes still hold
  claim,      \* the claim of the pass in flight, 0 without one
  left,       \* the windows a pass has yet to finish
  phase,      \* idle, go (about to try a window), run, cancel, retry
  hook,       \* the run that holds the hook's name, and whether it was canceled
  installed,  \* the hook is an executable file
  keys,       \* eventkeys.json: the failures told of, by schedule name
  fired,      \* auxiliary: windows a schedule's firing has started on
  account,    \* auxiliary: windows fired, skipped on record or dropped by a policy
  restarts

vars == <<clock, boot, sched, claim, left, phase, hook, installed, keys,
          fired, account, restarts>>
passVars == <<claim, left, phase>>
worldVars == <<clock, boot, installed, restarts>>

Windows == 1..MaxTime
Unused == [on |-> FALSE, name |-> "", overlap |-> "skip", catchup |-> "latest",
           paused |-> FALSE, last |-> 0]
Idle == [by |-> Nobody, canceled |-> FALSE]

MaxOf(m, n) == IF m >= n THEN m ELSE n
Newest(S, n) == {w \in S : Cardinality({v \in S : v > w}) < n}
Oldest(S) == {w \in S : \A v \in S : w <= v}
HasLast(S, n) == n \in S /\ \A v \in S : v <= n

\* scheduleProblem: without it a tick does nothing with the schedule.
Fit(o) == sched[o].on /\ installed
\* Everything settled has run: the event loop may turn.
Quiet == \A o \in Objs : phase[o] \notin {"go", "retry"}

Init ==
  /\ clock = 1 /\ boot = 1 /\ restarts = 0
  /\ sched = [o \in Objs |-> Unused]
  /\ claim = [o \in Objs |-> 0]
  /\ left = [o \in Objs |-> {}]
  /\ phase = [o \in Objs |-> "idle"]
  /\ hook = Idle
  /\ installed = TRUE
  /\ keys = [n \in Names |-> {}]
  /\ fired = [o \in Objs |-> {}]
  /\ account = [o \in Objs |-> {}]

-----------------------------------------------------------------------------
(* The routes: add, pause, resume, remove. *)

Add(o, n) ==
  /\ Quiet /\ installed
  /\ sched[o] = Unused
  /\ \A p \in Objs : sched[p].on => sched[p].name # n
  /\ \E ov \in Overlaps, cu \in Catchups :
       sched' = [sched EXCEPT ![o] = [on |-> TRUE, name |-> n, overlap |-> ov,
                                      catchup |-> cu, paused |-> FALSE, last |-> 0]]
  /\ UNCHANGED <<passVars, worldVars, keys, hook, fired, account>>

Pause(o) ==
  /\ Quiet /\ sched[o].on /\ ~sched[o].paused
  /\ sched' = [sched EXCEPT ![o].paused = TRUE]
  /\ UNCHANGED <<passVars, worldVars, keys, hook, fired, account>>

\* "a pause is not a queue": the cursor is re-armed at now.
Resume(o) ==
  /\ Quiet /\ sched[o].on /\ sched[o].paused
  /\ sched' = [sched EXCEPT ![o].paused = FALSE, ![o].last = clock]
  /\ account' = [account EXCEPT ![o] = @ \cup 1..clock]
  /\ UNCHANGED <<passVars, worldVars, keys, hook, fired>>

\* The auxiliary variables go with the object.
ghosts == <<fired, account>>
Forgets(o) ==
  /\ fired' = [fired EXCEPT ![o] = {}]
  /\ account' = [account EXCEPT ![o] = {}]

\* A pass in flight keeps the object it began with; without one nothing does.
Remove(o) ==
  /\ Quiet /\ sched[o].on
  /\ IF claim[o] = 0 THEN sched' = [sched EXCEPT ![o] = Unused] /\ Forgets(o)
                     ELSE sched' = [sched EXCEPT ![o].on = FALSE] /\ UNCHANGED ghosts
  /\ UNCHANGED <<passVars, worldVars, keys, hook>>

-----------------------------------------------------------------------------
(* scheduleTick, one schedule at a time. *)

From(o) == MaxOf(sched[o].last, claim[o])
AllDue(o) == {w \in Windows : w > From(o) /\ w <= clock}
\* dueWindows: the cap keeps the newest.
Due(o) == Newest(AllDue(o), Cap + 1)
Pick(o) ==
  CASE sched[o].catchup = "latest" -> Newest(Due(o), 1)
    [] sched[o].catchup = "all" -> Newest(Due(o), Cap)
    [] sched[o].catchup = "none" -> {w \in Due(o) : w > boot}

Ticks(o) == Quiet /\ Fit(o) /\ ~sched[o].paused

\* `add` is not a firing: the first tick only arms the cursor.
TickArms(o) ==
  /\ Ticks(o) /\ sched[o].last = 0
  /\ sched' = [sched EXCEPT ![o].last = clock]
  /\ account' = [account EXCEPT ![o] = @ \cup 1..clock]
  /\ UNCHANGED <<passVars, worldVars, keys, hook, fired>>

\* The due windows are claimed and a pass begins with those the policy picks.
TickFires(o) ==
  /\ Ticks(o) /\ sched[o].last # 0 /\ Due(o) # {}
  /\ claim[o] = 0
  /\ \E n \in Due(o) : HasLast(Due(o), n) /\ claim' = [claim EXCEPT ![o] = n]
  /\ left' = [left EXCEPT ![o] = Pick(o)]
  /\ phase' = [phase EXCEPT ![o] = "go"]
  /\ account' = [account EXCEPT ![o] = @ \cup (AllDue(o) \ Pick(o))]
  /\ UNCHANGED <<sched, worldVars, keys, hook, fired>>

\* A window came due while the previous pass runs: skip records it, restart
\* cancels whoever holds the name, queue leaves it for a later tick.
TickOverlaps(o) ==
  /\ Ticks(o) /\ sched[o].last # 0 /\ Due(o) # {}
  /\ claim[o] # 0
  /\ \/ /\ sched[o].overlap = "skip"
        /\ account' = [account EXCEPT ![o] = @ \cup Due(o)]
        /\ \E n \in Due(o) : HasLast(Due(o), n) /\ claim' = [claim EXCEPT ![o] = n]
        /\ UNCHANGED hook
     \/ /\ sched[o].overlap = "restart"
        /\ hook.by # Nobody
        /\ hook' = [hook EXCEPT !.canceled = TRUE]
        /\ UNCHANGED <<claim, account>>
  /\ UNCHANGED <<sched, left, phase, worldVars, keys, fired>>

-----------------------------------------------------------------------------
(* runSchedule and fireSchedule: a pass tries its windows, oldest first. *)

\* A pass that was waiting for a canceled run gets to the name before others.
Turn(o) == \/ phase[o] = "retry"
           \/ phase[o] = "go" /\ \A p \in Objs : phase[p] # "retry"

\* The cursor a pass leaves: forward only, and only on the board's own object.
\* Mutants: the cursor it began with; over whatever a resume left meanwhile; the
\* claim is not given back.
Unmoved(o, reached) == [sched EXCEPT ![o] = IF @.on THEN @ ELSE Unused]
Rewound(o, reached) ==
  [sched EXCEPT ![o] = IF @.on THEN [@ EXCEPT !.last = reached] ELSE Unused]
Reached(o, reached) ==
  [sched EXCEPT ![o] =
     IF @.on THEN [@ EXCEPT !.last = MaxOf(sched[o].last, reached)] ELSE Unused]
KeepClaim(o) == UNCHANGED claim
DropClaim(o) == claim' = [claim EXCEPT ![o] = 0]

EndPass(o, reached) ==
  /\ IF sched[o].on THEN UNCHANGED ghosts ELSE Forgets(o)
  /\ sched' = Reached(o, reached)
  /\ DropClaim(o)
  /\ left' = [left EXCEPT ![o] = {}]
  /\ phase' = [phase EXCEPT ![o] = "idle"]

PassEnds(o) ==
  /\ Turn(o) /\ left[o] = {}
  /\ EndPass(o, claim[o])
  /\ UNCHANGED <<worldVars, keys, hook>>

NextWindow(o) ==
  /\ left' = [left EXCEPT ![o] = @ \ Oldest(@)]
  /\ phase' = [phase EXCEPT ![o] = "go"]

\* The name is free: the window runs.
Starts(o) ==
  /\ Turn(o) /\ installed /\ hook.by = Nobody
  /\ left[o] # {}
  /\ fired' = [fired EXCEPT ![o] = @ \cup Oldest(left[o])]
  /\ account' = [account EXCEPT ![o] = @ \cup Oldest(left[o])]
  /\ hook' = [by |-> o, canceled |-> FALSE]
  /\ phase' = [phase EXCEPT ![o] = "run"]
  /\ UNCHANGED <<sched, claim, left, worldVars, keys>>

\* ENOHOOK: the tick will say so.
Unhooked(o) ==
  /\ Turn(o) /\ ~installed /\ left[o] # {}
  /\ account' = [account EXCEPT ![o] = @ \cup Oldest(left[o])]
  /\ NextWindow(o)
  /\ UNCHANGED <<sched, claim, worldVars, keys, hook, fired>>

Busy(o) == Turn(o) /\ installed /\ hook.by # Nobody /\ left[o] # {}

\* Mutant: the window that could not run counts as handled.
PulledTo(w) == w
PullBack(w) == w - 1
Queued(o) ==
  /\ Busy(o) /\ sched[o].overlap = "queue"
  /\ \E w \in Oldest(left[o]) : EndPass(o, PullBack(w))
  /\ UNCHANGED <<worldVars, keys, hook>>

Cancels(o) ==
  /\ Busy(o) /\ sched[o].overlap = "restart" /\ phase[o] = "go"
  /\ hook' = [hook EXCEPT !.canceled = TRUE]
  /\ phase' = [phase EXCEPT ![o] = "cancel"]
  /\ UNCHANGED <<sched, claim, left, worldVars, keys, fired, account>>

Skipped(o) ==
  /\ Busy(o)
  /\ sched[o].overlap = "skip" \/ (sched[o].overlap = "restart" /\ phase[o] = "retry")
  /\ account' = [account EXCEPT ![o] = @ \cup Oldest(left[o])]
  /\ NextWindow(o)
  /\ UNCHANGED <<sched, claim, worldVars, keys, hook, fired>>

Attempt(o) == Starts(o) \/ Unhooked(o) \/ Queued(o) \/ Cancels(o) \/ Skipped(o)

-----------------------------------------------------------------------------
(* runNamedHook: the run ends; those who waited for it to go are woken. *)

Woken == [o \in Objs |-> IF phase[o] = "cancel" THEN "retry" ELSE phase[o]]

\* landScheduleFailure: told once per distinct failure, keyed by schedule name.
Fails(o, f) == keys' = [keys EXCEPT ![sched[o].name] = @ \cup {f}]

\* landScheduleRecovery: a green firing forgets the keys.
Succeeds(o) == keys' = [keys EXCEPT ![sched[o].name] = {}]

FiringEnds(o) ==
  /\ Quiet /\ hook.by = o
  /\ \/ hook.canceled /\ UNCHANGED keys
     \/ Succeeds(o)
     \/ ~hook.canceled /\ \E f \in Failures : Fails(o, f)
  /\ hook' = Idle
  /\ left' = [left EXCEPT ![o] = @ \ Oldest(@)]
  /\ phase' = [Woken EXCEPT ![o] = "go"]
  /\ UNCHANGED <<sched, claim, worldVars, fired, account>>

OtherRuns ==
  /\ Quiet /\ installed /\ hook.by = Nobody
  /\ hook' = [by |-> Other, canceled |-> FALSE]
  /\ UNCHANGED <<sched, passVars, worldVars, keys, fired, account>>

OtherEnds ==
  /\ Quiet /\ hook.by = Other
  /\ hook' = Idle
  /\ phase' = Woken
  /\ UNCHANGED <<sched, claim, left, worldVars, keys, fired, account>>

-----------------------------------------------------------------------------
(* The world: time, the hook's file, the server's life. *)

Advance ==
  /\ Quiet /\ clock < MaxTime
  /\ clock' = clock + 1
  /\ UNCHANGED <<boot, installed, restarts, sched, passVars, keys, hook, fired, account>>

HookFile ==
  /\ Quiet
  /\ installed' = ~installed
  /\ UNCHANGED <<clock, boot, restarts, sched, passVars, keys, hook, fired, account>>

\* Passes, claims and the registry of runs are memory; cursors are not. (fired
\* keeps what a finished pass had put behind the cursor.)
Restart ==
  /\ restarts < MaxRestarts
  /\ restarts' = restarts + 1
  /\ boot' = clock
  /\ claim' = [o \in Objs |-> 0]
  /\ left' = [o \in Objs |-> {}]
  /\ phase' = [o \in Objs |-> "idle"]
  /\ hook' = Idle
  /\ sched' = [o \in Objs |-> IF sched[o].on THEN sched[o] ELSE Unused]
  /\ fired' = [o \in Objs |-> IF sched[o].on THEN {w \in fired[o] : w <= sched[o].last} ELSE {}]
  /\ account' = [o \in Objs |-> IF sched[o].on THEN account[o] ELSE {}]
  /\ UNCHANGED <<clock, installed, keys>>

-----------------------------------------------------------------------------
Tick(o) == TickArms(o) \/ TickFires(o) \/ TickOverlaps(o)
Proceeds(o) == Attempt(o) \/ PassEnds(o)

Next ==
  \/ \E o \in Objs : Tick(o) \/ Proceeds(o) \/ FiringEnds(o)
  \/ \E o \in Objs : Pause(o) \/ Resume(o) \/ Remove(o)
  \/ \E o \in Objs, n \in Names : Add(o, n)
  \/ OtherRuns \/ OtherEnds
  \/ Advance \/ HookFile \/ Restart

Spec == Init /\ [][Next]_vars

\* The interval fires, a run ends (it has a timeout) and what is settled proceeds;
\* strong, because settled promises hold the loop up between two other steps. A
\* schedule that ticks over and over finds the name free at some tick.
Fairness ==
  /\ \A o \in Objs : /\ WF_vars(Proceeds(o)) /\ SF_vars(FiringEnds(o))
                     /\ SF_vars(TickFires(o) /\ hook.by = Nobody)
                     /\ SF_vars(TickArms(o))
                     /\ SF_vars(TickOverlaps(o) /\ sched[o].overlap = "skip")
  /\ SF_vars(OtherEnds)
FairSpec == Spec /\ Fairness

-----------------------------------------------------------------------------
(* Properties. *)

Scheds == [on : BOOLEAN, name : Names \cup {""}, overlap : {"skip", "queue", "restart"},
           catchup : {"latest", "all", "none"}, paused : BOOLEAN, last : 0..MaxTime]
Phases == {"idle", "go", "run", "cancel", "retry"}

\* The shape of the state: a claim exists as long as its pass, and a firing runs
\* as long as it holds the hook's name.
TypeOK ==
  /\ clock \in Windows /\ boot \in Windows /\ restarts \in 0..MaxRestarts
  /\ installed \in BOOLEAN
  /\ sched \in [Objs -> Scheds]
  /\ claim \in [Objs -> 0..MaxTime] /\ left \in [Objs -> SUBSET Windows]
  /\ phase \in [Objs -> Phases]
  /\ hook \in [by : Objs \cup {Nobody, Other}, canceled : BOOLEAN]
  /\ keys \in [Names -> SUBSET Failures]
  /\ fired \in [Objs -> SUBSET Windows] /\ account \in [Objs -> SUBSET Windows]
  /\ \A o \in Objs : /\ phase[o] = "run" <=> hook.by = o
                     /\ phase[o] # "idle" <=> claim[o] # 0

\* No window fires twice: not in two passes, not after a resume, and not after
\* a restart once the pass that fired it had finished.
StartsOn(o, w) == hook.by # o /\ hook'.by = o /\ w \in Oldest(left[o])
FiredOnce ==
  [][\A o \in Objs, w \in Windows : StartsOn(o, w) => w \notin fired[o]]_vars

\* A cursor only goes forward.
CursorForward == [][\A o \in Objs : sched'[o].on => sched'[o].last >= sched[o].last]_vars

\* No window goes missing: one the cursor has passed was fired, skipped on
\* record, dropped by the catch-up policy or passed during a pause.
NothingMissed == \A o \in Objs : sched[o].on => 1..sched[o].last \subseteq account[o]

\* A due window of a schedule that can fire is handled in the end.
Waiting(o, w) == Fit(o) /\ ~sched[o].paused /\ w <= clock /\ w \notin account[o]
DueIsHandled == \A o \in Objs, w \in Windows : Waiting(o, w) ~> ~Waiting(o, w)

\* "paused - it fires nothing until resumed" (bc-axi schedule pause).
PausedFiresNothing ==
  [][\A o \in Objs, w \in Windows : StartsOn(o, w) => ~sched[o].paused]_vars

\* "a schedule removed and re-added under the same name is a different schedule":
\* what its predecessor's owner was told of does not silence its own failures.
FreshStart ==
  [][\A o \in Objs : ~sched[o].on /\ sched'[o].on => keys[sched'[o].name] = {}]_vars
=============================================================================

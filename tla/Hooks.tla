------------------------------- MODULE Hooks --------------------------------
(***************************************************************************)
(* One named hook: the lock its runs share and the child each one spawns   *)
(* (src/server/hooks.js), the keyed events a run or a schedule reports     *)
(* with (src/server/server.js, ask - deliver - claim), and the screen that *)
(* shows the hooks (src/ui/js/hkmanager.js).                               *)
(*                                                                         *)
(* A handler of the server runs to its end without another one in between, *)
(* but a crash, or a write that fails, can fall between two of its steps.  *)
(***************************************************************************)
EXTENDS Naturals, FiniteSets

CONSTANTS
  Caller,      \* who runs the hook: schedules, and everybody else
  Sched,       \* the callers that are schedules with overlap "restart"
  CardKey,     \* keys the hook's own script puts on the events it posts
  FailKey,     \* the signature of a failing run, in the schedule's scope
  MaxLosses,   \* bound: writes that fail, keys past their week
  MaxCrashes   \* bound

Nobody == "nobody"
HooksAssumption ==
  /\ Sched \subseteq Caller /\ Nobody \notin Caller /\ FailKey \notin CardKey
  /\ MaxLosses \in Nat /\ MaxCrashes \in Nat

VARIABLES
  lock,     \* inFlight: the caller whose run holds the name, or Nobody
  call,     \* each caller: its pc, and its run's child and how it went
  orphans,  \* children of a server that is gone
  keys,     \* eventkeys.json: the keys claimed
  told,     \* keys the owner's queue has an item for, since they were forgotten
  wakes,    \* wakes[k]: items written to the owner's queue under a card's key
  spare,    \* spare[k]: second items the losses so far excuse
  stuck,    \* history: keys of a failure that is fixed, which no write has taken off the disk
  post,     \* the handler under way: its stage and key
  screen,   \* the hooks screen: its read, what it has not painted, what it says
  losses, crashes
running == <<lock, call, orphans>>
store   == <<keys, told, wakes, spare, stuck>>
vars == <<running, store, post, screen, losses, crashes>>

Key == CardKey \cup {FailKey}
NoCall == [pc |-> "idle", child |-> "none", ok |-> FALSE, canceled |-> FALSE]
NoPost == [stage |-> "none", key |-> FailKey]

Init ==
  /\ lock = Nobody /\ call = [c \in Caller |-> NoCall] /\ orphans = 0
  /\ keys = {} /\ told = {} /\ wakes = [k \in CardKey |-> 0] /\ spare = [k \in CardKey |-> 0]
  /\ stuck = {} /\ post = NoPost
  /\ screen = [read |-> "no", stale |-> FALSE, behind |-> FALSE, nudged |-> FALSE, says |-> FALSE]
  /\ losses = 0 /\ crashes = 0

Loss == losses < MaxLosses /\ losses' = losses + 1
Quiet == post.stage = "none"

--------------------------------------------------------------------------
(* The run: runNamedHook, runOne, cancelNamedHook.                         *)
Spawned(c) == [pc |-> "runs", child |-> "up", ok |-> FALSE, canceled |-> FALSE]
NotSpawned(c) == [Spawned(c) EXCEPT !.child = "gone"]

Starts(c) ==
  /\ Quiet /\ call[c].pc \in {"idle", "retry"} /\ lock = Nobody
  /\ lock' = c
  /\ \E run \in {Spawned(c), NotSpawned(c)} : call' = [call EXCEPT ![c] = run]
  /\ UNCHANGED <<orphans, store, post, screen, losses, crashes>>

\* A caller is refused while a run is in flight: 409, or a skipped window.
Refused(c) ==
  /\ Quiet /\ call[c].pc = "retry" /\ lock # Nobody
  /\ call' = [call EXCEPT ![c] = NoCall]
  /\ UNCHANGED <<lock, orphans, store, post, screen, losses, crashes>>

\* restart: the whole group is killed, and the caller waits for the run's end.
Killed(run) == [run EXCEPT !.canceled = TRUE, !.child = "gone",
                           !.ok = IF run.child = "up" THEN FALSE ELSE @]
LockDropped == Nobody
LockKept == lock
Cancels(c) ==
  /\ Quiet /\ c \in Sched /\ call[c].pc = "idle" /\ lock # Nobody
  /\ call' = [call EXCEPT ![c].pc = "waits", ![lock] = Killed(@)]
  /\ lock' = LockKept
  /\ UNCHANGED <<orphans, store, post, screen, losses, crashes>>

ChildExits(c) ==
  /\ call[c].pc = "runs" /\ call[c].child = "up"
  /\ \E ok \in BOOLEAN : call' = [call EXCEPT ![c].child = "gone", ![c].ok = ok]
  /\ UNCHANGED <<lock, orphans, store, post, screen, losses, crashes>>

\* The timer is cleared when the streams close, two seconds after the exit at
\* the latest: it fires on a child that is up, or on one already gone.
TimesOut(c) ==
  /\ Quiet /\ call[c].pc = "runs"
  /\ call' = [call EXCEPT ![c].child = "gone", ![c].ok = FALSE]
  /\ UNCHANGED <<lock, orphans, store, post, screen, losses, crashes>>

Freed == [c \in Caller |-> IF call[c].pc = "waits" THEN [call[c] EXCEPT !.pc = "retry"] ELSE call[c]]
Excuse(K) == spare' = [k \in CardKey |-> IF k \in K THEN spare[k] + 1 ELSE spare[k]]
Unspoken(K) == keys' = keys \ K /\ told' = told \ K /\ stuck' = stuck \ K
(* A write that fails leaves the file as it was, or cut to nothing; it is only logged, and what
   it should have forgotten stays claimed. *)
FailedWrite == {keys, {}}
StillClaimed(K) ==
  /\ Loss /\ keys' \in FailedWrite /\ Excuse(keys \ keys')
  /\ told' = told \ K /\ stuck' = (stuck \cup K) \cap keys'
Recovered(c) == c \in Sched /\ call[c].ok /\ FailKey \in keys
Lands(c) ==                                \* landScheduleFailure, -Recovery
  IF Recovered(c)
  THEN /\ UNCHANGED post /\ screen' = [screen EXCEPT !.behind = TRUE, !.nudged = TRUE]
       /\ (Unspoken({FailKey}) /\ UNCHANGED <<spare, losses>>) \/ StillClaimed({FailKey})
  ELSE /\ post' = IF c \in Sched /\ ~call[c].canceled /\ ~call[c].ok
                  THEN [stage |-> "ask", key |-> FailKey] ELSE post
       /\ UNCHANGED <<keys, told, spare, stuck, screen, losses>>
Finishes(c) ==
  /\ Quiet /\ call[c].pc = "runs" /\ call[c].child = "gone"
  /\ lock' = Nobody /\ call' = [Freed EXCEPT ![c] = NoCall]
  /\ Lands(c)
  /\ UNCHANGED <<orphans, wakes, crashes>>

OrphanExits ==
  /\ orphans > 0 /\ orphans' = orphans - 1
  /\ UNCHANGED <<lock, call, store, post, screen, losses, crashes>>

--------------------------------------------------------------------------
(* A keyed event: POST /api/cards/:id/events, and a schedule's failure.    *)
Posts ==
  /\ Quiet /\ (orphans > 0 \/ \E c \in Caller : call[c].child = "up")
  /\ \E k \in CardKey : post' = [stage |-> "ask", key |-> k]
  /\ UNCHANGED <<running, store, screen, losses, crashes>>

ClaimedAtOnce == keys \cup {post.key}
Asked == keys
Unseen == FALSE
Seen == post.key \in keys
Asks ==
  /\ post.stage = "ask"
  /\ IF Seen THEN post' = NoPost /\ UNCHANGED keys
             ELSE post' = [post EXCEPT !.stage = "deliver"] /\ keys' = Asked
  /\ UNCHANGED <<running, told, wakes, spare, stuck, screen, losses, crashes>>

Delivers ==
  /\ post.stage = "deliver"
  /\ \/ /\ wakes' = [k \in CardKey |-> IF k = post.key THEN wakes[k] + 1 ELSE wakes[k]]
        /\ told' = told \cup {post.key}
        /\ post' = [post EXCEPT !.stage = "save"] /\ UNCHANGED losses
     \/ Loss /\ post' = NoPost /\ UNCHANGED <<wakes, told>>          \* the queue will not write
  /\ UNCHANGED <<running, keys, spare, stuck, screen, crashes>>

Saves ==
  /\ post.stage = "save"
  /\ \/ /\ post' = [post EXCEPT !.stage = "claim"] /\ UNCHANGED <<spare, losses>>
     \/ Loss /\ post' = NoPost /\ Excuse({post.key})                  \* the board will not
  /\ UNCHANGED <<running, keys, told, wakes, stuck, screen, crashes>>

Claims ==
  /\ post.stage = "claim"
  /\ \/ keys' = keys \cup {post.key} /\ UNCHANGED <<spare, losses>>
     \/ /\ Loss /\ keys' \in FailedWrite                             \* the key store will not
        /\ Excuse((keys \ keys') \cup {post.key})
  /\ stuck' = stuck \cap keys'
  /\ post' = NoPost /\ screen' = [screen EXCEPT !.behind = TRUE, !.nudged = TRUE]
  /\ UNCHANGED <<running, told, wakes, crashes>>

\* A week has passed: the next report is a new one.
Expires(k) ==
  /\ Quiet /\ k \in keys /\ Loss /\ Unspoken({k}) /\ Excuse({k})
  /\ UNCHANGED <<running, wakes, post, screen, crashes>>

\* The store is written in place: a crash in the middle of a claim, or of a recovery, tears it.
Recovering == \E c \in Caller : call[c].pc = "runs" /\ call[c].child = "gone" /\ Recovered(c)
LostByCrash == IF post.stage = "claim" \/ Recovering THEN {{}, keys} ELSE {keys}
Interrupted == IF post.stage \in {"save", "claim"} THEN {post.key} ELSE {}
Crash ==
  /\ crashes < MaxCrashes /\ crashes' = crashes + 1
  /\ lock' = Nobody /\ call' = [c \in Caller |-> NoCall]
  /\ orphans' = orphans + Cardinality({c \in Caller : call[c].child = "up"})
  /\ keys' \in LostByCrash /\ stuck' = stuck \cap keys'
  /\ Excuse((keys \ keys') \cup Interrupted)
  /\ post' = NoPost
  /\ screen' = [screen EXCEPT !.behind = TRUE, !.nudged = TRUE]      \* the stream reconnects
  /\ UNCHANGED <<told, wakes, losses>>

--------------------------------------------------------------------------
(* The screen: renderHooks, one read at a time.                            *)
Renders ==
  /\ screen.nudged
  /\ screen' = IF screen.read = "no"
               THEN [screen EXCEPT !.nudged = FALSE, !.read = "sent", !.stale = FALSE]
               ELSE [screen EXCEPT !.nudged = FALSE, !.stale = TRUE]
  /\ UNCHANGED <<running, store, post, losses, crashes>>

ServerReads ==
  /\ screen.read = "sent" /\ Quiet
  /\ screen' = [screen EXCEPT !.read = "answered", !.behind = FALSE]
  /\ UNCHANGED <<running, store, post, losses, crashes>>

OneRead == "no"
NextRead == IF screen.stale THEN "sent" ELSE "no"
ReadReturns ==
  /\ screen.read = "answered"
  /\ screen' = [screen EXCEPT !.read = NextRead, !.stale = FALSE, !.says = FALSE]
  /\ UNCHANGED <<running, store, post, losses, crashes>>

ReadFails ==
  /\ screen.read \in {"sent", "answered"} /\ Loss
  /\ screen' = [screen EXCEPT !.read = "no", !.behind = TRUE, !.says = TRUE]
  /\ UNCHANGED <<running, store, post, crashes>>

--------------------------------------------------------------------------
Handles == Asks \/ Delivers \/ Saves \/ Claims
Paints == Renders \/ ServerReads \/ ReadReturns

Next ==
  \/ \E c \in Caller : \/ Starts(c) \/ Refused(c) \/ Cancels(c) \/ ChildExits(c)
                       \/ TimesOut(c) \/ Finishes(c)
  \/ OrphanExits \/ Posts \/ Handles \/ Crash \/ Paints \/ ReadFails
  \/ \E k \in Key : Expires(k)

Spec == Init /\ [][Next]_vars

--------------------------------------------------------------------------
TypeOK ==
  /\ lock \in Caller \cup {Nobody}
  /\ call \in [Caller -> [pc : {"idle", "runs", "waits", "retry"}, child : {"none", "up", "gone"},
                          ok : BOOLEAN, canceled : BOOLEAN]]
  /\ orphans \in Nat /\ keys \subseteq Key /\ told \subseteq Key /\ stuck \subseteq keys
  /\ wakes \in [CardKey -> Nat] /\ spare \in [CardKey -> Nat]
  /\ post \in [stage : {"none", "ask", "deliver", "save", "claim"}, key : Key]
  /\ screen \in [read : {"no", "sent", "answered"}, stale : BOOLEAN, behind : BOOLEAN,
                 nudged : BOOLEAN, says : BOOLEAN]
  /\ losses \in 0..MaxLosses /\ crashes \in 0..MaxCrashes

\* One child of this server at a time, whoever runs, cancels or restarts: a
\* canceller starts its own only when the killed one is gone.
OneAtATime == Cardinality({c \in Caller : call[c].child # "none"}) <= 1

\* A key that answers "duplicate" is one whose wake is in the owner's queue, or one a failed
\* write left claimed when its failure was fixed: no crash and no other failed write swallows
\* an escalation.
NeverSwallowed == keys \subseteq told \cup stuck

\* Refuted: a recovery is forgotten on disk, so that the next failure is heard as new.
RecoveryIsForgotten == keys \subseteq told

\* The price: every wake but the first under a key is paid for by a write that
\* failed, a crash, a key forgotten or past its week.
HeardOnce == \A k \in CardKey : wakes[k] <= 1 + spare[k]

\* The screen lacks an event only while a read or a nudge is on its way, or
\* while it says that its last read failed.
ScreenCurrent == screen.behind => screen.nudged \/ screen.read # "no" \/ screen.says

\* One run per hook name at a time, board-wide: not across a crash of the
\* server, whose child was given a process group of its own and lives on.
OneAlive == orphans + Cardinality({c \in Caller : call[c].child = "up"}) <= 1
=============================================================================

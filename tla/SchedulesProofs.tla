-------------------------- MODULE SchedulesProofs ---------------------------
(***************************************************************************)
(* Theorems about the clock of module Schedules.                           *)
(***************************************************************************)
EXTENDS Schedules, FiniteSetTheorems, TLAPS

-----------------------------------------------------------------------------
(* Type correctness. *)

LEMMA OldestIn == ASSUME NEW S PROVE Oldest(S) \subseteq S
BY DEF Oldest

LEMMA PickDue ==
  ASSUME TypeOK, NEW o \in Objs
  PROVE  /\ Pick(o) \subseteq Due(o)
         /\ Due(o) \subseteq AllDue(o)
         /\ AllDue(o) \subseteq Windows
<1>1. sched[o].catchup \in {"latest", "all", "none"}
  BY DEF TypeOK, Scheds
<1>2. ASSUME NEW S, NEW n PROVE Newest(S, n) \subseteq S
  BY DEF Newest
<1>3. Due(o) \subseteq AllDue(o)
  BY <1>2 DEF Due
<1>4. Pick(o) \subseteq Due(o)
  BY <1>1, <1>2 DEF Pick
<1>5. AllDue(o) \subseteq Windows
  BY DEF AllDue
<1> QED BY <1>3, <1>4, <1>5

LEMMA InitType == ASSUME Init PROVE TypeOK
<1>1. MaxTime \in Nat /\ MaxTime >= 1 /\ MaxRestarts \in Nat
  BY SchedulesAssumption
<1>2. 1 \in Windows /\ 0 \in 0..MaxTime /\ 0 \in 0..MaxRestarts
  BY <1>1 DEF Windows
<1>3. Unused \in Scheds
  BY <1>2 DEF Unused, Scheds
<1>4. Idle \in [by : Objs \cup {Nobody, Other}, canceled : BOOLEAN] /\ Idle.by = Nobody
  BY DEF Idle
<1>5. \A o \in Objs : o # Nobody
  BY SchedulesAssumption
<1> QED BY <1>2, <1>3, <1>4, <1>5 DEF Init, TypeOK, Phases

LEMMA Bounds == MaxTime \in Nat /\ MaxTime >= 1 /\ Windows \subseteq 1..MaxTime
                /\ (\A o \in Objs : o # Nobody /\ o # Other) /\ Nobody # Other
BY SchedulesAssumption DEF Windows

\* What the routes and the passes write to a schedule is a schedule.
LEMMA SchedWrites ==
  ASSUME NEW r \in Scheds, NEW n \in 0..MaxTime, NEW b \in BOOLEAN
  PROVE  /\ [r EXCEPT !.last = n] \in Scheds
         /\ [r EXCEPT !.on = b] \in Scheds
         /\ [r EXCEPT !.paused = b] \in Scheds
         /\ [r EXCEPT !.paused = b, !.last = n] \in Scheds
BY DEF Scheds

LEMMA UnusedSched == Unused \in Scheds
BY Bounds DEF Unused, Scheds

\* The two agreements TypeOK states between the pass, its claim and the hook.
Running == \A p \in Objs : phase[p] = "run" <=> hook.by = p
Claimed == \A p \in Objs : phase[p] # "idle" <=> claim[p] # 0

LEMMA Agreements == TypeOK => Running /\ Claimed
BY DEF TypeOK, Running, Claimed

\* The end of a pass keeps the shape of the state when what it reached is a cursor.
LEMMA EndPassType ==
  ASSUME TypeOK, NEW o \in Objs, NEW n \in 0..MaxTime, EndPass(o, n), Turn(o),
         UNCHANGED <<worldVars, keys, hook>>
  PROVE  TypeOK'
<1>1. sched' \in [Objs -> Scheds]
  <2>0. sched \in [Objs -> Scheds]
    BY DEF TypeOK
  <2>1. MaxOf(sched[o].last, n) \in 0..MaxTime
    BY Bounds, <2>0 DEF MaxOf, Scheds
  <2>2. /\ sched'[o] = IF sched[o].on
                         THEN [sched[o] EXCEPT !.last = MaxOf(sched[o].last, n)]
                         ELSE Unused
        /\ \A p \in Objs : p # o => sched'[p] = sched[p]
        /\ sched' = [p \in Objs |-> sched'[p]]
    BY <2>0 DEF EndPass, Reached
  <2>3. sched'[o] \in Scheds
    <3>1. CASE sched[o].on
      <4>1. [sched[o] EXCEPT !.last = MaxOf(sched[o].last, n)] \in Scheds
        BY <2>0, <2>1, SchedWrites
      <4> QED BY <2>2, <3>1, <4>1
    <3>2. CASE ~sched[o].on
      BY <2>2, <3>2, UnusedSched
    <3> QED BY <3>1, <3>2
  <2> QED BY <2>0, <2>2, <2>3
<1>2. /\ fired' \in [Objs -> SUBSET Windows]
      /\ account' \in [Objs -> SUBSET Windows]
  BY DEF EndPass, ghosts, Forgets, TypeOK
<1>3. /\ claim' \in [Objs -> 0..MaxTime]
      /\ left' \in [Objs -> SUBSET Windows]
      /\ phase' \in [Objs -> Phases]
  BY Bounds DEF EndPass, DropClaim, TypeOK, Phases
<1>4. phase \in [Objs -> Phases] /\ claim \in [Objs -> 0..MaxTime]
  BY DEF TypeOK
<1>5. Running'
  <2>1. phase[o] # "run" /\ Running
    BY Agreements DEF Turn
  <2> QED BY <1>4, <2>1 DEF EndPass, Running
<1>6. Claimed'
  BY <1>4, Agreements DEF EndPass, DropClaim, Claimed
<1> QED BY <1>1, <1>2, <1>3, <1>5, <1>6 DEF TypeOK, worldVars, Running, Claimed

LEMMA StepType == ASSUME TypeOK, [Next]_vars PROVE TypeOK'
<1> USE Bounds
<1>a. /\ sched \in [Objs -> Scheds]
      /\ phase \in [Objs -> Phases]
      /\ claim \in [Objs -> 0..MaxTime]
      /\ clock \in Windows /\ clock \in 0..MaxTime
  BY DEF TypeOK
<1>b. Running /\ Claimed
  BY Agreements
<1>1. ASSUME NEW o \in Objs, TickArms(o) PROVE TypeOK'
  <2>1. sched' \in [Objs -> Scheds]
    BY <1>1, <1>a, SchedWrites DEF TickArms
  <2>2. account' \in [Objs -> SUBSET Windows]
    BY <1>1 DEF TickArms, TypeOK, Windows
  <2> QED BY <1>1, <2>1, <2>2 DEF TickArms, TypeOK, passVars, worldVars
<1>2. ASSUME NEW o \in Objs, TickFires(o) PROVE TypeOK'
  <2>1. Due(o) \subseteq Windows /\ Pick(o) \subseteq Windows
    BY PickDue
  <2>2. PICK n \in Due(o) : claim' = [claim EXCEPT ![o] = n]
    BY <1>2 DEF TickFires
  <2>3. claim' \in [Objs -> 0..MaxTime] /\ claim'[o] # 0
    <3>1. n \in 1..MaxTime
      BY <2>1, <2>2
    <3> QED BY <1>a, <2>2, <3>1
  <2>4. left' \in [Objs -> SUBSET Windows] /\ phase' \in [Objs -> Phases]
    BY <1>2, <2>1 DEF TickFires, TypeOK, Phases
  <2>5. account' \in [Objs -> SUBSET Windows]
    BY <1>2, PickDue DEF TickFires, TypeOK
  <2>6. Running'
    BY <1>2, <1>a, <1>b DEF TickFires, Running, Claimed
  <2>7. Claimed'
    BY <1>2, <1>a, <1>b, <2>2, <2>3 DEF TickFires, Claimed
  <2> QED BY <1>2, <2>3, <2>4, <2>5, <2>6, <2>7
       DEF TickFires, TypeOK, worldVars, Running, Claimed
<1>3. ASSUME NEW o \in Objs, TickOverlaps(o) PROVE TypeOK'
  <2>0. Due(o) \subseteq Windows
    BY PickDue
  <2>1. CASE /\ account' = [account EXCEPT ![o] = @ \cup Due(o)]
             /\ \E n \in Due(o) : claim' = [claim EXCEPT ![o] = n]
             /\ UNCHANGED hook
    <3>1. account' \in [Objs -> SUBSET Windows]
      BY <2>0, <2>1 DEF TypeOK
    <3>2. PICK n \in Due(o) : claim' = [claim EXCEPT ![o] = n]
      BY <2>1
    <3>3. claim' \in [Objs -> 0..MaxTime] /\ claim'[o] # 0
      <4>1. n \in 1..MaxTime
        BY <2>0, <3>2
      <4> QED BY <1>a, <3>2, <4>1
    <3>4. Claimed'
      BY <1>3, <1>a, <1>b, <3>2, <3>3 DEF TickOverlaps, Claimed
    <3> QED BY <1>3, <2>1, <3>1, <3>3, <3>4
         DEF TickOverlaps, TypeOK, worldVars, Claimed
  <2>2. CASE hook' = [hook EXCEPT !.canceled = TRUE] /\ UNCHANGED <<claim, account>>
    BY <1>3, <2>2 DEF TickOverlaps, TypeOK, worldVars
  <2> QED BY <1>3, <2>1, <2>2 DEF TickOverlaps
<1>4. ASSUME NEW o \in Objs, PassEnds(o) PROVE TypeOK'
  BY <1>4, <1>a, EndPassType DEF PassEnds
<1>5. ASSUME NEW o \in Objs, Starts(o) PROVE TypeOK'
  <2>1. fired' \in [Objs -> SUBSET Windows] /\ account' \in [Objs -> SUBSET Windows]
    BY <1>5, OldestIn DEF Starts, TypeOK
  <2>2. hook' \in [by : Objs \cup {Nobody, Other}, canceled : BOOLEAN] /\ hook'.by = o
    BY <1>5 DEF Starts
  <2>3. phase' \in [Objs -> Phases]
    BY <1>5, <1>a DEF Starts, Phases
  <2>4. Running'
    BY <1>5, <1>a, <1>b, <2>2 DEF Starts, Running
  <2>5. Claimed'
    BY <1>5, <1>a, <1>b DEF Starts, Turn, Claimed
  <2> QED BY <1>5, <2>1, <2>2, <2>3, <2>4, <2>5
       DEF Starts, TypeOK, worldVars, Running, Claimed
<1>6. ASSUME NEW o \in Objs, Queued(o) PROVE TypeOK'
  <2>1. PICK w \in Oldest(left[o]) : EndPass(o, PullBack(w))
    BY <1>6 DEF Queued
  <2>2. w \in 1..MaxTime
    BY OldestIn DEF TypeOK
  <2>3. PullBack(w) \in 0..MaxTime
    BY <2>2 DEF PullBack
  <2> QED BY <1>6, <2>1, <2>3, EndPassType DEF Queued, Busy
<1>7. ASSUME NEW o \in Objs, Unhooked(o) \/ Skipped(o) PROVE TypeOK'
  <2>1. account' \in [Objs -> SUBSET Windows]
    BY <1>7, OldestIn DEF Unhooked, Skipped, TypeOK
  <2>2. left' \in [Objs -> SUBSET Windows]
    BY <1>7 DEF Unhooked, Skipped, NextWindow, TypeOK
  <2>3. /\ phase' = [phase EXCEPT ![o] = "go"] /\ phase[o] \in {"go", "retry"}
        /\ UNCHANGED <<claim, hook>>
    BY <1>7 DEF Unhooked, Skipped, Busy, NextWindow, Turn
  <2>4. phase' \in [Objs -> Phases]
    BY <1>a, <2>3 DEF Phases
  <2>5. Running' /\ Claimed'
    BY <1>a, <1>b, <2>3 DEF Running, Claimed
  <2>6. UNCHANGED <<sched, claim, worldVars, keys, hook, fired>>
    BY <1>7 DEF Unhooked, Skipped
  <2> QED BY <2>1, <2>2, <2>4, <2>5, <2>6 DEF TypeOK, worldVars, Running, Claimed
<1>8. ASSUME NEW o \in Objs, Cancels(o) PROVE TypeOK'
  <2>1. phase' \in [Objs -> Phases]
    BY <1>8, <1>a DEF Cancels, Phases
  <2>2. hook' \in [by : Objs \cup {Nobody, Other}, canceled : BOOLEAN] /\ hook'.by = hook.by
    BY <1>8 DEF Cancels, TypeOK
  <2>3. Running'
    BY <1>8, <1>a, <1>b, <2>2 DEF Cancels, Running
  <2>4. Claimed'
    BY <1>8, <1>a, <1>b DEF Cancels, Claimed
  <2> QED BY <1>8, <2>1, <2>2, <2>3, <2>4
       DEF Cancels, TypeOK, worldVars, Running, Claimed
<1>9. ASSUME NEW o \in Objs, FiringEnds(o) PROVE TypeOK'
  <2>1. keys' \in [Names -> SUBSET Failures]
    BY <1>9 DEF FiringEnds, Succeeds, Fails, TypeOK
  <2>2. left' \in [Objs -> SUBSET Windows]
    BY <1>9 DEF FiringEnds, TypeOK
  <2>3. hook' \in [by : Objs \cup {Nobody, Other}, canceled : BOOLEAN] /\ hook'.by = Nobody
    BY <1>9 DEF FiringEnds, Idle
  <2>4. phase' \in [Objs -> Phases]
    BY <1>9, <1>a DEF FiringEnds, Woken, Phases
  <2>5. Running'
    BY <1>9, <1>a, <1>b, <2>3 DEF FiringEnds, Woken, Running
  <2>6. Claimed'
    BY <1>9, <1>a, <1>b DEF FiringEnds, Woken, Running, Claimed
  <2>7. UNCHANGED <<sched, claim, worldVars, fired, account>>
    BY <1>9 DEF FiringEnds
  <2> QED BY <2>1, <2>2, <2>3, <2>4, <2>5, <2>6, <2>7
       DEF TypeOK, worldVars, Running, Claimed
<1>10. ASSUME NEW o \in Objs, NEW n \in Names, Add(o, n) PROVE TypeOK'
  <2>1. PICK ov \in Overlaps, cu \in Catchups :
          sched' = [sched EXCEPT ![o] = [on |-> TRUE, name |-> n, overlap |-> ov,
                                         catchup |-> cu, paused |-> FALSE, last |-> 0]]
    BY <1>10 DEF Add
  <2>2. ov \in {"skip", "queue", "restart"} /\ cu \in {"latest", "all", "none"}
    BY SchedulesAssumption
  <2>3. sched' \in [Objs -> Scheds]
    <3>1. PICK r : r = [on |-> TRUE, name |-> n, overlap |-> ov,
                        catchup |-> cu, paused |-> FALSE, last |-> 0]
      OBVIOUS
    <3>2. r \in Scheds
      <4>1. 0 \in 0..MaxTime
        OBVIOUS
      <4>2. n \in Names \cup {""}
        BY Zenon
      <4> QED BY <2>2, <3>1, <4>1, <4>2 DEF Scheds
    <3> QED BY <1>a, <2>1, <3>1, <3>2
  <2> QED BY <1>10, <2>3 DEF Add, TypeOK, passVars, worldVars
<1>11. ASSUME NEW o \in Objs, Pause(o) PROVE TypeOK'
  <2>1. sched' \in [Objs -> Scheds]
    BY <1>11, <1>a, SchedWrites DEF Pause
  <2> QED BY <1>11, <2>1 DEF Pause, TypeOK, passVars, worldVars
<1>12. ASSUME NEW o \in Objs, Resume(o) PROVE TypeOK'
  <2>1. [sched[o] EXCEPT !.paused = FALSE, !.last = clock] \in Scheds
    BY <1>a, SchedWrites
  <2>2. sched' \in [Objs -> Scheds]
    BY <1>12, <1>a, <2>1 DEF Resume
  <2>3. account' \in [Objs -> SUBSET Windows]
    BY <1>12 DEF Resume, TypeOK, Windows
  <2> QED BY <1>12, <2>2, <2>3 DEF Resume, TypeOK, passVars, worldVars
<1>13. ASSUME NEW o \in Objs, Remove(o) PROVE TypeOK'
  <2>1. sched' \in [Objs -> Scheds]
    BY <1>13, <1>a, UnusedSched, SchedWrites DEF Remove
  <2>2. fired' \in [Objs -> SUBSET Windows] /\ account' \in [Objs -> SUBSET Windows]
    BY <1>13 DEF Remove, ghosts, Forgets, TypeOK
  <2> QED BY <1>13, <2>1, <2>2 DEF Remove, TypeOK, passVars, worldVars
<1>14. ASSUME OtherRuns \/ OtherEnds PROVE TypeOK'
  <2>1. CASE OtherRuns
    BY <2>1 DEF OtherRuns, TypeOK, passVars, worldVars
  <2>2. CASE OtherEnds
    <3>1. phase' \in [Objs -> Phases]
      BY <2>2, <1>a DEF OtherEnds, Woken, Phases
    <3>2. hook' \in [by : Objs \cup {Nobody, Other}, canceled : BOOLEAN]
          /\ hook'.by = Nobody
      BY <2>2 DEF OtherEnds, Idle
    <3>3. Running'
      BY <2>2, <1>a, <1>b, <3>2 DEF OtherEnds, Woken, Running
    <3>4. Claimed'
      BY <2>2, <1>a, <1>b DEF OtherEnds, Woken, Claimed
    <3> QED BY <2>2, <3>1, <3>2, <3>3, <3>4
         DEF OtherEnds, TypeOK, worldVars, Running, Claimed
  <2> QED BY <1>14, <2>1, <2>2
<1>15. ASSUME Advance \/ HookFile PROVE TypeOK'
  <2>1. clock' \in Windows
    BY <1>15, <1>a DEF Advance, HookFile, Windows
  <2>2. installed' \in BOOLEAN
    BY <1>15 DEF Advance, HookFile, TypeOK
  <2>3. UNCHANGED <<boot, restarts, sched, passVars, keys, hook, fired, account>>
    BY <1>15 DEF Advance, HookFile
  <2> QED BY <2>1, <2>2, <2>3 DEF TypeOK, passVars
<1>16. ASSUME Restart PROVE TypeOK'
  <2>1. restarts' \in 0..MaxRestarts
    BY <1>16, SchedulesAssumption DEF Restart, TypeOK
  <2>2. sched' \in [Objs -> Scheds]
    BY <1>16, <1>a, UnusedSched DEF Restart
  <2>3. fired' \in [Objs -> SUBSET Windows] /\ account' \in [Objs -> SUBSET Windows]
    BY <1>16 DEF Restart, TypeOK
  <2>4. hook' \in [by : Objs \cup {Nobody, Other}, canceled : BOOLEAN] /\ hook'.by = Nobody
    BY <1>16 DEF Restart, Idle
  <2> QED BY <1>16, <2>1, <2>2, <2>3, <2>4 DEF Restart, TypeOK, Phases
<1>17. CASE UNCHANGED vars
  BY <1>17 DEF vars, passVars, worldVars, TypeOK
<1> QED
  BY <1>1, <1>2, <1>3, <1>4, <1>5, <1>6, <1>7, <1>8, <1>9, <1>10, <1>11, <1>12,
     <1>13, <1>14, <1>15, <1>16, <1>17
  DEF Next, Tick, Proceeds, Attempt

\* The shape of the state, whatever the routes, the ticks, the passes and the
\* restarts of the server do: a claim lives as long as its pass (scheduleClaims),
\* and a window runs just as long as its run is the one registered under the name.
THEOREM TypeCorrect == Spec => []TypeOK
<1>1. TypeOK /\ [Next]_vars => TypeOK'
  BY StepType
<1> QED BY InitType, <1>1, PTL DEF Spec

-----------------------------------------------------------------------------
(* The order of the windows: what a pass has started lies behind its cursor *)
(* or its claim, and before everything it has yet to start.                 *)

OrderedAt(o) ==
  /\ sched[o].last <= clock /\ claim[o] <= clock
  /\ claim[o] # 0 => sched[o].last # 0
  /\ \A w \in left[o] : w <= claim[o]
  /\ \A v \in fired[o] : v <= From(o)
  /\ \A v \in fired[o], w \in left[o] :
       v < w \/ (phase[o] = "run" /\ v = w /\ w \in Oldest(left[o]))
Ordered == \A o \in Objs : OrderedAt(o)

\* TypeOK, for one schedule.
LEMMA Numbers ==
  ASSUME TypeOK, NEW o \in Objs
  PROVE  /\ sched[o] \in Scheds /\ sched[o].last \in Nat /\ claim[o] \in Nat
         /\ clock \in Nat \ {0}
         /\ \A w \in left[o] : w \in Nat \ {0}
         /\ \A w \in fired[o] : w \in Nat \ {0}
         /\ phase[o] # "idle" <=> claim[o] # 0
<1>1. sched[o] \in Scheds /\ claim[o] \in 0..MaxTime /\ clock \in Windows
      /\ left[o] \subseteq Windows /\ fired[o] \subseteq Windows
  BY DEF TypeOK
<1>2. \A w \in Windows : w \in Nat \ {0}
  BY Bounds
<1>3. sched[o].last \in 0..MaxTime
  BY <1>1 DEF Scheds
<1>4. phase[o] # "idle" <=> claim[o] # 0
  BY Agreements DEF Claimed
<1>5. sched[o].last \in Nat /\ claim[o] \in Nat /\ clock \in Nat \ {0}
  BY <1>1, <1>2, <1>3, Bounds
<1>6. /\ \A w \in left[o] : w \in Nat \ {0}
      /\ \A w \in fired[o] : w \in Nat \ {0}
  BY <1>1, <1>2
<1> QED BY <1>1, <1>4, <1>5, <1>6

LEMMA DueNumbers ==
  ASSUME TypeOK, NEW o \in Objs, NEW w \in Due(o)
  PROVE  w \in Nat \ {0} /\ w > From(o) /\ w <= clock
<1>1. w \in AllDue(o) /\ w \in Windows
  BY PickDue
<1> QED BY <1>1, Bounds DEF AllDue

LEMMA UnusedLast == Unused.last = 0 /\ ~Unused.on
BY DEF Unused

LEMMA OrderedStays ==
  ASSUME TypeOK, NEW o \in Objs, OrderedAt(o), clock' \in Nat, clock' >= clock,
         sched'[o].last = sched[o].last, claim'[o] = claim[o], left'[o] = left[o],
         fired'[o] = fired[o], phase[o] = "run" => phase'[o] = "run"
  PROVE  OrderedAt(o)'
BY Numbers DEF OrderedAt, From

\* A window behind a schedule's pass: a claim is more than what was started.
LEMMA EndPassOrdered ==
  ASSUME TypeOK, Ordered, NEW o \in Objs, NEW n \in Nat, n <= clock,
         EndPass(o, n), \A v \in fired[o] : v <= MaxOf(sched[o].last, n),
         UNCHANGED clock, NEW p \in Objs
  PROVE  OrderedAt(p)'
<1>1. sched \in [Objs -> Scheds] /\ sched[o].last \in Nat /\ clock \in Nat
  BY Numbers DEF TypeOK
<1>2. /\ claim'[o] = 0 /\ left'[o] = {}
      /\ p # o => /\ claim'[p] = claim[p] /\ left'[p] = left[p]
                  /\ phase'[p] = phase[p] /\ fired'[p] = fired[p]
                  /\ sched'[p] = sched[p]
  BY DEF EndPass, DropClaim, TypeOK, ghosts, Forgets, Reached
<1>3. CASE p # o
  BY <1>1, <1>2, <1>3, OrderedStays DEF Ordered
<1>4. CASE p = o /\ sched[o].on
  <2>1. /\ sched'[o] = [sched[o] EXCEPT !.last = MaxOf(sched[o].last, n)]
        /\ fired'[o] = fired[o]
    BY <1>1, <1>4 DEF EndPass, Reached, ghosts
  <2>2. sched'[o].last = MaxOf(sched[o].last, n)
    BY <1>1, <2>1 DEF Scheds
  <2> QED BY <1>1, <1>2, <1>4, <2>1, <2>2 DEF Ordered, OrderedAt, From, MaxOf
<1>5. CASE p = o /\ ~sched[o].on
  <2>1. sched'[o] = Unused /\ fired'[o] = {}
    BY <1>1, <1>5 DEF EndPass, Reached, Forgets, TypeOK
  <2> QED BY <1>1, <1>2, <1>5, <2>1, UnusedLast DEF OrderedAt
<1> QED BY <1>3, <1>4, <1>5

LEMMA StepOrdered == ASSUME TypeOK, Ordered, [Next]_vars PROVE Ordered'
<1> SUFFICES ASSUME NEW p \in Objs PROVE OrderedAt(p)'
  BY DEF Ordered
<1>a. /\ sched \in [Objs -> Scheds] /\ claim \in [Objs -> 0..MaxTime]
      /\ left \in [Objs -> SUBSET Windows] /\ fired \in [Objs -> SUBSET Windows]
      /\ phase \in [Objs -> Phases] /\ Running
  BY Agreements DEF TypeOK
<1>b. /\ sched[p] \in Scheds /\ sched[p].last \in Nat /\ claim[p] \in Nat
      /\ clock \in Nat \ {0}
      /\ \A w \in left[p] : w \in Nat \ {0}
      /\ \A w \in fired[p] : w \in Nat \ {0}
      /\ OrderedAt(p)
  BY Numbers DEF Ordered
<1>1. ASSUME NEW o \in Objs, TickArms(o) PROVE OrderedAt(p)'
  <2>1. UNCHANGED <<claim, left, phase, clock, fired>>
    BY <1>1 DEF TickArms, passVars, worldVars
  <2>2. CASE p = o
    <3>1. sched'[p].last = clock
      BY <1>1, <1>a, <2>2 DEF TickArms, Scheds
    <3> QED BY <1>b, <2>1, <3>1 DEF OrderedAt, From, MaxOf
  <2>3. CASE p # o
    BY <1>1, <1>a, <1>b, <2>1, <2>3, OrderedStays DEF TickArms
  <2> QED BY <2>2, <2>3
<1>2. ASSUME NEW o \in Objs, TickFires(o) PROVE OrderedAt(p)'
  <2>1. UNCHANGED <<sched, clock, fired>>
    BY <1>2 DEF TickFires, worldVars
  <2>2. CASE p = o
    <3>1. PICK n \in Due(o) : HasLast(Due(o), n) /\ claim' = [claim EXCEPT ![o] = n]
      BY <1>2 DEF TickFires
    <3>2. \A w \in Due(o) : w \in Nat /\ w > From(o) /\ w <= clock /\ w <= n
      BY <3>1, DueNumbers DEF HasLast
    <3>3. claim'[p] = n /\ left'[p] = Pick(o) /\ Pick(o) \subseteq Due(o)
      BY <1>2, <1>a, <2>2, <3>1, PickDue DEF TickFires
    <3>4. sched[p].last # 0 /\ From(p)' >= From(p) /\ From(p) \in Nat
      BY <1>2, <1>b, <2>1, <2>2, <3>2, <3>3 DEF TickFires, From, MaxOf
    <3>5. \A v \in fired'[p] : v <= From(p) /\ v \in Nat
      BY <1>b, <2>1 DEF OrderedAt
    <3>6. From(p)' \in Nat /\ n <= clock /\ n \in Nat
      BY <1>b, <2>1, <3>2, <3>3 DEF From, MaxOf
    <3>7. \A w \in left'[p] : w \in Nat /\ w <= claim'[p] /\ w > From(p)
      BY <2>2, <3>2, <3>3
    <3>8. \A v \in fired'[p] : v <= From(p)' /\ \A w \in left'[p] : v < w
      BY <3>4, <3>5, <3>6, <3>7
    <3>9. sched'[p].last <= clock' /\ sched'[p].last # 0
      BY <1>b, <2>1, <3>4 DEF OrderedAt
    <3>10. claim'[p] <= clock'
      BY <2>1, <3>3, <3>6
    <3> QED BY <3>7, <3>8, <3>9, <3>10 DEF OrderedAt
  <2>3. CASE p # o
    BY <1>2, <1>a, <1>b, <2>1, <2>3, OrderedStays DEF TickFires
  <2> QED BY <2>2, <2>3
<1>3. ASSUME NEW o \in Objs, TickOverlaps(o) PROVE OrderedAt(p)'
  <2>1. UNCHANGED <<sched, left, phase, clock, fired>>
    BY <1>3 DEF TickOverlaps, worldVars
  <2>2. CASE claim'[p] = claim[p]
    BY <1>b, <2>1, <2>2, OrderedStays
  <2>3. CASE claim'[p] # claim[p]
    <3>1. PICK n \in Due(o) : claim' = [claim EXCEPT ![o] = n]
      BY <1>3, <2>3 DEF TickOverlaps
    <3>2. p = o /\ claim'[p] = n /\ n > From(p) /\ n <= clock /\ n \in Nat
      <4>1. p = o /\ claim'[p] = n
        BY <1>a, <2>3, <3>1
      <4> QED BY <3>1, <4>1, DueNumbers
    <3>3. sched[p].last # 0
      BY <1>3, <3>2 DEF TickOverlaps
    <3> QED BY <1>b, <2>1, <3>2, <3>3 DEF OrderedAt, From, MaxOf
  <2> QED BY <2>2, <2>3
<1>4. ASSUME NEW o \in Objs, PassEnds(o) PROVE OrderedAt(p)'
  <2>1. claim[o] \in Nat /\ claim[o] <= clock /\ \A v \in fired[o] : v <= From(o)
    BY Numbers DEF Ordered, OrderedAt
  <2> QED BY <1>4, <2>1, EndPassOrdered DEF PassEnds, worldVars, From
<1>5. ASSUME NEW o \in Objs, Starts(o) PROVE OrderedAt(p)'
  <2>1. UNCHANGED <<sched, claim, left, clock>>
    BY <1>5 DEF Starts, worldVars
  <2>2. CASE p = o
    <3>1. fired'[p] = fired[p] \cup Oldest(left[p]) /\ phase'[p] = "run"
      BY <1>5, <1>a, <2>2 DEF Starts
    <3>2. phase[p] # "run"
      BY <1>5, <2>2 DEF Starts, Turn
    <3>3. \A v \in Oldest(left[p]) : v \in left[p] /\ \A w \in left[p] : v <= w
      BY DEF Oldest
    <3>4. \A v \in Oldest(left[p]), w \in left[p] :
            v < w \/ (v = w /\ w \in Oldest(left[p]))
      BY <1>b, <3>3
    <3> QED BY <1>b, <2>1, <3>1, <3>2, <3>3, <3>4 DEF OrderedAt, From, MaxOf
  <2>3. CASE p # o
    BY <1>5, <1>a, <1>b, <2>1, <2>3, OrderedStays DEF Starts
  <2> QED BY <2>2, <2>3
<1>6. ASSUME NEW o \in Objs, Queued(o) PROVE OrderedAt(p)'
  <2>1. PICK w \in Oldest(left[o]) : EndPass(o, PullBack(w))
    BY <1>6 DEF Queued
  <2>2. w \in left[o] /\ w \in Nat \ {0} /\ w <= clock
    BY Numbers, OldestIn DEF Ordered, OrderedAt
  <2>3. phase[o] # "run"
    BY <1>6 DEF Queued, Busy, Turn
  <2>4. \A v \in fired[o] : v \in Nat /\ v < w
    BY <2>2, <2>3, Numbers DEF Ordered, OrderedAt
  <2>5. PullBack(w) \in Nat /\ PullBack(w) <= clock
    BY <1>b, <2>2 DEF PullBack
  <2>6. \A v \in fired[o] : v <= MaxOf(sched[o].last, PullBack(w))
    BY <2>2, <2>4, Numbers DEF PullBack, MaxOf
  <2> QED BY <1>6, <2>1, <2>5, <2>6, EndPassOrdered DEF Queued, worldVars
<1>7. ASSUME NEW o \in Objs, Unhooked(o) \/ Skipped(o) PROVE OrderedAt(p)'
  <2>1. UNCHANGED <<sched, claim, clock, fired>>
    BY <1>7 DEF Unhooked, Skipped, worldVars
  <2>2. /\ left' = [left EXCEPT ![o] = @ \ Oldest(@)]
        /\ phase' = [phase EXCEPT ![o] = "go"] /\ phase[o] # "run"
    BY <1>7 DEF Unhooked, Skipped, Busy, Turn, NextWindow
  <2>3. CASE p = o
    BY <1>a, <1>b, <2>1, <2>2, <2>3 DEF OrderedAt, From
  <2>4. CASE p # o
    BY <1>a, <1>b, <2>1, <2>2, <2>4, OrderedStays
  <2> QED BY <2>3, <2>4
<1>8. ASSUME NEW o \in Objs, Cancels(o) PROVE OrderedAt(p)'
  <2>1. UNCHANGED <<sched, claim, left, clock, fired>>
    BY <1>8 DEF Cancels, worldVars
  <2>2. phase[p] = "run" => phase'[p] = "run"
    BY <1>8, <1>a DEF Cancels
  <2> QED BY <1>b, <2>1, <2>2, OrderedStays
<1>9. ASSUME NEW o \in Objs, FiringEnds(o) PROVE OrderedAt(p)'
  <2>1. /\ UNCHANGED <<sched, claim, clock, fired>>
        /\ left' = [left EXCEPT ![o] = @ \ Oldest(@)]
    BY <1>9 DEF FiringEnds, worldVars
  <2>2. CASE p = o
    BY <1>a, <1>b, <2>1, <2>2 DEF OrderedAt, From
  <2>3. CASE p # o
    <3>1. phase[p] # "run"
      BY <1>9, <1>a, <2>3 DEF FiringEnds, Running
    <3> QED BY <1>a, <1>b, <2>1, <2>3, <3>1, OrderedStays
  <2> QED BY <2>2, <2>3
<1>10. ASSUME NEW o \in Objs, NEW n \in Names, Add(o, n) PROVE OrderedAt(p)'
  <2>1. UNCHANGED <<claim, left, phase, clock, fired>>
    BY <1>10 DEF Add, passVars, worldVars
  <2>2. sched'[p].last = sched[p].last
    <3>1. PICK ov \in Overlaps, cu \in Catchups :
            sched' = [sched EXCEPT ![o] = [on |-> TRUE, name |-> n, overlap |-> ov,
                                           catchup |-> cu, paused |-> FALSE, last |-> 0]]
      BY <1>10 DEF Add
    <3>2. sched[o].last = 0
      BY <1>10, UnusedLast DEF Add
    <3> QED BY <1>a, <3>1, <3>2
  <2> QED BY <1>b, <2>1, <2>2, OrderedStays
<1>11. ASSUME NEW o \in Objs, Pause(o) PROVE OrderedAt(p)'
  <2>1. UNCHANGED <<claim, left, phase, clock, fired>>
    BY <1>11 DEF Pause, passVars, worldVars
  <2>2. sched'[p].last = sched[p].last
    BY <1>11, <1>a DEF Pause, Scheds
  <2> QED BY <1>b, <2>1, <2>2, OrderedStays
<1>12. ASSUME NEW o \in Objs, Resume(o) PROVE OrderedAt(p)'
  <2>1. UNCHANGED <<claim, left, phase, clock, fired>>
    BY <1>12 DEF Resume, passVars, worldVars
  <2>2. sched'[p].last = clock \/ sched'[p].last = sched[p].last
    BY <1>12, <1>a DEF Resume, Scheds
  <2> QED BY <1>b, <2>1, <2>2 DEF OrderedAt, From, MaxOf
<1>13. ASSUME NEW o \in Objs, Remove(o) PROVE OrderedAt(p)'
  <2>1. UNCHANGED <<claim, left, phase, clock>>
    BY <1>13 DEF Remove, passVars, worldVars
  <2>2. CASE p = o /\ claim[o] = 0
    <3>1. sched'[p] = Unused /\ fired'[p] = {} /\ left'[p] = {}
      BY <1>13, <1>a, <1>b, <2>1, <2>2 DEF Remove, Forgets, OrderedAt
    <3> QED BY <1>b, <2>1, <2>2, <3>1, UnusedLast DEF OrderedAt
  <2>3. CASE p # o \/ claim[o] # 0
    <3>1. sched'[p].last = sched[p].last /\ fired'[p] = fired[p]
      <4>1. CASE p # o
        BY <1>13, <1>a, <4>1 DEF Remove, Forgets, ghosts
      <4>2. CASE p = o /\ claim[o] # 0
        <5>1. sched' = [sched EXCEPT ![o].on = FALSE] /\ UNCHANGED fired
          BY <1>13, <4>2 DEF Remove, ghosts
        <5>2. sched'[o] = [sched[o] EXCEPT !.on = FALSE]
          BY <1>a, <5>1
        <5> QED BY <1>b, <4>2, <5>1, <5>2 DEF Scheds
      <4> QED BY <2>3, <4>1, <4>2
    <3> QED BY <1>b, <2>1, <3>1, OrderedStays
  <2> QED BY <2>2, <2>3
<1>14. ASSUME OtherRuns \/ OtherEnds PROVE OrderedAt(p)'
  <2>1. UNCHANGED <<sched, claim, left, clock, fired>>
    BY <1>14 DEF OtherRuns, OtherEnds, passVars, worldVars
  <2>2. phase[p] = "run" => phase'[p] = "run"
    BY <1>14, <1>a DEF OtherRuns, OtherEnds, passVars, Woken
  <2> QED BY <1>b, <2>1, <2>2, OrderedStays
<1>15. ASSUME Advance \/ HookFile PROVE OrderedAt(p)'
  <2>1. UNCHANGED <<sched, claim, left, phase, fired>>
    BY <1>15 DEF Advance, HookFile, passVars
  <2>2. clock' \in Nat /\ clock' >= clock
    BY <1>15, <1>b DEF Advance, HookFile
  <2> QED BY <1>b, <2>1, <2>2, OrderedStays
<1>16. ASSUME Restart PROVE OrderedAt(p)'
  <2>1. /\ clock' = clock /\ claim'[p] = 0 /\ left'[p] = {}
        /\ sched'[p] = IF sched[p].on THEN sched[p] ELSE Unused
        /\ fired'[p] = IF sched[p].on THEN {w \in fired[p] : w <= sched[p].last} ELSE {}
    BY <1>16 DEF Restart
  <2>2. CASE sched[p].on
    BY <1>b, <2>1, <2>2 DEF OrderedAt, From, MaxOf
  <2>3. CASE ~sched[p].on
    BY <1>b, <2>1, <2>3, UnusedLast DEF OrderedAt
  <2> QED BY <2>2, <2>3
<1>17. CASE UNCHANGED vars
  BY <1>17, <1>b, OrderedStays DEF vars, passVars, worldVars
<1> QED
  BY <1>1, <1>2, <1>3, <1>4, <1>5, <1>6, <1>7, <1>8, <1>9, <1>10, <1>11, <1>12,
     <1>13, <1>14, <1>15, <1>16, <1>17
  DEF Next, Tick, Proceeds, Attempt

LEMMA InitOrdered == ASSUME Init PROVE Ordered
<1> SUFFICES ASSUME NEW o \in Objs PROVE OrderedAt(o)
  BY DEF Ordered
<1>1. /\ clock = 1 /\ sched[o].last = 0 /\ claim[o] = 0
      /\ left[o] = {} /\ fired[o] = {}
  BY UnusedLast DEF Init
<1> QED BY <1>1 DEF OrderedAt

THEOREM OrderKept == Spec => [](TypeOK /\ Ordered)
<1>1. Init => TypeOK /\ Ordered
  BY InitType, InitOrdered
<1>2. TypeOK /\ Ordered /\ [Next]_vars => (TypeOK /\ Ordered)'
  BY StepType, StepOrdered
<1> QED BY <1>1, <1>2, PTL DEF Spec

\* No window runs twice, however ticks, passes, overlaps, resumes, clearing of a
\* name and restarts interleave: what runs next is younger than all that has run.
THEOREM NoWindowTwice == Spec => FiredOnce
<1>1. ASSUME TypeOK, Ordered, NEW o \in Objs, NEW w \in Windows, StartsOn(o, w)
      PROVE  w \notin fired[o]
  <2>1. w \in left[o] /\ w \in Nat /\ phase[o] # "run"
    BY <1>1, OldestIn, Agreements, Bounds DEF StartsOn, Running
  <2>2. \A v \in fired[o] : v < w /\ v \in Nat
    BY <1>1, <2>1, Numbers DEF Ordered, OrderedAt
  <2> QED BY <2>1, <2>2
<1>2. TypeOK /\ Ordered =>
        [\A o \in Objs, w \in Windows : StartsOn(o, w) => w \notin fired[o]]_vars
  BY <1>1
<1> QED BY OrderKept, <1>2, PTL DEF FiredOnce

\* No step takes a schedule's cursor back: what a pass leaves behind is never
\* over a cursor that a resume has moved meanwhile.
CursorStep == \A o \in Objs : sched'[o].on => sched'[o].last >= sched[o].last
THEOREM CursorNeverBack == Spec => CursorForward
<1>1. ASSUME TypeOK, Ordered, [Next]_vars PROVE CursorStep
  <2> SUFFICES ASSUME NEW p \in Objs PROVE sched'[p].on => sched'[p].last >= sched[p].last
    BY DEF CursorStep
  <2>a. /\ sched \in [Objs -> Scheds] /\ sched[p].last \in Nat /\ clock \in Nat
        /\ sched[p].last <= clock
    BY <1>1, Numbers DEF TypeOK, Ordered, OrderedAt
  <2>1. CASE UNCHANGED sched
    BY <2>a, <2>1
  <2>2. ASSUME NEW o \in Objs, TickArms(o) \/ Resume(o)
        PROVE  sched'[p].last >= sched[p].last
    <3>1. CASE p = o
      <4>1. \/ sched' = [sched EXCEPT ![o].last = clock]
            \/ sched' = [sched EXCEPT ![o].paused = FALSE, ![o].last = clock]
        BY <2>2 DEF TickArms, Resume
      <4>2. sched'[p].last = clock
        BY <2>a, <3>1, <4>1 DEF Scheds
      <4> QED BY <2>a, <4>2
    <3>2. CASE p # o
      BY <2>2, <2>a, <3>2 DEF TickArms, Resume
    <3> QED BY <3>1, <3>2
  <2>3. ASSUME NEW o \in Objs, NEW n \in Nat, EndPass(o, n)
        PROVE  sched'[p].on => sched'[p].last >= sched[p].last
    <3>1. CASE p = o /\ sched[o].on
      <4>1. sched'[o] = [sched[o] EXCEPT !.last = MaxOf(sched[o].last, n)]
        BY <2>3, <2>a, <3>1 DEF EndPass, Reached
      <4>2. sched'[p].last = MaxOf(sched[p].last, n)
        BY <2>a, <3>1, <4>1 DEF Scheds
      <4> QED BY <2>a, <4>2 DEF MaxOf
    <3>2. CASE p = o /\ ~sched[o].on
      BY <2>3, <2>a, <3>2, UnusedLast DEF EndPass, Reached
    <3>3. CASE p # o
      BY <2>3, <2>a, <3>3 DEF EndPass, Reached
    <3> QED BY <3>1, <3>2, <3>3
  <2>4. ASSUME NEW o \in Objs, PassEnds(o)
        PROVE  sched'[p].on => sched'[p].last >= sched[p].last
    BY <1>1, <2>3, <2>4, Numbers DEF PassEnds
  <2>5. ASSUME NEW o \in Objs, Queued(o)
        PROVE  sched'[p].on => sched'[p].last >= sched[p].last
    <3>1. PICK w \in Oldest(left[o]) : EndPass(o, PullBack(w))
      BY <2>5 DEF Queued
    <3>2. PullBack(w) \in Nat
      BY <1>1, OldestIn, Numbers DEF PullBack
    <3> QED BY <2>3, <3>1, <3>2
  <2>6. ASSUME NEW o \in Objs, NEW n \in Names, Add(o, n)
        PROVE  sched'[p].last >= sched[p].last
    <3>1. PICK ov \in Overlaps, cu \in Catchups :
            sched' = [sched EXCEPT ![o] = [on |-> TRUE, name |-> n, overlap |-> ov,
                                           catchup |-> cu, paused |-> FALSE, last |-> 0]]
      BY <2>6 DEF Add
    <3>2. sched[o].last = 0
      BY <2>6, UnusedLast DEF Add
    <3> QED BY <2>a, <3>1, <3>2
  <2>7. ASSUME NEW o \in Objs, Pause(o) PROVE sched'[p].last >= sched[p].last
    <3>1. sched'[p].last = sched[p].last
      BY <2>7, <2>a DEF Pause, Scheds
    <3> QED BY <2>a, <3>1
  <2>8. ASSUME NEW o \in Objs, Remove(o)
        PROVE  sched'[p].on => sched'[p].last >= sched[p].last
    <3>1. CASE p = o
      <4>1. ~sched'[p].on
        BY <2>8, <2>a, <3>1, UnusedLast DEF Remove, Scheds
      <4> QED BY <4>1
    <3>2. CASE p # o
      BY <2>8, <2>a, <3>2 DEF Remove
    <3> QED BY <3>1, <3>2
  <2>9. ASSUME Restart PROVE sched'[p].on => sched'[p].last >= sched[p].last
    BY <2>9, <2>a, UnusedLast DEF Restart
  <2>10. CASE UNCHANGED vars
    BY <2>1, <2>10 DEF vars
  <2>11. ASSUME NEW o \in Objs, TickFires(o) \/ TickOverlaps(o) \/ Starts(o) \/ Unhooked(o)
                              \/ Skipped(o) \/ Cancels(o) \/ FiringEnds(o)
         PROVE  UNCHANGED sched
    BY <2>11 DEF TickFires, TickOverlaps, Starts, Unhooked, Skipped, Cancels, FiringEnds
  <2>12. ASSUME OtherRuns \/ OtherEnds \/ Advance \/ HookFile PROVE UNCHANGED sched
    BY <2>12 DEF OtherRuns, OtherEnds, Advance, HookFile
  <2> QED BY <1>1, <2>1, <2>2, <2>4, <2>5, <2>6, <2>7, <2>8, <2>9, <2>10, <2>11, <2>12
       DEF Next, Tick, Proceeds, Attempt
<1>2. TypeOK /\ Ordered /\ [Next]_vars => [CursorStep]_vars
  BY <1>1
<1> QED BY OrderKept, <1>2, PTL DEF Spec, CursorForward, CursorStep

-----------------------------------------------------------------------------
(* Nothing goes missing, as long as no due window is cut off by the cap      *)
(* while the skip policy looks (MCSchedulesTruncated shows why).             *)

Untruncated == "skip" \notin Overlaps \/ Cap >= MaxTime

CoveredAt(o) ==
  /\ sched[o].on => sched[o].overlap \in Overlaps
  /\ sched[o].on => 1..sched[o].last \subseteq account[o]
  /\ sched[o].on => 1..claim[o] \subseteq account[o] \cup left[o]
  /\ phase[o] = "run" => Oldest(left[o]) \subseteq account[o]
Covered == \A o \in Objs : CoveredAt(o)

\* A cap of at least the windows there are cuts nothing off.
LEMMA CapKeepsAll ==
  ASSUME TypeOK, NEW o \in Objs, Cap >= MaxTime
  PROVE  Due(o) = AllDue(o)
<1>1. MaxTime \in Nat /\ Cap \in Nat
  BY SchedulesAssumption
<1>2. IsFiniteSet(1..MaxTime) /\ Cardinality(1..MaxTime) = MaxTime
  BY <1>1, FS_Interval
<1>3. AllDue(o) \subseteq 1..MaxTime
  BY DEF AllDue, Windows
<1>4. ASSUME NEW w PROVE Cardinality({v \in AllDue(o) : v > w}) < Cap + 1
  <2>1. {v \in AllDue(o) : v > w} \subseteq 1..MaxTime
    BY <1>3
  <2>2. /\ Cardinality({v \in AllDue(o) : v > w}) <= MaxTime
        /\ Cardinality({v \in AllDue(o) : v > w}) \in Nat
    BY <1>2, <2>1, FS_Subset, FS_CardinalityType
  <2> QED BY <1>1, <2>2
<1> QED BY <1>4 DEF Due, Newest

LEMMA CoveredStays ==
  ASSUME NEW o \in Objs, CoveredAt(o), sched'[o].on => sched[o].on,
         sched'[o].overlap = sched[o].overlap,
         sched'[o].last = sched[o].last, claim'[o] = claim[o], left'[o] = left[o],
         account[o] \subseteq account'[o], phase'[o] = "run" => phase[o] = "run"
  PROVE  CoveredAt(o)'
BY DEF CoveredAt

LEMMA EndPassCovered ==
  ASSUME TypeOK, Covered, NEW o \in Objs, NEW n \in Nat,
         EndPass(o, n), sched[o].on => 1..n \subseteq account[o],
         NEW p \in Objs
  PROVE  CoveredAt(p)'
<1>1. /\ sched \in [Objs -> Scheds] /\ sched[o].last \in Nat
      /\ phase \in [Objs -> Phases] /\ claim \in [Objs -> 0..MaxTime]
      /\ left \in [Objs -> SUBSET Windows] /\ account \in [Objs -> SUBSET Windows]
  BY Numbers DEF TypeOK
<1>2. /\ claim'[o] = 0 /\ left'[o] = {} /\ phase'[o] = "idle"
      /\ p # o => /\ claim'[p] = claim[p] /\ left'[p] = left[p]
                  /\ phase'[p] = phase[p] /\ account'[p] = account[p]
                  /\ sched'[p] = sched[p]
  BY <1>1 DEF EndPass, DropClaim, ghosts, Forgets, Reached
<1>3. CASE p # o
  BY <1>1, <1>2, <1>3, CoveredStays DEF Covered
<1>4. CASE p = o /\ sched[o].on
  <2>1. /\ sched'[o] = [sched[o] EXCEPT !.last = MaxOf(sched[o].last, n)]
        /\ account'[o] = account[o]
    BY <1>1, <1>4 DEF EndPass, Reached, ghosts
  <2>2. sched'[o].last = MaxOf(sched[o].last, n) /\ sched'[o].overlap = sched[o].overlap
    BY <1>1, <2>1 DEF Scheds
  <2>3. 1..sched[o].last \subseteq account[o] /\ 1..n \subseteq account[o]
    BY <1>4 DEF Covered, CoveredAt
  <2>4. 1..sched'[o].last \subseteq account'[o]
    BY <2>1, <2>2, <2>3 DEF MaxOf
  <2>5. 1..claim'[o] = {}
    BY <1>2
  <2> QED BY <1>2, <1>4, <2>2, <2>4, <2>5 DEF Covered, CoveredAt
<1>5. CASE p = o /\ ~sched[o].on
  <2>1. ~sched'[o].on
    BY <1>1, <1>5, UnusedLast DEF EndPass, Reached
  <2> QED BY <1>2, <1>5, <2>1 DEF CoveredAt
<1> QED BY <1>3, <1>4, <1>5

LEMMA StepCovered ==
  ASSUME Untruncated, TypeOK, Ordered, Covered, [Next]_vars
  PROVE  Covered'
<1> SUFFICES ASSUME NEW p \in Objs PROVE CoveredAt(p)'
  BY DEF Covered
<1>a. /\ sched \in [Objs -> Scheds] /\ claim \in [Objs -> 0..MaxTime]
      /\ left \in [Objs -> SUBSET Windows] /\ account \in [Objs -> SUBSET Windows]
      /\ phase \in [Objs -> Phases] /\ Running /\ Claimed
  BY Agreements DEF TypeOK
<1>b. /\ sched[p] \in Scheds /\ sched[p].last \in Nat /\ claim[p] \in Nat
      /\ clock \in Nat \ {0}
      /\ \A w \in left[p] : w \in Nat \ {0}
      /\ CoveredAt(p) /\ OrderedAt(p)
  BY Numbers DEF Covered, Ordered
<1>1. ASSUME NEW o \in Objs, TickArms(o) PROVE CoveredAt(p)'
  <2>1. UNCHANGED <<claim, left, phase>>
    BY <1>1 DEF TickArms, passVars
  <2>2. CASE p = o
    <3>1. sched'[p].last = clock /\ account'[p] = account[p] \cup 1..clock /\ sched[p].on
          /\ sched'[p].overlap = sched[p].overlap
      BY <1>1, <1>a, <2>2 DEF TickArms, Scheds, Ticks, Fit
    <3> QED BY <1>b, <2>1, <3>1 DEF CoveredAt
  <2>3. CASE p # o
    BY <1>1, <1>a, <1>b, <2>1, <2>3, CoveredStays DEF TickArms
  <2> QED BY <2>2, <2>3
<1>2. ASSUME NEW o \in Objs, TickFires(o) PROVE CoveredAt(p)'
  <2>1. UNCHANGED sched
    BY <1>2 DEF TickFires
  <2>2. CASE p = o
    <3>1. PICK n \in Due(o) : HasLast(Due(o), n) /\ claim' = [claim EXCEPT ![o] = n]
      BY <1>2 DEF TickFires
    <3>2. /\ claim'[p] = n /\ left'[p] = Pick(o) /\ phase'[p] = "go" /\ sched[p].on
          /\ account'[p] = account[p] \cup (AllDue(o) \ Pick(o))
      BY <1>2, <1>a, <2>2, <3>1 DEF TickFires, Ticks, Fit
    <3>3. n \in Nat /\ n <= clock /\ n \in Windows
      BY <3>1, DueNumbers, PickDue
    <3>4. From(o) = sched[p].last
      BY <1>2, <1>b, <2>2 DEF TickFires, From, MaxOf
    <3>5. 1..n \subseteq 1..sched[p].last \cup AllDue(o)
      BY <1>b, <3>3, <3>4, Bounds DEF AllDue, Windows
    <3> QED BY <1>b, <2>1, <3>2, <3>5 DEF CoveredAt
  <2>3. CASE p # o
    BY <1>2, <1>a, <1>b, <2>1, <2>3, CoveredStays DEF TickFires
  <2> QED BY <2>2, <2>3
<1>3. ASSUME NEW o \in Objs, TickOverlaps(o) PROVE CoveredAt(p)'
  <2>1. UNCHANGED <<sched, left, phase>>
    BY <1>3 DEF TickOverlaps
  <2>2. CASE UNCHANGED <<claim, account>> \/ p # o
    <3>1. claim'[p] = claim[p] /\ account'[p] = account[p]
      BY <1>3, <1>a, <2>2 DEF TickOverlaps
    <3> QED BY <1>b, <2>1, <3>1, CoveredStays
  <2>3. CASE ~UNCHANGED <<claim, account>> /\ p = o
    <3>1. /\ sched[o].overlap = "skip"
          /\ account' = [account EXCEPT ![o] = @ \cup Due(o)]
          /\ \E n \in Due(o) : HasLast(Due(o), n) /\ claim' = [claim EXCEPT ![o] = n]
      BY <1>3, <2>3 DEF TickOverlaps
    <3>2. PICK n \in Due(o) : claim' = [claim EXCEPT ![o] = n]
      BY <3>1
    <3>3. claim'[p] = n /\ account'[p] = account[p] \cup Due(o) /\ sched[p].on
      BY <1>3, <1>a, <2>3, <3>1, <3>2 DEF TickOverlaps, Ticks, Fit
    <3>4. n \in Nat /\ n <= clock /\ n \in Windows
      BY <3>2, DueNumbers, PickDue
    <3>5. Due(o) = AllDue(o)
      BY <1>b, <3>1, <3>3, <2>3, CapKeepsAll DEF CoveredAt, Untruncated
    <3>6. 1..n \subseteq 1..sched[p].last \cup 1..claim[p] \cup AllDue(o)
      BY <1>b, <2>3, <3>4, Bounds DEF AllDue, Windows, From, MaxOf
    <3> QED BY <1>b, <2>1, <3>3, <3>5, <3>6 DEF CoveredAt
  <2> QED BY <2>2, <2>3
<1>4. ASSUME NEW o \in Objs, PassEnds(o) PROVE CoveredAt(p)'
  <2>1. claim[o] \in Nat /\ (sched[o].on => 1..claim[o] \subseteq account[o])
    BY <1>4, Numbers DEF PassEnds, Covered, CoveredAt
  <2> QED BY <1>4, <2>1, EndPassCovered DEF PassEnds
<1>5. ASSUME NEW o \in Objs, Starts(o) PROVE CoveredAt(p)'
  <2>1. UNCHANGED <<sched, claim, left>>
    BY <1>5 DEF Starts
  <2>2. CASE p = o
    BY <1>5, <1>a, <1>b, <2>1, <2>2 DEF Starts, CoveredAt
  <2>3. CASE p # o
    BY <1>5, <1>a, <1>b, <2>1, <2>3, CoveredStays DEF Starts
  <2> QED BY <2>2, <2>3
<1>6. ASSUME NEW o \in Objs, Queued(o) PROVE CoveredAt(p)'
  <2>1. PICK w \in Oldest(left[o]) : EndPass(o, PullBack(w))
    BY <1>6 DEF Queued
  <2>2. w \in left[o] /\ w \in Nat \ {0} /\ w <= claim[o] /\ claim[o] \in Nat
    BY Numbers, OldestIn DEF Ordered, OrderedAt
  <2>3. PullBack(w) \in Nat /\ PullBack(w) < w
    BY <2>2 DEF PullBack
  <2>4. \A u \in 1..PullBack(w) : u \in 1..claim[o] /\ u \notin left[o]
    BY <2>1, <2>2, <2>3 DEF Oldest
  <2>5. sched[o].on => 1..PullBack(w) \subseteq account[o]
    BY <2>4 DEF Covered, CoveredAt
  <2> QED BY <2>1, <2>3, <2>5, EndPassCovered
<1>7. ASSUME NEW o \in Objs, Unhooked(o) \/ Skipped(o) PROVE CoveredAt(p)'
  <2>1. UNCHANGED <<sched, claim>>
    BY <1>7 DEF Unhooked, Skipped
  <2>2. /\ left' = [left EXCEPT ![o] = @ \ Oldest(@)]
        /\ account' = [account EXCEPT ![o] = @ \cup Oldest(left[o])]
        /\ phase' = [phase EXCEPT ![o] = "go"]
    BY <1>7 DEF Unhooked, Skipped, NextWindow
  <2>3. CASE p = o
    <3>1. /\ left'[p] = left[p] \ Oldest(left[p]) /\ phase'[p] = "go"
          /\ account'[p] = account[p] \cup Oldest(left[p])
      BY <1>a, <2>2, <2>3
    <3> QED BY <1>b, <2>1, <3>1 DEF CoveredAt
  <2>4. CASE p # o
    BY <1>a, <1>b, <2>1, <2>2, <2>4, CoveredStays
  <2> QED BY <2>3, <2>4
<1>8. ASSUME NEW o \in Objs, Cancels(o) PROVE CoveredAt(p)'
  <2>1. UNCHANGED <<sched, claim, left, account>>
    BY <1>8 DEF Cancels
  <2>2. phase'[p] = "run" => phase[p] = "run"
    BY <1>8, <1>a DEF Cancels
  <2> QED BY <1>b, <2>1, <2>2, CoveredStays
<1>9. ASSUME NEW o \in Objs, FiringEnds(o) PROVE CoveredAt(p)'
  <2>1. /\ UNCHANGED <<sched, claim, account>>
        /\ left' = [left EXCEPT ![o] = @ \ Oldest(@)]
        /\ phase' = [Woken EXCEPT ![o] = "go"] /\ hook.by = o
    BY <1>9 DEF FiringEnds
  <2>2. phase'[p] # "run"
    BY <1>a, <2>1 DEF Woken, Running
  <2>3. CASE p = o
    <3>1. left'[p] = left[p] \ Oldest(left[p]) /\ phase[p] = "run"
      BY <1>a, <2>1, <2>3 DEF Running
    <3> QED BY <1>b, <2>1, <2>2, <3>1 DEF CoveredAt
  <2>4. CASE p # o
    BY <1>a, <1>b, <2>1, <2>2, <2>4, CoveredStays
  <2> QED BY <2>3, <2>4
<1>10. ASSUME NEW o \in Objs, NEW n \in Names, Add(o, n) PROVE CoveredAt(p)'
  <2>1. UNCHANGED <<claim, left, phase, account>>
    BY <1>10 DEF Add, passVars
  <2>2. CASE p = o
    <3>1. PICK ov \in Overlaps, cu \in Catchups :
            sched' = [sched EXCEPT ![o] = [on |-> TRUE, name |-> n, overlap |-> ov,
                                           catchup |-> cu, paused |-> FALSE, last |-> 0]]
      BY <1>10 DEF Add
    <3>2. sched'[p].last = 0 /\ sched'[p].overlap \in Overlaps
      BY <1>a, <2>2, <3>1
    <3>3. claim[p] = 0
      BY <1>10, <1>b, <2>2, UnusedLast DEF Add, OrderedAt
    <3> QED BY <1>b, <2>1, <3>2, <3>3 DEF CoveredAt
  <2>3. CASE p # o
    BY <1>10, <1>a, <1>b, <2>1, <2>3, CoveredStays DEF Add
  <2> QED BY <2>2, <2>3
<1>11. ASSUME NEW o \in Objs, Pause(o) PROVE CoveredAt(p)'
  <2>1. UNCHANGED <<claim, left, phase, account>>
    BY <1>11 DEF Pause, passVars
  <2>2. /\ sched'[p].last = sched[p].last /\ sched'[p].on = sched[p].on
        /\ sched'[p].overlap = sched[p].overlap
    BY <1>11, <1>a DEF Pause, Scheds
  <2> QED BY <1>b, <2>1, <2>2, CoveredStays
<1>12. ASSUME NEW o \in Objs, Resume(o) PROVE CoveredAt(p)'
  <2>1. UNCHANGED <<claim, left, phase>>
    BY <1>12 DEF Resume, passVars
  <2>2. CASE p = o
    <3>1. sched'[p].last = clock /\ account'[p] = account[p] \cup 1..clock /\ sched[p].on
          /\ sched'[p].overlap = sched[p].overlap
      BY <1>12, <1>a, <2>2 DEF Resume, Scheds
    <3> QED BY <1>b, <2>1, <3>1 DEF CoveredAt
  <2>3. CASE p # o
    BY <1>12, <1>a, <1>b, <2>1, <2>3, CoveredStays DEF Resume
  <2> QED BY <2>2, <2>3
<1>13. ASSUME NEW o \in Objs, Remove(o) PROVE CoveredAt(p)'
  <2>1. UNCHANGED <<claim, left, phase>>
    BY <1>13 DEF Remove, passVars
  <2>2. CASE p = o
    <3>1. ~sched'[p].on
      BY <1>13, <1>a, <2>2, UnusedLast DEF Remove, Scheds
    <3>2. CASE claim[p] = 0
      <4>1. phase[p] # "run"
        BY <1>a, <3>2 DEF Claimed
      <4> QED BY <2>1, <3>1, <4>1 DEF CoveredAt
    <3>3. CASE claim[p] # 0
      BY <1>13, <1>b, <2>1, <2>2, <3>1, <3>3 DEF Remove, ghosts, CoveredAt
    <3> QED BY <3>2, <3>3
  <2>3. CASE p # o
    BY <1>13, <1>a, <1>b, <2>1, <2>3, CoveredStays DEF Remove, Forgets, ghosts
  <2> QED BY <2>2, <2>3
<1>14. ASSUME OtherRuns \/ OtherEnds PROVE CoveredAt(p)'
  <2>1. UNCHANGED <<sched, claim, left, account>>
    BY <1>14 DEF OtherRuns, OtherEnds, passVars
  <2>2. phase'[p] = "run" => phase[p] = "run"
    BY <1>14, <1>a DEF OtherRuns, OtherEnds, passVars, Woken
  <2> QED BY <1>b, <2>1, <2>2, CoveredStays
<1>15. ASSUME Advance \/ HookFile PROVE CoveredAt(p)'
  <2>1. UNCHANGED <<sched, claim, left, phase, account>>
    BY <1>15 DEF Advance, HookFile, passVars
  <2> QED BY <1>b, <2>1, CoveredStays
<1>16. ASSUME Restart PROVE CoveredAt(p)'
  <2>1. /\ claim'[p] = 0 /\ left'[p] = {} /\ phase'[p] = "idle"
        /\ sched'[p] = IF sched[p].on THEN sched[p] ELSE Unused
        /\ account'[p] = IF sched[p].on THEN account[p] ELSE {}
    BY <1>16 DEF Restart
  <2> QED BY <1>b, <2>1, UnusedLast DEF CoveredAt
<1>17. CASE UNCHANGED vars
  BY <1>17, <1>b, CoveredStays DEF vars, passVars
<1> QED
  BY <1>1, <1>2, <1>3, <1>4, <1>5, <1>6, <1>7, <1>8, <1>9, <1>10, <1>11, <1>12,
     <1>13, <1>14, <1>15, <1>16, <1>17
  DEF Next, Tick, Proceeds, Attempt

LEMMA InitCovered == ASSUME Init PROVE Covered
<1> SUFFICES ASSUME NEW o \in Objs PROVE CoveredAt(o)
  BY DEF Covered
<1>1. ~sched[o].on /\ phase[o] = "idle"
  BY UnusedLast DEF Init
<1> QED BY <1>1 DEF CoveredAt

\* A window the cursor has passed was fired, skipped on record, dropped by the
\* catch-up policy or passed during a pause, for any number of schedules, hooks
\* and restarts; it rests on the order theorem and on Untruncated.
THEOREM NoneMissed == ASSUME Untruncated PROVE Spec => []NothingMissed
<1>1. Init => Covered
  BY InitCovered
<1>2. TypeOK /\ Ordered /\ Covered /\ [Next]_vars => Covered'
  BY StepCovered
<1>3. Covered => NothingMissed
  BY DEF Covered, CoveredAt, NothingMissed
<1> QED BY OrderKept, <1>1, <1>2, <1>3, PTL DEF Spec
=============================================================================

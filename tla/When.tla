-------------------------------- MODULE When --------------------------------
(***************************************************************************)
(* What a schedule's `when` means: the pure half of the board's clock      *)
(* (src/server/schedules.js).  A cron expression is walked minute by       *)
(* minute over the LOCAL calendar, an interval is a grid anchored at the   *)
(* schedule's creation; the tick asks for the windows after its cursor,    *)
(* the catch-up policy picks what fires, and the cursor moves on.          *)
(*                                                                         *)
(* Time is in units, two to a minute; the calendar is a small one with the *)
(* same shape.  Which pass runs what, and when, is Schedules.              *)
(***************************************************************************)
EXTENDS Integers, FiniteSets, FiniteSetsExt

CONSTANTS
  MaxTime,           \* bound: how long the board is looked at
  NextHorizon, CatchupHorizon, CatchupCap,
  Naps,              \* how long the server may go without a tick
  Ages,              \* how long before its first tick it may have been created
  SpringsAt, FallsAt \* local clocks jump forward at one, back at the other

WhenAssumption ==
  /\ {MaxTime, NextHorizon, CatchupHorizon, SpringsAt, FallsAt} \subseteq Nat
  /\ CatchupCap \in Nat \ {0} /\ Naps \subseteq Nat \ {0} /\ Ages \subseteq Nat

VARIABLES
  when, anchor, catchup,   \* the schedule
  now, boot,               \* the clock, and SCHEDULER_BOOT
  cursor,                  \* lastWindow
  first, fired, dropped    \* history: where the cursor began, the firings, the windows let go
vars == <<when, anchor, catchup, now, boot, cursor, first, fired, dropped>>

-----------------------------------------------------------------------------
(* The calendar: 2 units a minute, 2 minutes an hour, 2 hours a day, weeks *)
(* of 3 days, months of 2, 2 months a year.                                *)
Minute == 2
Hour   == 2 * Minute
Day    == 2 * Hour
Local(t) == t + (IF SpringsAt <= t /\ t < FallsAt THEN Hour ELSE 0)
Fields(t) == LET l == Local(t) IN
  [min |-> (l \div Minute) % 2, hour |-> (l \div Hour) % 2, dom |-> ((l \div Day) % 2) + 1,
   mon |-> (((l \div Day) \div 2) % 2) + 1, dow |-> (l \div Day) % 3]

-----------------------------------------------------------------------------
(* parseWhen: a part is a range and a step, Sunday has two spellings, and  *)
(* a range that runs backwards is refused                                  *)
LastDow == 3
FieldValue(v, isDow) == IF isDow /\ v = LastDow THEN 0 ELSE v
Refused == [star |-> FALSE, set |-> {}]
ParseCronField(part, min, max, isDow) ==
  LET lo == IF part.all THEN min ELSE FieldValue(part.lo, isDow)
      hi == IF part.all THEN max ELSE FieldValue(part.hi, isDow)
  IN IF hi < lo THEN Refused
     ELSE [star |-> part.all /\ part.step = 1, set |-> {v \in lo..hi : (v - lo) % part.step = 0}]
All == [all |-> TRUE, lo |-> 0, hi |-> 0, step |-> 1]
Part(lo, hi, step) == [all |-> FALSE, lo |-> lo, hi |-> hi, step |-> step]
Interval(n) == [kind |-> "interval", every |-> n, min |-> {}, hour |-> {}, dom |-> Refused, mon |-> {}, dow |-> Refused]
ParseWhen(min, hour, dom, mon, dow) ==
  [kind |-> "cron", every |-> 0,
   min |-> ParseCronField(min, 0, 1, FALSE).set, hour |-> ParseCronField(hour, 0, 1, FALSE).set,
   dom |-> ParseCronField(dom, 1, 2, FALSE), mon |-> ParseCronField(mon, 1, 2, FALSE).set,
   dow |-> ParseCronField(dow, 0, LastDow, TRUE)]
Parses(w) == w.kind = "interval" \/ {} \notin {w.min, w.hour, w.dom.set, w.mon, w.dow.set}

\* both day fields restricted are ORed; with one a star, the other decides
DayMatches(w, f) ==
  LET dom == f.dom \in w.dom.set
      dow == f.dow \in w.dow.set
  IN IF w.dom.star THEN w.dow.star \/ dow ELSE IF w.dow.star THEN dom ELSE dom \/ dow
CronMatches(w, t) == LET f == Fields(t) IN
  f.min \in w.min /\ f.hour \in w.hour /\ f.mon \in w.mon /\ DayMatches(w, f)

-----------------------------------------------------------------------------
(* The windows *)
GridAt(a, n, k) == a + k * n
StartOfWalk(t) == (t \div Minute) * Minute                       \* (a mutant's)
MinuteAfter(t) == (t \div Minute) * Minute + Minute
Never == -1
NextAfter(w, t, a) ==
  IF w.kind = "interval" THEN GridAt(a, w.every, (t - a) \div w.every + 1)
  ELSE LET hits == {m \in MinuteAfter(t)..t + NextHorizon : m % Minute = 0 /\ CronMatches(w, m)}
       IN IF hits = {} THEN Never ELSE Min(hits)

Newest(S, n) == {x \in S : Cardinality({y \in S : y > x}) < n}
\* every window in (from, to], the oldest of too many cut and counted
DueWindows(w, from, to, a) ==
  LET start == IF to - from > CatchupHorizon THEN to - CatchupHorizon ELSE from
  IN IF to <= from THEN [windows |-> {}, truncated |-> 0]
     ELSE IF w.kind = "interval"
     THEN LET last  == (to - a) \div w.every
              lo    == (start - a) \div w.every + 1
              kept  == {GridAt(a, w.every, k) : k \in (IF lo > last - CatchupCap THEN lo ELSE last - CatchupCap)..last}
              total == last - (from - a) \div w.every
          IN [windows |-> {g \in kept : g > start}, truncated |-> total - Cardinality({g \in kept : g > start})]
     ELSE LET hits == {m \in MinuteAfter(start)..to : m % Minute = 0 /\ CronMatches(w, m)}
          IN [windows |-> Newest(hits, CatchupCap + 1), truncated |-> Cardinality(hits) - Cardinality(Newest(hits, CatchupCap + 1))]
PickWindows(due, policy) ==
  CASE policy = "none"   -> {x \in due.windows : x > boot}
    [] policy = "all"    -> Newest(due.windows, CatchupCap)
    [] policy = "latest" -> Newest(due.windows, 1)
DroppedOfKept(due, fire) == Cardinality(due.windows) - Cardinality(fire)      \* (a mutant's)
Dropped(due, fire) == due.truncated + Cardinality(due.windows) - Cardinality(fire)

-----------------------------------------------------------------------------
ScheduleTick ==
  LET due == DueWindows(when, cursor, now, anchor)
      fire == PickWindows(due, catchup)
  IN /\ due.windows # {}
     /\ fired' = fired + Cardinality(fire) /\ dropped' = dropped + Dropped(due, fire)
     /\ cursor' = Max(due.windows)
     /\ UNCHANGED <<when, anchor, catchup, now, boot, first>>
\* a window that could not be taken is offered again: the cursor stops just before it
Requeue ==
  LET due == DueWindows(when, cursor, now, anchor)
      fire == PickWindows(due, catchup)
  IN \E x \in fire :
     /\ cursor' = x - 1
     /\ fired' = fired + Cardinality({y \in fire : y < x})
     /\ dropped' = dropped + Dropped(due, fire)
     /\ cursor' > cursor
     /\ UNCHANGED <<when, anchor, catchup, now, boot, first>>
Sleeps(n) ==
  /\ now + n <= MaxTime /\ now' = now + n
  /\ UNCHANGED <<when, anchor, catchup, boot, cursor, first, fired, dropped>>
Restarts ==
  /\ catchup = "none" /\ boot # now /\ boot' = now     \* no other policy reads it
  /\ UNCHANGED <<when, anchor, catchup, now, cursor, first, fired, dropped>>

Days == {All, Part(1, 1, 1), [All EXCEPT !.step = 2]}
Whens == {Interval(n) : n \in {3, 4}} \cup
  {ParseWhen(min, hour, dom, mon, dow) : min \in {All, Part(1, 1, 1)}, hour \in {All, Part(0, 0, 1)},
     dom \in Days, mon \in {All, Part(2, 2, 1)}, dow \in {All, Part(1, LastDow, 1), Part(LastDow, LastDow, 1)}}
Init ==
  /\ when \in {w \in Whens : Parses(w)} /\ anchor \in {0 - n : n \in Ages}
  /\ catchup \in {"latest", "all", "none"} /\ now = 0 /\ boot = 0
  /\ cursor = 0 /\ first = 0 /\ fired = 0 /\ dropped = 0
Next == ScheduleTick \/ Requeue \/ Restarts \/ \E n \in Naps : Sleeps(n)
Spec == Init /\ [][Next]_vars

-----------------------------------------------------------------------------
(* The reference: a window is a moment of the grid, or a whole minute the  *)
(* expression names, and nothing else about it.                            *)
IsWindow(w, a, t) == IF w.kind = "interval" THEN (t - a) % w.every = 0
                     ELSE t % Minute = 0 /\ CronMatches(w, t)
WindowsIn(from, to) == {t \in from + 1..to : IsWindow(when, anchor, t)}

(* However the server slept, was restarted, cut a backlog short or put a   *)
(* window back, what fired and what was reported dropped add up to the     *)
(* windows there were: none is lost and none fires twice.                  *)
NoneLostOrTwice == when.kind = "interval" \/ MaxTime <= CatchupHorizon =>
  fired + dropped = Cardinality(WindowsIn(first, cursor))
(* The next fire the board shows is the first window after the cursor, and *)
(* it is what the tick will be offered once it has come.                   *)
NextIsOffered == LET n == NextAfter(when, cursor, anchor) IN
  /\ n # Never => n > cursor /\ IsWindow(when, anchor, n) /\ WindowsIn(cursor, n) = {n}
  /\ n # Never /\ n <= now => DueWindows(when, cursor, now, anchor).windows # {}

(* Refuted: no minute of the local clock fires twice, and none it names is *)
(* passed over: an hour is skipped in spring and comes twice in autumn.    *)
OncePerLocalMinute == \A s, t \in WindowsIn(first, now) :
  when.kind = "cron" /\ s # t => Local(s) # Local(t)
(* Refuted with a catch-up horizon inside the run: the number of windows   *)
(* reported dropped is the number that went unfired.                       *)
CronCountsAll == fired + dropped = Cardinality(WindowsIn(first, cursor))
=============================================================================

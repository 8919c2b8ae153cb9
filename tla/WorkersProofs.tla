--------------------------- MODULE WorkersProofs ---------------------------
(***************************************************************************)
(* Theorems about module Workers, for every value of its constants.        *)
(***************************************************************************)
EXTENDS Workers, SequenceTheorems, TLAPS

Pcs == {"none", "alive", "kill", "verify", "release", "stale", "create", "spawn", "abortKill",
        "abort", "undo", "resume", "pauseKill", "body", "hooks", "teardown"}
Answers == {"none", "wait", "ok", "err", "up", "down", "kept", "released"}
Task == [kind : Kinds, pc : Pcs, ans : Answers, w : Nat, gen : Nat, flag : BOOLEAN]

\* The steps of each handler, and the answers each step waits for.
StepsOf(kind) ==
  CASE kind = "free" -> {"none"}
    [] kind = "start" -> {"alive", "kill", "verify", "release", "stale", "create", "spawn",
                          "abortKill", "abort", "undo"}
    [] kind = "resume" -> {"resume", "abortKill"}
    [] kind \in {"send", "park", "watch"} -> {"alive"}
    [] kind = "pause" -> {"pauseKill"}
    [] kind = "handoff" -> {"body", "kill", "verify", "teardown", "release"}
    [] kind = "archive" -> {"body", "kill", "verify", "hooks", "teardown", "release"}
    [] kind = "merge" -> {"kill", "verify", "hooks", "teardown", "release"}
    [] kind \in {"done", "restore"} -> {}
    [] OTHER -> {"kill", "verify"}
AnswersTo(pc) ==
  CASE pc = "none" -> {"none"}
    [] pc \in Delays -> {"ok"}
    [] pc \in {"alive", "verify"} -> {"wait", "up", "down"}
    [] pc \in {"release", "stale", "undo", "abort"} -> {"wait", "kept", "released"}
    [] OTHER -> {"wait", "ok", "err"}

\* Steps that are only reached with a record in hand.
Bound(t) ==
  \/ t.kind \in {"late", "sweepOn", "sweepOff", "send", "park", "watch", "pause", "resume"}
  \/ t.pc \in {"kill", "verify"}
  \/ t.kind = "start" /\ t.pc \in {"alive", "release"}
TaskOK(t) ==
  /\ t \in Task
  /\ t.kind \in AllOps => t.kind \in Ops
  /\ t.pc \in StepsOf(t.kind)
  /\ t.ans \in AnswersTo(t.pc)
  /\ t.w <= Len(recs) /\ t.gen <= gen
  /\ Bound(t) => t.w # 0
  /\ t.kind = "free" => t = Free

Shape ==
  /\ onBoard \in BOOLEAN /\ col \in Columns /\ gen \in 1..MaxGens /\ pointer \in BOOLEAN
  /\ recs \in Seq(Rec) /\ Len(recs) <= MaxRecs
  /\ pane \in {"none", "stopped", "shell", "live"} /\ ground \in {"none", "clean", "dirty"}
  /\ task \in [Slots -> Task]
  /\ \A s \in Slots : TaskOK(task[s])
  /\ sweep \in 0..Len(recs) /\ restarts \in 0..MaxRestarts
  /\ restarts = 0 => sweep = 0

-----------------------------------------------------------------------------
(* The record that holds the card.                                         *)

Single(rs) == \A q, r \in DOMAIN rs : rs[q].reg /\ rs[r].reg => q = r

\* A mark on a record.
LEMMA Marks ==
  ASSUME NEW v \in Rec, NEW b \in BOOLEAN
  PROVE  /\ [v EXCEPT !.reg = b] \in Rec /\ [v EXCEPT !.reg = b].reg = b
         /\ [v EXCEPT !.killFailed = b] \in Rec /\ [v EXCEPT !.killFailed = b].reg = v.reg
BY DEF Rec

\* With one record at most on the board, findWorker finds that one.
LEMMA FindReg ==
  ASSUME NEW rs \in Seq(Rec), Single(rs), NEW r \in DOMAIN rs, rs[r].reg
  PROVE  FindIn(rs) = r
<1>1. \A q \in DOMAIN rs : rs[q].reg => r <= q
  BY DEF Single
<1>2. \E q \in DOMAIN rs : rs[q].reg /\ \A p \in DOMAIN rs : rs[p].reg => q <= p
  BY <1>1
<1> DEFINE it == CHOOSE q \in DOMAIN rs : rs[q].reg /\ \A p \in DOMAIN rs : rs[p].reg => q <= p
<1>3. it \in DOMAIN rs /\ rs[it].reg
  BY <1>2, Zenon
<1>4. FindIn(rs) = it
  BY DEF FindIn
<1> HIDE DEF it
<1> QED BY <1>3, <1>4 DEF Single

LEMMA FindNone ==
  ASSUME NEW rs, \A r \in DOMAIN rs : ~rs[r].reg
  PROVE  FindIn(rs) = 0
BY DEF FindIn

LEMMA Find ==
  ASSUME NEW rs \in Seq(Rec), Single(rs)
  PROVE  /\ FindIn(rs) \in 0..Len(rs)
         /\ \A r \in DOMAIN rs : rs[r].reg => FindIn(rs) = r
         /\ FindIn(rs) # 0 => FindIn(rs) \in DOMAIN rs /\ rs[FindIn(rs)].reg
<1>1. CASE \E r \in DOMAIN rs : rs[r].reg
  BY <1>1, FindReg
<1>2. CASE \A r \in DOMAIN rs : ~rs[r].reg
  BY <1>2, FindNone
<1> QED BY <1>1, <1>2

\* Marks on the records do not change who holds the card.
LEMMA FindSame ==
  ASSUME NEW rs \in Seq(Rec), NEW rt \in Seq(Rec), Single(rs), Len(rs) = Len(rt),
         \A r \in DOMAIN rs : rt[r].reg = rs[r].reg
  PROVE  Single(rt) /\ FindIn(rt) = FindIn(rs)
<1>1. DOMAIN rt = DOMAIN rs
  OBVIOUS
<1>2. Single(rt)
  BY <1>1 DEF Single
<1> QED BY <1>1, <1>2, Find

\* The record is dropped, if it is the one that holds the card.
LEMMA FindDrop ==
  ASSUME NEW rs \in Seq(Rec), Single(rs), NEW w \in Nat
  PROVE  /\ Drop(rs, w) \in Seq(Rec) /\ Len(Drop(rs, w)) = Len(rs)
         /\ Single(Drop(rs, w))
         /\ FindIn(Drop(rs, w)) = IF w = FindIn(rs) THEN 0 ELSE FindIn(rs)
         /\ \A r \in DOMAIN rs : /\ Drop(rs, w)[r].reg => rs[r].reg
                                 /\ \/ Drop(rs, w)[r] = rs[r]
                                    \/ r = w /\ w = FindIn(rs) /\ Drop(rs, w)[r] = [rs[r] EXCEPT !.reg = FALSE]
<1>1. CASE w # 0 /\ FindIn(rs) = w
  <2>1. w \in DOMAIN rs /\ rs[w].reg
    BY <1>1, Find
  <2>a. PICK u \in Rec : u = rs[w]
    BY <2>1
  <2>2. PICK v \in Rec : v = [u EXCEPT !.reg = FALSE] /\ ~v.reg
    BY Marks
  <2>3. PICK rt : rt = [rs EXCEPT ![w] = v]
    OBVIOUS
  <2>4. rt = Drop(rs, w)
    BY <1>1, <2>1, <2>a, <2>2, <2>3 DEF Drop
  <2>5. rt \in Seq(Rec) /\ Len(rt) = Len(rs) /\ \A r \in DOMAIN rs : rt[r] = IF r = w THEN v ELSE rs[r]
    BY <2>1, <2>3
  <2>6. \A r \in DOMAIN rt : ~rt[r].reg
    <3> SUFFICES ASSUME NEW r \in DOMAIN rs, rt[r].reg PROVE FALSE
      BY <2>5
    <3>1. r # w
      BY <2>2, <2>5
    <3>2. rs[r].reg
      BY <3>1, <2>5
    <3> QED BY <3>1, <3>2, <1>1, Find
  <2>7. Single(rt) /\ FindIn(rt) = 0
    BY <2>6, FindNone DEF Single
  <2> QED BY <1>1, <2>a, <2>2, <2>4, <2>5, <2>6, <2>7
<1>2. CASE ~(w # 0 /\ FindIn(rs) = w)
  BY <1>2 DEF Drop
<1> QED BY <1>1, <1>2

LEMMA FindAppend ==
  ASSUME NEW rs \in Seq(Rec), Single(rs), FindIn(rs) = 0
  PROVE  /\ Append(rs, NewRec) \in Seq(Rec) /\ Len(Append(rs, NewRec)) = Len(rs) + 1
         /\ Single(Append(rs, NewRec)) /\ FindIn(Append(rs, NewRec)) = Len(rs) + 1
<1> DEFINE rt == Append(rs, NewRec)
<1>1. NewRec \in Rec
  BY DEF NewRec, Rec
<1>2. rt \in Seq(Rec) /\ Len(rt) = Len(rs) + 1 /\ Len(rs) \in Nat
  BY <1>1
<1>3. \A r \in DOMAIN rs : ~rs[r].reg
  BY Find
<1>4. \A r \in DOMAIN rt : rt[r].reg => r = Len(rs) + 1
  BY <1>1, <1>2, <1>3
<1>5. Single(rt)
  BY <1>4 DEF Single
<1>6. rt[Len(rs) + 1].reg
  BY <1>1, <1>2 DEF NewRec
<1>7. Len(rs) + 1 \in DOMAIN rt
  BY <1>2
<1>8. FindIn(rt) = Len(rs) + 1
  BY <1>2, <1>5, <1>6, <1>7, Find
<1> HIDE DEF rt
<1>9. rt \in Seq(Rec) /\ Len(rt) = Len(rs) + 1 /\ Single(rt) /\ FindIn(rt) = Len(rs) + 1
  BY <1>2, <1>5, <1>8
<1> QED BY <1>9 DEF rt

-----------------------------------------------------------------------------
(* What marks and moves do to records and tasks.                           *)

Marked(rs, rt) ==
  /\ rt \in Seq(Rec) /\ Len(rt) = Len(rs)
  /\ \A r \in DOMAIN rs : rt[r].reg = rs[r].reg

LEMMA MarkOne ==
  ASSUME NEW rs \in Seq(Rec), NEW w \in DOMAIN rs, NEW v \in Rec, v.reg = rs[w].reg
  PROVE  Marked(rs, [rs EXCEPT ![w] = v])
BY DEF Marked

LEMMA MarksOnly ==
  ASSUME NEW rs \in Seq(Rec), NEW w \in DOMAIN rs, NEW b \in BOOLEAN
  PROVE  /\ Marked(rs, [rs EXCEPT ![w].killFailed = b])
         /\ Marked(rs, [rs EXCEPT ![w].released = b])
         /\ Marked(rs, [rs EXCEPT ![w].flagged = b])
         /\ Marked(rs, [rs EXCEPT ![w].paused = b])
         /\ Marked(rs, [rs EXCEPT ![w].expectExit = b])
         /\ Marked(rs, [rs EXCEPT ![w].paused = TRUE, ![w].expectExit = TRUE])
         /\ Marked(rs, [rs EXCEPT ![w].done = TRUE, ![w].flagged = FALSE, ![w].expectExit = FALSE])
         /\ Marked(rs, [rs EXCEPT ![w].done = FALSE, ![w].flagged = FALSE,
                                  ![w].paused = FALSE, ![w].killFailed = FALSE])
         /\ Marked(rs, [rs EXCEPT ![w].done = FALSE, ![w].flagged = FALSE,
                                  ![w].paused = FALSE, ![w].killFailed = FALSE,
                                  ![w].expectExit = FALSE])
<1>1. PICK u \in Rec : u = rs[w]
  OBVIOUS
<1>2. /\ [u EXCEPT !.killFailed = b] \in Rec /\ [u EXCEPT !.killFailed = b].reg = u.reg
      /\ [u EXCEPT !.released = b] \in Rec /\ [u EXCEPT !.released = b].reg = u.reg
      /\ [u EXCEPT !.flagged = b] \in Rec /\ [u EXCEPT !.flagged = b].reg = u.reg
      /\ [u EXCEPT !.paused = b] \in Rec /\ [u EXCEPT !.paused = b].reg = u.reg
      /\ [u EXCEPT !.expectExit = b] \in Rec /\ [u EXCEPT !.expectExit = b].reg = u.reg
  BY DEF Rec
<1>3. /\ Marked(rs, [rs EXCEPT ![w].killFailed = b])
      /\ Marked(rs, [rs EXCEPT ![w].released = b])
      /\ Marked(rs, [rs EXCEPT ![w].flagged = b])
      /\ Marked(rs, [rs EXCEPT ![w].paused = b])
      /\ Marked(rs, [rs EXCEPT ![w].expectExit = b])
  BY <1>1, <1>2, MarkOne
<1>4. Marked(rs, [rs EXCEPT ![w].paused = TRUE, ![w].expectExit = TRUE])
  <2> DEFINE v == [u EXCEPT !.paused = TRUE, !.expectExit = TRUE]
  <2>1. v \in Rec /\ v.reg = u.reg
    BY DEF Rec
  <2>2. [rs EXCEPT ![w].paused = TRUE, ![w].expectExit = TRUE] = [rs EXCEPT ![w] = v]
    BY <1>1
  <2> HIDE DEF v
  <2>3. Marked(rs, [rs EXCEPT ![w] = v])
    BY <1>1, <2>1, MarkOne
  <2> QED BY <2>2, <2>3
<1>5. Marked(rs, [rs EXCEPT ![w].done = TRUE, ![w].flagged = FALSE, ![w].expectExit = FALSE])
  <2> DEFINE v == [u EXCEPT !.done = TRUE, !.flagged = FALSE, !.expectExit = FALSE]
  <2>1. v \in Rec /\ v.reg = u.reg
    BY DEF Rec
  <2>2. [rs EXCEPT ![w].done = TRUE, ![w].flagged = FALSE, ![w].expectExit = FALSE] = [rs EXCEPT ![w] = v]
    BY <1>1
  <2> HIDE DEF v
  <2>3. Marked(rs, [rs EXCEPT ![w] = v])
    BY <1>1, <2>1, MarkOne
  <2> QED BY <2>2, <2>3
<1>6. Marked(rs, [rs EXCEPT ![w].done = FALSE, ![w].flagged = FALSE,
                            ![w].paused = FALSE, ![w].killFailed = FALSE])
  <2> DEFINE v == [u EXCEPT !.done = FALSE, !.flagged = FALSE, !.paused = FALSE, !.killFailed = FALSE]
  <2>1. v \in Rec /\ v.reg = u.reg
    BY DEF Rec
  <2>2. [rs EXCEPT ![w].done = FALSE, ![w].flagged = FALSE,
                   ![w].paused = FALSE, ![w].killFailed = FALSE] = [rs EXCEPT ![w] = v]
    BY <1>1
  <2> HIDE DEF v
  <2>3. Marked(rs, [rs EXCEPT ![w] = v])
    BY <1>1, <2>1, MarkOne
  <2> QED BY <2>2, <2>3
<1>7. Marked(rs, [rs EXCEPT ![w].done = FALSE, ![w].flagged = FALSE, ![w].paused = FALSE,
                            ![w].killFailed = FALSE, ![w].expectExit = FALSE])
  <2> DEFINE v == [u EXCEPT !.done = FALSE, !.flagged = FALSE, !.paused = FALSE,
                            !.killFailed = FALSE, !.expectExit = FALSE]
  <2>1. v \in Rec /\ v.reg = u.reg
    BY DEF Rec
  <2>2. [rs EXCEPT ![w].done = FALSE, ![w].flagged = FALSE, ![w].paused = FALSE,
                   ![w].killFailed = FALSE, ![w].expectExit = FALSE] = [rs EXCEPT ![w] = v]
    BY <1>1
  <2> HIDE DEF v
  <2>3. Marked(rs, [rs EXCEPT ![w] = v])
    BY <1>1, <2>1, MarkOne
  <2> QED BY <2>2, <2>3
<1> QED BY <1>3, <1>4, <1>5, <1>6, <1>7

-----------------------------------------------------------------------------
(* One record, however handlers overlap.                                   *)

OneStart == \A s, q \in Slots :
  task[s].kind \in {"start", "resume"} /\ task[q].kind \in {"start", "resume"} => s = q

\* A start found nobody on the card, or the one it is ending; past that, nobody.
SeenBy(t) ==
  t.kind = "start" =>
    /\ Len(recs) < MaxRecs
    /\ t.pc \in {"alive", "kill", "verify", "release"} => FindWorker \in {0, t.w}
    /\ t.pc \in {"stale", "create", "spawn"} => FindWorker = 0

Alone == Single(recs) /\ OneStart /\ \A s \in Slots : SeenBy(task[s])
Basic == Shape /\ Alone

\* What a step may do to the records but for a start that binds its worker.
RecsKept ==
  /\ recs' \in Seq(Rec) /\ Len(recs') = Len(recs)
  /\ Single(recs') /\ FindWorker' \in {0, FindWorker}

LEMMA Holder == ASSUME Basic PROVE FindWorker \in 0..Len(recs) /\ (FindWorker # 0 => FindWorker \in DOMAIN recs)
BY Find DEF Basic, Shape, Alone, FindWorker

LEMMA KeptSame == ASSUME Basic, recs' = recs PROVE RecsKept /\ FindWorker' = FindWorker
BY DEF Basic, Shape, Alone, RecsKept, FindWorker

LEMMA KeptMarked == ASSUME Basic, NEW rt, Marked(recs, rt) PROVE rt \in Seq(Rec) /\ Len(rt) = Len(recs) /\ Single(rt) /\ FindIn(rt) = FindWorker
BY FindSame DEF Basic, Shape, Alone, FindWorker, Marked

LEMMA TaskMoves ==
  ASSUME Shape, NEW s \in Slots, NEW t, task' = [task EXCEPT ![s] = t], TaskOK(t)',
         recs' \in Seq(Rec), Len(recs) <= Len(recs'), gen' \in Nat, gen <= gen'
  PROVE  task' \in [Slots -> Task] /\ \A q \in Slots : TaskOK(task[q])'
<1>1. t \in Task
  BY DEF TaskOK
<1>2. ASSUME NEW q \in Slots, q # s PROVE TaskOK(task[q])'
  <2>1. TaskOK(task[q]) /\ task'[q] = task[q]
    BY <1>2 DEF Shape
  <2>2. task[q].w \in Nat /\ task[q].gen \in Nat /\ Len(recs) \in Nat /\ Len(recs') \in Nat /\ gen \in Nat
    BY DEF Shape, Task
  <2> QED BY <2>1, <2>2 DEF TaskOK
<1>3. TaskOK(task[s])'
  <2>1. task'[s] = t
    BY <1>1 DEF Shape
  <2> QED BY <2>1 DEF TaskOK
<1>4. \A q \in Slots : TaskOK(task[q])'
  BY <1>2, <1>3
<1>5. task' \in [Slots -> Task]
  BY <1>1 DEF Shape
<1> QED BY <1>4, <1>5

Scalars ==
  /\ onBoard \in BOOLEAN /\ col \in Columns /\ gen \in 1..MaxGens /\ pointer \in BOOLEAN
  /\ pane \in {"none", "stopped", "shell", "live"} /\ ground \in {"none", "clean", "dirty"}
  /\ sweep \in 0..Len(recs) /\ restarts \in 0..MaxRestarts
  /\ restarts = 0 => sweep = 0

\* A handler's step that adds no record.
LEMMA BasicStep ==
  ASSUME Basic, NEW s \in Slots, NEW t, task' = [task EXCEPT ![s] = t], TaskOK(t)', Scalars',
         RecsKept, gen' = gen, SeenBy(t)',
         t.kind \in {"start", "resume"} => task[s].kind = t.kind \/ NotStarting
  PROVE  Basic'
<1>1. task' \in [Slots -> Task] /\ \A q \in Slots : TaskOK(task[q])'
  <2>1. Shape /\ recs' \in Seq(Rec) /\ Len(recs) <= Len(recs') /\ gen' \in Nat /\ gen <= gen'
    BY DEF Basic, RecsKept, Shape
  <2> QED BY <2>1, TaskMoves
<1>2. Shape'
  BY <1>1 DEF Shape, Scalars, RecsKept, Basic
<1>3. \A q \in Slots : task'[q] = IF q = s THEN t ELSE task[q]
  BY DEF Basic, Shape
<1>4. OneStart'
  BY <1>3 DEF OneStart, Basic, Alone, NotStarting, InFlight
<1>5. ASSUME NEW q \in Slots, q # s PROVE SeenBy(task[q])'
  <2>1. SeenBy(task[q]) /\ task'[q] = task[q]
    BY <1>3, <1>5 DEF Basic, Alone
  <2> QED BY <2>1 DEF SeenBy, RecsKept
<1>6. \A q \in Slots : SeenBy(task[q])'
  BY <1>3, <1>5
<1> QED BY <1>2, <1>4, <1>6 DEF Basic, Alone, RecsKept

\* A handler's next step keeps what the handler is.
Stepped(t, pc, flag) ==
  [t EXCEPT !.pc = pc, !.ans = AwaitOf(pc), !.flag = flag]

LEMMA StepsTask ==
  ASSUME NEW s \in Slots, task \in [Slots -> Task], NEW pc \in Pcs, NEW flag \in BOOLEAN,
         GoTo(s, pc, flag)
  PROVE  task' = [task EXCEPT ![s] = Stepped(task[s], pc, flag)]
BY DEF GoTo, Stepped

LEMMA StepsOn ==
  ASSUME Basic, NEW s \in Slots, NEW pc \in Pcs, NEW flag \in BOOLEAN, GoTo(s, pc, flag),
         pc # "none", pc \in StepsOf(task[s].kind), task[s].kind # "free",
         pc \in {"kill", "verify"} => task[s].w # 0,
         task[s].kind = "start" /\ pc \in {"alive", "kill", "verify", "release"} =>
           task[s].w # 0 /\ FindWorker' \in {0, task[s].w},
         task[s].kind = "start" /\ pc \in {"stale", "create", "spawn"} => FindWorker' = 0,
         RecsKept, gen' = gen, Scalars'
  PROVE  Basic'
<1>1. TaskOK(task[s]) /\ SeenBy(task[s]) /\ task \in [Slots -> Task]
  BY DEF Basic, Shape, Alone
<1>2. PICK t : t = Stepped(task[s], pc, flag)
  OBVIOUS
<1>3. task' = [task EXCEPT ![s] = t]
  BY <1>1, <1>2, StepsTask
<1>5. AwaitOf(pc) \in AnswersTo(pc) /\ AwaitOf(pc) \in Answers
  BY DEF AwaitOf, AnswersTo, Pcs, Answers, Delays
<1>a. PICK a \in Answers : a = AwaitOf(pc)
  BY <1>5
<1>b. PICK u \in Task : u = task[s]
  BY <1>1
<1>c. t = [u EXCEPT !.pc = pc, !.ans = a, !.flag = flag]
  BY <1>2, <1>a, <1>b DEF Stepped
<1>6. t \in Task /\ t.kind = u.kind /\ t.pc = pc /\ t.ans = a /\ t.w = u.w /\ t.gen = u.gen /\ t.flag = flag
  BY <1>c DEF Task
<1>4. /\ t.kind = task[s].kind /\ t.pc = pc /\ t.ans = AwaitOf(pc) /\ t.w = task[s].w
      /\ t.gen = task[s].gen /\ t.flag = flag
  BY <1>6, <1>a, <1>b
<1>7. Bound(t) => t.w # 0
  BY <1>1, <1>4 DEF Bound, TaskOK
<1>8. TaskOK(t)'
  BY <1>1, <1>4, <1>5, <1>6, <1>7 DEF TaskOK, RecsKept
<1>9. SeenBy(t)'
  BY <1>1, <1>4 DEF SeenBy, RecsKept
<1> QED BY <1>3, <1>4, <1>8, <1>9, BasicStep

LEMMA EndsStep ==
  ASSUME Basic, NEW s \in Slots, End(s), RecsKept, gen' = gen, Scalars'
  PROVE  Basic'
<1>1. TaskOK(Free)'
  BY DEF TaskOK, Free, Task, Kinds, AllOps, Pcs, Answers, StepsOf, AnswersTo, Delays, Bound, Basic, Shape, RecsKept
<1>2. SeenBy(Free)'
  BY DEF SeenBy, Free
<1>3. Free.kind \notin {"start", "resume"}
  BY DEF Free
<1>4. task' = [task EXCEPT ![s] = Free]
  BY DEF End
<1>5. PICK t : t = Free
  OBVIOUS
<1> QED BY <1>1, <1>2, <1>3, <1>4, <1>5, BasicStep

\* A handler begins, with the record that holds the card.
Begun(kind, pc, w, flag) ==
  [kind |-> kind, pc |-> pc, ans |-> AwaitOf(pc), w |-> w, gen |-> gen, flag |-> flag]

LEMMA BeginsStep ==
  ASSUME Basic, NEW s \in Slots, NEW kind \in Kinds, NEW pc \in Pcs, NEW w \in 0..Len(recs), NEW flag \in BOOLEAN,
         Begin(s, kind, pc, w, flag),
         kind # "free", kind \in AllOps => kind \in Ops, pc # "none", pc \in StepsOf(kind),
         w # 0 \/ (pc \in {"body", "hooks", "stale", "create"} /\ kind \in {"start", "handoff", "archive", "merge"}),
         kind \in {"start", "resume"} => NotStarting,
         kind = "start" => Len(recs) < MaxRecs /\ FindWorker' = w /\ (pc \in {"stale", "create", "spawn"} => w = 0),
         RecsKept, gen' = gen, Scalars'
  PROVE  Basic'
<1>1. PICK t : t = Begun(kind, pc, w, flag)
  OBVIOUS
<1>2. task' = [task EXCEPT ![s] = t]
  BY <1>1 DEF Begin, Begun
<1>3. t.kind = kind /\ t.pc = pc /\ t.ans = AwaitOf(pc) /\ t.w = w /\ t.gen = gen /\ t.flag = flag
  BY <1>1 DEF Begun
<1>4. AwaitOf(pc) \in AnswersTo(pc) /\ AwaitOf(pc) \in Answers
  BY DEF AwaitOf, AnswersTo, Pcs, Answers, Delays
<1>5. w \in Nat /\ w <= Len(recs) /\ gen \in Nat
  BY DEF Basic, Shape
<1>6. t \in Task
  BY <1>1, <1>4, <1>5 DEF Begun, Task
<1>7. Bound(t) => t.w # 0
  BY <1>3 DEF Bound
<1>8. TaskOK(t)'
  BY <1>3, <1>4, <1>5, <1>6, <1>7 DEF TaskOK, RecsKept
<1>9. SeenBy(t)'
  BY <1>3 DEF SeenBy, RecsKept
<1> QED BY <1>2, <1>3, <1>8, <1>9, BasicStep

LEMMA BasicInit == Init => Basic
<1> SUFFICES ASSUME Init PROVE Basic
  OBVIOUS
<1>1. NewRec \in Rec
  BY DEF NewRec, Rec
<1>2. recs \in Seq(Rec) /\ Len(recs) \in 0..1 /\ (recs = <<>> \/ recs = <<NewRec>>)
  <2>1. <<>> \in Seq(Rec) /\ Len(<<>>) = 0 /\ <<NewRec>> \in Seq(Rec) /\ Len(<<NewRec>>) = 1
    BY <1>1
  <2>2. recs = <<>> \/ recs = <<NewRec>>
    BY DEF Init
  <2>3. CASE recs = <<>>
    BY <2>1, <2>3
  <2>4. CASE recs = <<NewRec>>
    BY <2>1, <2>4
  <2> QED BY <2>2, <2>3, <2>4
<1>3. TaskOK(Free)
  BY <1>2 DEF Init, TaskOK, Free, Task, Kinds, AllOps, Pcs, Answers, StepsOf, AnswersTo, Delays, Bound
<1>a. task = [s \in Slots |-> Free] /\ Free \in Task
  BY <1>3 DEF Init, TaskOK
<1>b. task \in [Slots -> Task] /\ \A s \in Slots : TaskOK(task[s])
  BY <1>3, <1>a
<1>c. /\ onBoard \in BOOLEAN /\ col \in Columns /\ gen \in 1..MaxGens /\ pointer \in BOOLEAN
      /\ pane \in {"none", "stopped", "shell", "live"} /\ ground \in {"none", "clean", "dirty"}
      /\ restarts = 0 /\ restarts \in 0..MaxRestarts /\ sweep = 0
  <2>1. restarts = 0 /\ restarts \in 0..MaxRestarts /\ sweep = 0 /\ gen \in 1..MaxGens
    BY WorkersAssumption DEF Init
  <2>2. col \in Columns /\ pane \in {"none", "stopped", "shell", "live"} /\ ground \in {"none", "clean", "dirty"}
    BY DEF Init, Columns
  <2>3. onBoard \in BOOLEAN /\ pointer \in BOOLEAN
    BY DEF Init
  <2> QED BY <2>1, <2>2, <2>3
<1>d. Len(recs) <= MaxRecs /\ sweep \in 0..Len(recs)
  BY <1>2, <1>c, WorkersAssumption
<1>4. Shape
  BY <1>2, <1>b, <1>c, <1>d DEF Shape
<1>5. Single(recs)
  BY <1>2 DEF Single
<1>6. OneStart /\ \A s \in Slots : SeenBy(task[s])
  BY DEF Init, OneStart, SeenBy, Free
<1> QED BY <1>4, <1>5, <1>6 DEF Basic, Alone

LEMMA NoteKills ==
  ASSUME Basic, NEW s \in Slots, KillOver(s), task[s].kind # "free"
  PROVE  /\ task[s].w \in DOMAIN recs
         /\ Marked(recs, NoteKill(s))
         /\ NoteKill(s) \in Seq(Rec) /\ Len(NoteKill(s)) = Len(recs)
         /\ Single(NoteKill(s)) /\ FindIn(NoteKill(s)) = FindWorker
<1>1. TaskOK(task[s])
  BY DEF Basic, Shape
<1>2. task[s].w \in DOMAIN recs
  BY <1>1 DEF TaskOK, Bound, KillOver, Task, Basic, Shape
<1>3. PICK b \in BOOLEAN : b = ~Verified(s)
  OBVIOUS
<1>4. Marked(recs, NoteKill(s))
  BY <1>2, <1>3, MarksOnly DEF NoteKill, W, Basic, Shape
<1> QED BY <1>2, <1>4, KeptMarked

LEMMA Facts ==
  ASSUME Basic, NEW s \in Slots
  PROVE  /\ task[s] \in Task /\ TaskOK(task[s]) /\ SeenBy(task[s]) /\ Scalars
         /\ FindWorker \in 0..Len(recs) /\ (FindWorker # 0 => FindWorker \in DOMAIN recs)
         /\ recs \in Seq(Rec) /\ Single(recs)
<1>1. FindWorker \in 0..Len(recs) /\ (FindWorker # 0 => FindWorker \in DOMAIN recs)
  BY Holder
<1> QED BY <1>1 DEF Basic, Shape, Alone, Scalars

LEMMA GoBasic ==
  ASSUME Basic, NEW s \in Slots, NEW pc \in Pcs, Go(s, pc),
         pc # "none", pc \in StepsOf(task[s].kind), task[s].kind # "free",
         pc \in {"kill", "verify"} => task[s].w # 0,
         task[s].kind = "start" /\ pc \in {"alive", "kill", "verify", "release"} =>
           task[s].w # 0 /\ FindWorker' \in {0, task[s].w},
         task[s].kind = "start" /\ pc \in {"stale", "create", "spawn"} => FindWorker' = 0,
         RecsKept, gen' = gen, Scalars'
  PROVE  Basic'
<1>1. task[s].flag \in BOOLEAN
  BY Facts DEF Task
<1> QED BY <1>1, StepsOn DEF Go

LEMMA AnswerBasic == ASSUME Basic, NEW s \in Slots, Answer(s) PROVE Basic'
<1>1. RecsKept /\ FindWorker' = FindWorker
  BY KeptSame DEF Answer
<1>2. PICK u \in Task : u = task[s]
  BY Facts
<1>3. TaskOK(u) /\ SeenBy(u)
  BY <1>2, Facts
<1>4. PICK o \in Outcomes(u.pc) : task' = [task EXCEPT ![s].ans = o.ans] /\ pane' = o.pane /\ ground' = o.ground
  BY <1>2 DEF Answer
<1>5. u.ans = "wait" /\ u.pc \in Pcs
  BY <1>2 DEF Answer, Task
<1>6. u.pc \notin {"none", "body", "hooks", "teardown"}
  BY <1>3, <1>5 DEF TaskOK, AnswersTo, Delays
<1>7. /\ o.ans \in AnswersTo(u.pc) /\ o.ans \in Answers
      /\ o.pane \in {"none", "stopped", "shell", "live"} /\ o.ground \in {"none", "clean", "dirty"}
  BY <1>4, <1>5, <1>6 DEF Outcomes, Outcome, AnswersTo, Answers, Delays, Pcs, Basic, Shape
<1>8. PICK a \in Answers : a = o.ans /\ a \in AnswersTo(u.pc)
  BY <1>7
<1>9. PICK t : t = [u EXCEPT !.ans = a]
  OBVIOUS
<1>10. t \in Task /\ t.kind = u.kind /\ t.pc = u.pc /\ t.ans = a /\ t.w = u.w /\ t.gen = u.gen /\ t.flag = u.flag
  BY <1>9 DEF Task
<1>11. task' = [task EXCEPT ![s] = t]
  BY <1>2, <1>4, <1>8, <1>9
<1>12. t.kind # "free"
  BY <1>3, <1>6, <1>10 DEF TaskOK, Free
<1>13. Bound(t) => t.w # 0
  BY <1>3, <1>10 DEF TaskOK, Bound
<1>14. TaskOK(t)'
  BY <1>1, <1>3, <1>8, <1>10, <1>12, <1>13 DEF TaskOK, RecsKept, Answer, cardVars
<1>15. SeenBy(t)'
  BY <1>1, <1>3, <1>10 DEF SeenBy, RecsKept
<1>16. Scalars'
  BY <1>4, <1>7 DEF Scalars, Answer, cardVars, boot, Basic, Shape
<1> QED BY <1>1, <1>2, <1>10, <1>11, <1>14, <1>15, <1>16, BasicStep DEF Answer, cardVars

LEMMA KillVerifyBasic == ASSUME Basic, NEW s \in Slots, KillVerify(s) PROVE Basic'
<1>1. RecsKept /\ FindWorker' = FindWorker /\ Scalars' /\ gen' = gen
  BY Facts, KeptSame DEF KillVerify, Scalars, cardVars, world, boot
<1>2. /\ task[s].kind # "free" /\ "verify" \in StepsOf(task[s].kind) /\ task[s].w # 0
      /\ task[s].kind = "start" => FindWorker \in {0, task[s].w}
  BY Facts DEF KillVerify, TaskOK, Free, StepsOf, Bound, SeenBy, Kinds, AllOps
<1>3. "verify" \in Pcs /\ Go(s, "verify")
  BY DEF Pcs, KillVerify
<1> QED BY <1>1, <1>2, <1>3, GoBasic

LEMMA StartBeginBasic == ASSUME Basic, NEW s \in Slots, StartBegin(s) PROVE Basic'
<1>1. RecsKept /\ FindWorker' = FindWorker /\ gen' = gen
  BY KeptSame DEF StartBegin
<1>2. PICK pc \in {"alive", "stale", "create"} :
        /\ IF FindWorker # 0 THEN pc = "alive" ELSE WithoutRecord(pc)
        /\ Begin(s, "start", pc, FindWorker, FALSE)
        /\ pointer' = (pointer /\ pc # "create")
  BY DEF StartBegin
<1>3. Scalars'
  BY <1>1, <1>2, Facts DEF Scalars, StartBegin, world, boot
<1>4. FindWorker # 0 \/ pc \in {"stale", "create"}
  BY <1>2 DEF WithoutRecord
<1>5. pc \in {"stale", "create"} => FindWorker = 0
  BY <1>2
<1>6. /\ "start" \in Kinds /\ pc \in Pcs /\ pc # "none" /\ pc \in StepsOf("start") /\ FALSE \in BOOLEAN
      /\ "start" \in Ops /\ NotStarting /\ Len(recs) < MaxRecs /\ FindWorker \in 0..Len(recs)
  BY Facts DEF Kinds, AllOps, Pcs, StepsOf, StartBegin
<1> QED BY <1>1, <1>2, <1>3, <1>4, <1>5, <1>6, BeginsStep

LEMMA StartAliveBasic == ASSUME Basic, NEW s \in Slots, StartAlive(s) PROVE Basic'
<1>1. RecsKept /\ FindWorker' = FindWorker /\ gen' = gen
  BY KeptSame DEF StartAlive
<1>2. task[s].kind = "start" /\ task[s].pc = "alive" /\ task[s].w # 0 /\ FindWorker \in {0, task[s].w}
  BY Facts DEF StartAlive, At, TaskOK, Bound, SeenBy
<1>3. Scalars'
  <2>1. pointer' \in BOOLEAN
    BY Facts DEF StartAlive, Scalars
  <2> QED BY <1>1, <2>1, Facts DEF Scalars, StartAlive, world, boot
<1>4. CASE End(s)
  BY <1>1, <1>3, <1>4, EndsStep
<1>5. CASE \E pc \in {"kill", "stale", "create"} :
             (IF Killable(W(s)) THEN pc = "kill" ELSE WithoutRecord(pc)) /\ Go(s, pc)
  <2>1. PICK pc \in {"kill", "stale", "create"} :
             (IF Killable(W(s)) THEN pc = "kill" ELSE WithoutRecord(pc)) /\ Go(s, pc)
    BY <1>5
  <2>2. pc \in {"stale", "create"} => FindWorker = 0
    BY <1>2, <2>1 DEF Killable, W
  <2>3. pc \in Pcs /\ pc # "none" /\ pc \in StepsOf("start")
    BY DEF Pcs, StepsOf
  <2> QED BY <1>1, <1>2, <1>3, <2>1, <2>2, <2>3, GoBasic
<1> QED BY <1>4, <1>5 DEF StartAlive

LEMMA StartKilledBasic == ASSUME Basic, NEW s \in Slots, StartKilled(s) PROVE Basic' /\ FindWorker' = FindWorker
<1>1. task[s].kind = "start" /\ task[s].w # 0 /\ FindWorker \in {0, task[s].w} /\ task[s].pc \in {"kill", "verify"}
  BY Facts DEF StartKilled, KillOver, TaskOK, Bound, SeenBy
<1>2. RecsKept /\ FindWorker' = FindWorker /\ gen' = gen
  <2>1. recs' = NoteKill(s) /\ KillOver(s) /\ task[s].kind # "free"
    BY DEF StartKilled
  <2> QED BY <2>1, NoteKills DEF RecsKept, FindWorker, StartKilled, cardVars
<1>3. Scalars'
  BY <1>2, Facts DEF Scalars, StartKilled, cardVars, world, boot, RecsKept
<1>4. CASE End(s)
  BY <1>2, <1>3, <1>4, EndsStep
<1>5. CASE Go(s, "release")
  <2>1. "release" \in Pcs /\ "release" \in StepsOf("start")
    BY DEF Pcs, StepsOf
  <2> QED BY <1>1, <1>2, <1>3, <1>5, <2>1, GoBasic
<1> QED BY <1>2, <1>4, <1>5 DEF StartKilled

LEMMA StartReleasedBasic == ASSUME Basic, NEW s \in Slots, StartReleased(s) PROVE Basic'
<1>1. task[s].kind = "start" /\ task[s].w \in Nat /\ FindWorker \in {0, task[s].w}
  BY Facts DEF StartReleased, At, Task, SeenBy
<1>2. CASE recs' = Drop(recs, W(s)) /\ Go(s, "create")
  <2>1. RecsKept /\ FindWorker' = 0
    BY <1>1, <1>2, Facts, FindDrop DEF RecsKept, FindWorker, W
  <2>2. Scalars' /\ gen' = gen
    BY <2>1, Facts DEF Scalars, StartReleased, cardVars, world, boot, RecsKept
  <2>3. "create" \in Pcs /\ "create" \in StepsOf("start")
    BY DEF Pcs, StepsOf
  <2> QED BY <1>1, <1>2, <2>1, <2>2, <2>3, GoBasic
<1>3. CASE UNCHANGED recs /\ End(s)
  <2>1. RecsKept /\ Scalars' /\ gen' = gen
    BY <1>3, Facts, KeptSame DEF StartReleased, Scalars, cardVars, world, boot
  <2> QED BY <1>3, <2>1, EndsStep
<1> QED BY <1>2, <1>3 DEF StartReleased

LEMMA StartStaleBasic == ASSUME Basic, NEW s \in Slots, StartStale(s) PROVE Basic'
<1>1. task[s].kind = "start" /\ FindWorker = 0
  BY Facts DEF StartStale, At, SeenBy
<1>2. RecsKept /\ FindWorker' = FindWorker /\ gen' = gen
  BY KeptSame DEF StartStale
<1>3. Scalars'
  <2>1. pointer' \in BOOLEAN
    BY Facts DEF StartStale, Scalars
  <2> QED BY <1>2, <2>1, Facts DEF Scalars, StartStale, world, boot
<1>4. CASE End(s)
  BY <1>2, <1>3, <1>4, EndsStep
<1>5. CASE Go(s, "create")
  <2>1. "create" \in Pcs /\ "create" \in StepsOf("start")
    BY DEF Pcs, StepsOf
  <2> QED BY <1>1, <1>2, <1>3, <1>5, <2>1, GoBasic
<1> QED BY <1>4, <1>5 DEF StartStale

LEMMA StartCreatedBasic == ASSUME Basic, NEW s \in Slots, StartCreated(s) PROVE Basic'
<1>1. task[s].kind = "start" /\ FindWorker = 0
  BY Facts DEF StartCreated, At, SeenBy
<1>2. RecsKept /\ FindWorker' = FindWorker /\ gen' = gen /\ Scalars'
  BY Facts, KeptSame DEF StartCreated, Scalars, cardVars, world, boot
<1>3. CASE End(s)
  BY <1>2, <1>3, EndsStep
<1>4. CASE Go(s, "spawn")
  <2>1. "spawn" \in Pcs /\ "spawn" \in StepsOf("start")
    BY DEF Pcs, StepsOf
  <2> QED BY <1>1, <1>2, <1>4, <2>1, GoBasic
<1> QED BY <1>3, <1>4 DEF StartCreated

LEMMA StartSpawnedBasic == ASSUME Basic, NEW s \in Slots, StartSpawned(s) PROVE Basic'
<1>1. task[s].kind = "start" /\ FindWorker = 0 /\ Len(recs) < MaxRecs
  BY Facts DEF StartSpawned, At, SeenBy
<1>2. CASE Says(s, "ok") /\ onBoard
  <2>1. recs' = Append(recs, NewRec) /\ task' = [task EXCEPT ![s] = Free] /\ gen' = gen
    BY <1>2 DEF StartSpawned, End
  <2>2. recs' \in Seq(Rec) /\ Len(recs') = Len(recs) + 1 /\ Single(recs')
    BY <1>1, <2>1, Facts, FindAppend DEF FindWorker
  <2>3. TaskOK(Free)'
    BY <2>1, <2>2 DEF TaskOK, Free, Task, Kinds, AllOps, Pcs, Answers, StepsOf, AnswersTo, Delays, Bound, Basic, Shape
  <2>4. task' \in [Slots -> Task] /\ \A q \in Slots : TaskOK(task[q])'
    <3>1. Shape /\ Len(recs) <= Len(recs') /\ gen' \in Nat /\ gen <= gen'
      BY <2>1, <2>2 DEF Basic, Shape
    <3>2. PICK t : t = Free
      OBVIOUS
    <3> QED BY <2>1, <2>2, <2>3, <3>1, <3>2, TaskMoves
  <2>5. pointer' \in BOOLEAN /\ col' \in Columns
    BY <1>2, Facts DEF StartSpawned, Scalars, EnterWorking, MoveTo, Columns
  <2>6. Scalars' /\ Len(recs') <= MaxRecs
    BY <1>1, <2>1, <2>2, <2>5, Facts, WorkersAssumption DEF StartSpawned, Scalars, world, boot
  <2>7. Shape'
    BY <2>2, <2>4, <2>6 DEF Shape, Scalars
  <2>8. \A q \in Slots : task'[q].kind \notin {"start", "resume"}
    BY <1>1, <2>1 DEF Free, OneStart, Basic, Alone, Shape
  <2> QED BY <2>2, <2>7, <2>8 DEF Basic, Alone, OneStart, SeenBy
<1>3. CASE ~(Says(s, "ok") /\ onBoard)
  <2>1. PICK pc \in {"abortKill", "undo"} : Go(s, pc)
    BY <1>3 DEF StartSpawned
  <2>2. recs' = recs /\ gen' = gen
    BY <1>3 DEF StartSpawned
  <2>3. RecsKept /\ Scalars'
    BY <1>3, <2>2, Facts, KeptSame DEF StartSpawned, Scalars, world, boot
  <2>4. pc \in Pcs /\ pc \in StepsOf("start")
    BY DEF Pcs, StepsOf
  <2> QED BY <1>1, <2>1, <2>2, <2>3, <2>4, GoBasic
<1> QED BY <1>2, <1>3

LEMMA StartUndoneBasic == ASSUME Basic, NEW s \in Slots, StartUndone(s) PROVE Basic'
<1>1. task[s].kind = "start"
  BY DEF StartUndone, At
<1>2. RecsKept /\ gen' = gen /\ Scalars'
  BY Facts, KeptSame DEF StartUndone, Scalars, cardVars, world, boot
<1>3. "abort" \in Pcs /\ "abort" \in StepsOf("start")
  BY DEF Pcs, StepsOf
<1>4. CASE Go(s, "abort")
  BY <1>1, <1>2, <1>3, <1>4, GoBasic
<1>5. CASE End(s)
  BY <1>2, <1>5, EndsStep
<1> QED BY <1>4, <1>5 DEF StartUndone

LEMMA ResumeBeginBasic == ASSUME Basic, NEW s \in Slots, ResumeBegin(s) PROVE Basic'
<1>1. RecsKept /\ FindWorker' = FindWorker /\ gen' = gen /\ Scalars'
  BY Facts, KeptSame DEF ResumeBegin, Scalars, cardVars, world, boot
<1>2. /\ "resume" \in Kinds /\ "resume" \in Pcs /\ "resume" \in StepsOf("resume") /\ FALSE \in BOOLEAN
      /\ "resume" \in Ops /\ NotStarting /\ FindWorker # 0 /\ FindWorker \in 0..Len(recs)
      /\ Begin(s, "resume", "resume", FindWorker, FALSE)
  BY Facts DEF Kinds, AllOps, Pcs, StepsOf, ResumeBegin
<1> QED BY <1>1, <1>2, BeginsStep

LEMMA ResumedBasic == ASSUME Basic, NEW s \in Slots, Resumed(s) PROVE Basic' /\ FindWorker' = FindWorker
<1>1. task[s].kind = "resume" /\ task[s].w \in DOMAIN recs
  BY Facts DEF Resumed, At, TaskOK, Bound, Task
<1>2. CASE Says(s, "ok") /\ onBoard
  <2>1. Marked(recs, recs') /\ gen' = gen /\ End(s)
    <3>1. Marked(recs, [recs EXCEPT ![W(s)].done = FALSE, ![W(s)].flagged = FALSE,
                                    ![W(s)].paused = FALSE, ![W(s)].killFailed = FALSE])
      BY <1>1, MarksOnly, Facts DEF W
    <3> QED BY <1>2, <3>1 DEF Resumed
  <2>2. RecsKept /\ FindWorker' = FindWorker
    BY <2>1, KeptMarked DEF RecsKept, FindWorker
  <2>3. Scalars'
    BY <1>2, <2>2, Facts DEF Resumed, Scalars, EnterWorking, MoveTo, Columns, world, boot, RecsKept
  <2> QED BY <2>1, <2>2, <2>3, EndsStep
<1>3. CASE ~(Says(s, "ok") /\ onBoard)
  <2>1. RecsKept /\ gen' = gen /\ Scalars' /\ FindWorker' = FindWorker
    BY <1>3, Facts, KeptSame DEF Resumed, Scalars, world, boot
  <2>2. "abortKill" \in Pcs /\ "abortKill" \in StepsOf("resume")
    BY DEF Pcs, StepsOf
  <2>3. CASE Go(s, "abortKill")
    BY <1>1, <2>1, <2>2, <2>3, GoBasic
  <2>4. CASE End(s)
    BY <2>1, <2>4, EndsStep
  <2> QED BY <1>3, <2>1, <2>3, <2>4 DEF Resumed
<1> QED BY <1>2, <1>3

LEMMA ResumeUndoneBasic == ASSUME Basic, NEW s \in Slots, ResumeUndone(s) PROVE Basic'
<1>1. RecsKept /\ gen' = gen /\ Scalars' /\ End(s)
  BY Facts, KeptSame DEF ResumeUndone, Scalars, cardVars, world, boot
<1> QED BY <1>1, EndsStep

\* The records are marked, no handler moves.
LEMMA IdleStep ==
  ASSUME Basic, task' = task, RecsKept, gen <= gen', Scalars'
  PROVE  Basic'
<1>1. Len(recs') = Len(recs) /\ gen \in Nat /\ gen' \in Nat /\ recs' \in Seq(Rec)
  BY DEF RecsKept, Scalars, Basic, Shape
<1>2. ASSUME NEW q \in Slots PROVE TaskOK(task[q])' /\ SeenBy(task[q])'
  <2>1. TaskOK(task[q]) /\ SeenBy(task[q]) /\ task[q].gen \in Nat
    BY Facts DEF Task
  <2>2. TaskOK(task[q])'
    BY <1>1, <2>1 DEF TaskOK
  <2>3. SeenBy(task[q])'
    BY <1>1, <2>1 DEF SeenBy, RecsKept
  <2> QED BY <2>2, <2>3
<1>3. Shape'
  BY <1>1, <1>2 DEF Shape, Scalars, Basic
<1> QED BY <1>2, <1>3 DEF Basic, Alone, OneStart, RecsKept

LEMMA WorkerDoneBasic == ASSUME Basic, WorkerDone PROVE Basic'
<1>1. FindWorker \in DOMAIN recs
  BY Holder DEF WorkerDone
<1>2. Marked(recs, recs')
  BY <1>1, MarksOnly DEF WorkerDone, Basic, Shape
<1>3. RecsKept
  BY <1>2, KeptMarked DEF RecsKept, FindWorker
<1>4. gen <= gen' /\ Scalars' /\ task' = task
  BY <1>3 DEF WorkerDone, Scalars, cardVars, world, boot, Basic, Shape, RecsKept
<1> QED BY <1>3, <1>4, IdleStep

LEMMA SendBeginBasic == ASSUME Basic, NEW s \in Slots, SendBegin(s) PROVE Basic'
<1>1. RecsKept /\ FindWorker' = FindWorker /\ gen' = gen /\ Scalars'
  BY Facts, KeptSame DEF SendBegin, Scalars, cardVars, world, boot
<1>2. /\ "send" \in Kinds /\ "alive" \in Pcs /\ "alive" \in StepsOf("send") /\ FALSE \in BOOLEAN
      /\ "send" \in Ops /\ FindWorker # 0 /\ FindWorker \in 0..Len(recs)
      /\ Begin(s, "send", "alive", FindWorker, FALSE)
  BY Facts DEF Kinds, AllOps, Pcs, StepsOf, SendBegin
<1> QED BY <1>1, <1>2, BeginsStep

LEMMA SendAliveBasic == ASSUME Basic, NEW s \in Slots, SendAlive(s) PROVE Basic' /\ FindWorker' = FindWorker
<1>1. task[s].w \in DOMAIN recs
  BY Facts DEF SendAlive, At, TaskOK, Bound, Task
<1>2. RecsKept /\ FindWorker' = FindWorker
  <2>1. CASE recs' = recs
    BY <2>1, KeptSame
  <2>2. CASE recs' # recs
    <3>1. Marked(recs, recs')
      <4>1. Marked(recs, [recs EXCEPT ![W(s)].done = FALSE, ![W(s)].flagged = FALSE,
                                      ![W(s)].paused = FALSE, ![W(s)].killFailed = FALSE,
                                      ![W(s)].expectExit = FALSE])
        BY <1>1, MarksOnly, Facts DEF W
      <4> QED BY <2>2, <4>1 DEF SendAlive
    <3> QED BY <3>1, KeptMarked DEF RecsKept, FindWorker
  <2> QED BY <2>1, <2>2
<1>3. End(s) /\ gen' = gen /\ Scalars'
  BY <1>2, Facts DEF SendAlive, Scalars, EnterWorking, MoveTo, Columns, world, boot, RecsKept
<1> QED BY <1>2, <1>3, EndsStep

LEMMA PauseBeginBasic == ASSUME Basic, NEW s \in Slots, PauseBegin(s) PROVE Basic' /\ FindWorker' = FindWorker
<1>1. FindWorker \in DOMAIN recs /\ FindWorker \in 0..Len(recs) /\ FindWorker # 0
  BY Holder DEF PauseBegin
<1>2. Marked(recs, recs')
  <2>1. /\ Marked(recs, [recs EXCEPT ![FindWorker].paused = TRUE, ![FindWorker].expectExit = TRUE])
        /\ Marked(recs, [recs EXCEPT ![FindWorker].paused = TRUE])
    BY <1>1, MarksOnly, Facts
  <2> QED BY <2>1 DEF PauseBegin
<1>3. RecsKept /\ FindWorker' = FindWorker
  BY <1>2, KeptMarked DEF RecsKept, FindWorker
<1>4. gen' = gen /\ gen <= gen' /\ Scalars'
  BY <1>3, Facts DEF PauseBegin, Scalars, cardVars, world, boot, RecsKept, Basic, Shape
<1>5. CASE task' = task
  BY <1>3, <1>4, <1>5, IdleStep
<1>6. CASE Begin(s, "pause", "pauseKill", FindWorker, FALSE)
  <2>1. /\ "pause" \in Kinds /\ "pauseKill" \in Pcs /\ "pauseKill" \in StepsOf("pause") /\ FALSE \in BOOLEAN
        /\ "pause" \in Ops
    BY DEF Kinds, AllOps, Pcs, StepsOf, PauseBegin
  <2> QED BY <1>1, <1>3, <1>4, <1>6, <2>1, BeginsStep
<1> QED BY <1>3, <1>5, <1>6 DEF PauseBegin

LEMMA PauseKilledBasic == ASSUME Basic, NEW s \in Slots, PauseKilled(s) PROVE Basic' /\ FindWorker' = FindWorker
<1>1. task[s].w \in DOMAIN recs
  BY Facts DEF PauseKilled, At, TaskOK, Bound, Task
<1>2. Marked(recs, recs')
  <2>1. /\ Marked(recs, [recs EXCEPT ![W(s)].expectExit = FALSE])
        /\ Marked(recs, [recs EXCEPT ![W(s)].paused = FALSE])
    BY <1>1, MarksOnly, Facts DEF W
  <2> QED BY <2>1 DEF PauseKilled
<1>3. RecsKept /\ FindWorker' = FindWorker
  BY <1>2, KeptMarked DEF RecsKept, FindWorker
<1>4. End(s) /\ gen' = gen /\ Scalars'
  BY <1>3, Facts DEF PauseKilled, Scalars, cardVars, world, boot, RecsKept
<1> QED BY <1>3, <1>4, EndsStep

LEMMA ParkBeginBasic == ASSUME Basic, NEW s \in Slots, ParkBegin(s) PROVE Basic'
<1>1. RecsKept /\ FindWorker' = FindWorker /\ gen' = gen
  BY KeptSame DEF ParkBegin
<1>2. Scalars' /\ gen <= gen'
  <2>1. col' = col \/ col' = "backlog"
    BY DEF ParkBegin
  <2>2. Scalars
    BY Facts
  <2> QED BY <1>1, <2>1, <2>2 DEF ParkBegin, Scalars, Columns, world, boot, Basic, Shape
<1>3. CASE FindWorker = 0
  BY <1>1, <1>2, <1>3, IdleStep DEF ParkBegin
<1>4. CASE FindWorker # 0
  <2>1. /\ "park" \in Kinds /\ "alive" \in Pcs /\ "alive" \in StepsOf("park") /\ FALSE \in BOOLEAN
        /\ "park" \in Ops /\ FindWorker \in 0..Len(recs)
        /\ Begin(s, "park", "alive", FindWorker, FALSE)
    BY <1>4, Facts DEF Kinds, AllOps, Pcs, StepsOf, ParkBegin
  <2> QED BY <1>1, <1>2, <1>4, <2>1, BeginsStep
<1> QED BY <1>3, <1>4

LEMMA ParkAliveBasic == ASSUME Basic, NEW s \in Slots, ParkAlive(s) PROVE Basic'
<1>1. RecsKept /\ gen' = gen /\ End(s)
  BY KeptSame DEF ParkAlive
<1>2. Scalars'
  BY <1>1, Facts DEF ParkAlive, MoveTo, Scalars, Columns, world, boot
<1> QED BY <1>1, <1>2, EndsStep

LEMMA WatchBeginBasic == ASSUME Basic, NEW s \in Slots, WatchBegin(s) PROVE Basic'
<1>1. RecsKept /\ FindWorker' = FindWorker /\ gen' = gen /\ Scalars'
  BY Facts, KeptSame DEF WatchBegin, Scalars, cardVars, world, boot
<1>2. /\ "watch" \in Kinds /\ "alive" \in Pcs /\ "alive" \in StepsOf("watch") /\ FALSE \in BOOLEAN
      /\ "watch" \in Ops /\ FindWorker # 0 /\ FindWorker \in 0..Len(recs)
      /\ Begin(s, "watch", "alive", FindWorker, FALSE)
  BY Facts DEF Kinds, AllOps, Pcs, StepsOf, WatchBegin
<1> QED BY <1>1, <1>2, BeginsStep

LEMMA WatchAliveBasic == ASSUME Basic, NEW s \in Slots, WatchAlive(s) PROVE Basic' /\ FindWorker' = FindWorker
<1>1. task[s].w \in DOMAIN recs
  BY Facts DEF WatchAlive, At, TaskOK, Bound, Task
<1>2. RecsKept /\ FindWorker' = FindWorker
  <2>1. CASE recs' = recs
    BY <2>1, KeptSame
  <2>2. CASE recs' # recs
    <3>1. Marked(recs, recs')
      BY <1>1, <2>2, Facts, MarksOnly DEF WatchAlive, W
    <3> QED BY <3>1, KeptMarked DEF RecsKept, FindWorker
  <2> QED BY <2>1, <2>2
<1>3. End(s) /\ gen' = gen /\ Scalars'
  BY <1>2, Facts DEF WatchAlive, Scalars, cardVars, world, boot, RecsKept
<1> QED BY <1>2, <1>3, EndsStep

\* Records after a release: the same ones, marked.
SameRegs(rs) ==
  rs \in Seq(Rec) /\ Len(rs) = Len(recs) /\ Single(rs) /\ FindIn(rs) = FindWorker

LEMMA FinishBasic ==
  ASSUME Basic, NEW s \in Slots, NEW killed, NEW released, NEW rs, SameRegs(rs),
         task[s].kind \in Detached, Finish(s, killed, released, rs),
         gen' = gen, col' \in Columns, pointer' \in BOOLEAN, UNCHANGED <<world, boot>>
  PROVE  Basic'
<1>1. task[s].w \in Nat /\ task[s] \in Task /\ TaskOK(task[s])
  BY Facts DEF Task
<1>2. PICK left : left = IF killed /\ (released \/ task[s].kind # "handoff") THEN Drop(rs, task[s].w) ELSE rs
  OBVIOUS
<1>3. recs' = left
  BY <1>2 DEF Finish
<1>4. left \in Seq(Rec) /\ Len(left) = Len(recs) /\ Single(left) /\ FindIn(left) \in {0, FindWorker}
  BY <1>1, <1>2, FindDrop DEF SameRegs
<1>5. RecsKept
  BY <1>3, <1>4 DEF RecsKept, FindWorker
<1>6. onBoard' \in BOOLEAN
  BY Facts DEF Finish, Scalars
<1>7. Scalars'
  BY <1>5, <1>6, Facts DEF Scalars, RecsKept, world, boot
<1>8. CASE End(s)
  BY <1>5, <1>7, <1>8, EndsStep
<1>9. CASE ~End(s)
  <2>1. /\ task[s].kind = "merge" /\ FindIn(left) \notin {0, task[s].w}
        /\ task' = [task EXCEPT ![s].kind = "late", ![s].w = FindIn(left), ![s].pc = "kill", ![s].ans = "wait"]
    BY <1>2, <1>9 DEF Finish, BoundSince
  <2>2. PICK u \in Task : u = task[s]
    BY <1>1
  <2>3. PICK w \in Nat : w = FindIn(left) /\ w # 0 /\ w <= Len(recs)
    BY <1>4, <2>1, Facts
  <2>4. PICK t : t = [u EXCEPT !.kind = "late", !.w = w, !.pc = "kill", !.ans = "wait"]
    OBVIOUS
  <2>5. task' = [task EXCEPT ![s] = t]
    BY <2>1, <2>2, <2>3, <2>4
  <2>6. /\ t \in Task /\ t.kind = "late" /\ t.pc = "kill" /\ t.ans = "wait" /\ t.w = w
        /\ t.gen = u.gen /\ t.flag = u.flag
    BY <2>4 DEF Task, Kinds, Pcs, Answers
  <2>7. TaskOK(t)'
    BY <1>1, <1>5, <2>2, <2>3, <2>6 DEF TaskOK, RecsKept, AllOps, StepsOf, AnswersTo, Delays
  <2>8. SeenBy(t)'
    BY <2>6 DEF SeenBy
  <2> QED BY <1>5, <1>7, <2>5, <2>6, <2>7, <2>8, BasicStep
<1> QED BY <1>8, <1>9

\* A detached handler takes its next step.
LEMMA DetachedGoes ==
  ASSUME Basic, NEW s \in Slots, task[s].kind \in Detached, NEW pc \in {"kill", "hooks", "teardown", "release"},
         NEW flag \in BOOLEAN, GoTo(s, pc, flag), pc = "kill" => task[s].w # 0,
         task[s].kind = "handoff" => pc # "hooks",
         gen' = gen, RecsKept, Scalars'
  PROVE  Basic'
<1>1. task[s].kind \in {"handoff", "archive", "merge"}
  BY DEF Detached
<1>2. pc \in Pcs /\ pc # "none" /\ pc \in StepsOf(task[s].kind) /\ task[s].kind \notin {"free", "start"}
  BY <1>1 DEF Pcs, StepsOf
<1> QED BY <1>2, StepsOn

LEMMA EnterReleaseBasic ==
  ASSUME Basic, NEW s \in Slots, NEW killed \in BOOLEAN, NEW rs, SameRegs(rs), task[s].kind \in Detached,
         EnterRelease(s, killed, rs), gen' = gen, col' \in Columns, pointer' \in BOOLEAN, UNCHANGED <<world, boot>>
  PROVE  Basic'
<1>1. CASE Finish(s, killed, FALSE, rs)
  BY <1>1, FinishBasic
<1>2. CASE GoTo(s, "teardown", killed) /\ recs' = rs /\ UNCHANGED onBoard
  <2>1. RecsKept
    BY <1>2 DEF RecsKept, SameRegs, FindWorker
  <2>2. Scalars'
    BY <1>2, <2>1, Facts DEF Scalars, RecsKept, world, boot
  <2> QED BY <1>2, <2>1, <2>2, DetachedGoes
<1> QED BY <1>1, <1>2 DEF EnterRelease

LEMMA AfterKillBasic ==
  ASSUME Basic, NEW s \in Slots, NEW killed \in BOOLEAN, NEW rs, SameRegs(rs), task[s].kind \in Detached,
         AfterKill(s, killed, rs), gen' = gen, col' \in Columns, pointer' \in BOOLEAN, UNCHANGED <<world, boot>>
  PROVE  Basic'
<1>1. CASE EnterRelease(s, killed, rs)
  BY <1>1, EnterReleaseBasic
<1>2. CASE task[s].kind # "handoff" /\ GoTo(s, "hooks", killed) /\ recs' = rs /\ UNCHANGED onBoard
  <2>1. RecsKept
    BY <1>2 DEF RecsKept, SameRegs, FindWorker
  <2>2. Scalars'
    BY <1>2, <2>1, Facts DEF Scalars, RecsKept, world, boot
  <2> QED BY <1>2, <2>1, <2>2, DetachedGoes
<1> QED BY <1>1, <1>2 DEF AfterKill

LEMMA HandoffBeginBasic == ASSUME Basic, NEW s \in Slots, HandoffBegin(s) PROVE Basic'
<1>1. RecsKept /\ FindWorker' = FindWorker /\ gen' = gen /\ Scalars'
  BY Facts, KeptSame DEF HandoffBegin, Scalars, cardVars, world, boot
<1>2. PICK flag \in BOOLEAN : flag = (col = "working")
  OBVIOUS
<1>3. /\ "handoff" \in Kinds /\ "body" \in Pcs /\ "body" \in StepsOf("handoff")
      /\ "handoff" \in Ops /\ FindWorker \in 0..Len(recs)
      /\ Begin(s, "handoff", "body", FindWorker, flag)
  BY <1>2, Facts DEF Kinds, AllOps, Pcs, StepsOf, HandoffBegin
<1> QED BY <1>1, <1>3, BeginsStep

LEMMA SameNow == ASSUME Basic PROVE SameRegs(recs)
BY Facts DEF SameRegs, Basic, Shape, Alone, FindWorker

LEMMA HandoffMovedBasic == ASSUME Basic, NEW s \in Slots, HandoffMoved(s) PROVE Basic'
<1>1. task[s].kind = "handoff"
  BY DEF HandoffMoved, At
<1>2. col' \in Columns /\ gen' = gen /\ pointer' \in BOOLEAN
  BY Facts DEF HandoffMoved, MoveTo, Columns, Scalars
<1>3. CASE End(s) /\ UNCHANGED <<recs, onBoard>>
  <2>1. RecsKept /\ Scalars'
    BY <1>2, <1>3, Facts, KeptSame DEF HandoffMoved, Scalars, world, boot
  <2> QED BY <1>2, <1>3, <2>1, EndsStep
<1>4. CASE Killable(W(s)) /\ Go(s, "kill") /\ UNCHANGED <<recs, onBoard>>
  <2>1. RecsKept /\ Scalars'
    BY <1>2, <1>4, Facts, KeptSame DEF HandoffMoved, Scalars, world, boot
  <2>2. task[s].flag \in BOOLEAN /\ task[s].w # 0
    BY <1>4, Facts DEF Task, Killable, W
  <2> QED BY <1>1, <1>2, <1>4, <2>1, <2>2, DetachedGoes DEF Go, Detached
<1>5. CASE AfterKill(s, FALSE, recs)
  <2>1. task[s].kind \in Detached /\ UNCHANGED <<world, boot>> /\ FALSE \in BOOLEAN
    BY <1>1 DEF HandoffMoved, Detached
  <2> QED BY <1>2, <1>5, <2>1, SameNow, AfterKillBasic
<1> QED BY <1>3, <1>4, <1>5 DEF HandoffMoved

LEMMA ArchiveBeginBasic == ASSUME Basic, NEW s \in Slots, ArchiveBegin(s) PROVE Basic'
<1>1. RecsKept /\ FindWorker' = FindWorker /\ gen' = gen /\ Scalars'
  BY Facts, KeptSame DEF ArchiveBegin, Scalars, cardVars, world, boot
<1>2. /\ "archive" \in Kinds /\ "body" \in Pcs /\ "body" \in StepsOf("archive") /\ FALSE \in BOOLEAN
      /\ "archive" \in Ops /\ FindWorker \in 0..Len(recs)
      /\ Begin(s, "archive", "body", FindWorker, FALSE)
  BY Facts DEF Kinds, AllOps, Pcs, StepsOf, ArchiveBegin
<1> QED BY <1>1, <1>2, BeginsStep

LEMMA ArchivedBasic == ASSUME Basic, NEW s \in Slots, Archived(s) PROVE Basic'
<1>1. RecsKept /\ gen' = gen /\ Scalars'
  BY Facts, KeptSame DEF Archived, Scalars, world, boot
<1>2. PICK pc \in {"kill", "hooks"} : Go(s, pc) /\ (pc = "kill" => Killable(W(s)))
  BY DEF Archived
<1>3. task[s].kind = "archive" /\ task[s].flag \in BOOLEAN /\ (pc = "kill" => task[s].w # 0)
  BY <1>2, Facts DEF Archived, At, Task, Killable, W
<1> QED BY <1>1, <1>2, <1>3, DetachedGoes DEF Go, Detached

LEMMA MergeBeginBasic == ASSUME Basic, NEW s \in Slots, MergeBegin(s) PROVE Basic'
<1>1. RecsKept /\ FindWorker' = FindWorker /\ gen' = gen /\ Scalars'
  BY Facts, KeptSame DEF MergeBegin, Scalars, cardVars, world, boot
<1>2. PICK pc \in {"kill", "hooks"} : Begin(s, "merge", pc, FindWorker, FALSE) /\ (FindWorker # 0 <=> pc = "kill")
  BY DEF MergeBegin
<1>3. /\ "merge" \in Kinds /\ pc \in Pcs /\ pc # "none" /\ pc \in StepsOf("merge") /\ FALSE \in BOOLEAN
      /\ "merge" \in Ops /\ FindWorker \in 0..Len(recs)
  BY <1>2, Facts DEF Kinds, AllOps, Pcs, StepsOf, MergeBegin
<1> QED BY <1>1, <1>2, <1>3, BeginsStep

LEMMA DetachedKilledBasic == ASSUME Basic, NEW s \in Slots, DetachedKilled(s) PROVE Basic'
<1>1. PICK killed \in BOOLEAN : killed = Verified(s)
  BY DEF Verified, Says
<1>2. task[s].kind # "free" /\ task[s].kind \in Detached /\ KillOver(s)
  BY DEF DetachedKilled, Detached
<1>3. SameRegs(NoteKill(s))
  BY <1>2, NoteKills DEF SameRegs
<1>4. AfterKill(s, killed, NoteKill(s)) /\ gen' = gen /\ col' \in Columns /\ pointer' \in BOOLEAN /\ UNCHANGED <<world, boot>>
  BY <1>1, Facts DEF DetachedKilled, Scalars
<1> QED BY <1>2, <1>3, <1>4, AfterKillBasic

LEMMA HooksRanBasic == ASSUME Basic, NEW s \in Slots, HooksRan(s) PROVE Basic'
<1>1. task[s].kind \in Detached /\ task[s].flag \in BOOLEAN /\ EnterRelease(s, task[s].flag, recs)
  BY Facts DEF HooksRan, At, Task
<1>2. gen' = gen /\ col' \in Columns /\ pointer' \in BOOLEAN /\ UNCHANGED <<world, boot>>
  BY Facts DEF HooksRan, Scalars
<1> QED BY <1>1, <1>2, SameNow, EnterReleaseBasic

LEMMA TornDownBasic == ASSUME Basic, NEW s \in Slots, TornDown(s) PROVE Basic'
<1>1. task[s].kind \in Detached /\ task[s].flag \in BOOLEAN
  BY Facts DEF TornDown, At, Task
<1>2. gen' = gen /\ col' \in Columns /\ pointer' \in BOOLEAN /\ UNCHANGED <<world, boot>>
  BY Facts DEF TornDown, Scalars
<1>3. CASE Go(s, "release") /\ UNCHANGED <<recs, onBoard>>
  <2>1. RecsKept /\ Scalars'
    BY <1>2, <1>3, Facts, KeptSame DEF TornDown, Scalars, world, boot
  <2>2. GoTo(s, "release", task[s].flag)
    BY <1>3 DEF Go
  <2> QED BY <1>1, <1>2, <2>1, <2>2, DetachedGoes
<1>4. CASE Finish(s, task[s].flag, FALSE, recs)
  BY <1>1, <1>2, <1>4, SameNow, FinishBasic
<1> QED BY <1>3, <1>4 DEF TornDown

LEMMA ReleasedRecs ==
  ASSUME Basic, NEW s \in Slots, Released(s)
  PROVE  \E gone \in BOOLEAN : \E rs :
           /\ rs = IF gone /\ W(s) # 0 THEN [recs EXCEPT ![W(s)].released = TRUE] ELSE recs
           /\ SameRegs(rs) /\ Finish(s, task[s].flag, gone, rs)
<1>1. task[s].w \in Nat /\ task[s].w <= Len(recs)
  BY Facts DEF Task, TaskOK
<1>2. PICK gone \in BOOLEAN : gone = Says(s, "released")
  BY DEF Says
<1>3. PICK rs : rs = IF gone /\ W(s) # 0 THEN [recs EXCEPT ![W(s)].released = TRUE] ELSE recs
  OBVIOUS
<1>4. SameRegs(rs)
  <2>1. CASE gone /\ W(s) # 0
    <3>1. W(s) \in DOMAIN recs
      BY <1>1, <2>1, Facts DEF W
    <3>2. Marked(recs, rs)
      BY <1>3, <2>1, <3>1, Facts, MarksOnly
    <3> QED BY <3>2, KeptMarked DEF SameRegs
  <2>2. CASE ~(gone /\ W(s) # 0)
    BY <1>3, <2>2, SameNow
  <2> QED BY <2>1, <2>2
<1>5. Finish(s, task[s].flag, gone, rs)
  BY <1>2, <1>3 DEF Released
<1> QED BY <1>3, <1>4, <1>5

LEMMA ReleasedBasic == ASSUME Basic, NEW s \in Slots, Released(s) PROVE Basic'
<1>1. task[s].kind \in Detached /\ task[s].flag \in BOOLEAN
  BY Facts DEF Released, At, Task
<1>2. PICK gone, rs : gone \in BOOLEAN /\ SameRegs(rs) /\ Finish(s, task[s].flag, gone, rs)
  BY ReleasedRecs
<1>3. gen' = gen /\ col' \in Columns /\ pointer' \in BOOLEAN /\ UNCHANGED <<world, boot>>
  BY Facts DEF Released, Scalars
<1> QED BY <1>1, <1>2, <1>3, FinishBasic

\* A kill is over: its failure is noted, and the record may go.
LEMMA KilledBasic ==
  ASSUME Basic, NEW s \in Slots, KillOver(s), task[s].kind # "free",
         recs' = NoteKill(s) \/ recs' = Drop(NoteKill(s), W(s)),
         End(s), onBoard' \in BOOLEAN, UNCHANGED <<col, gen, pointer, world, boot>>
  PROVE  Basic'
<1>1. W(s) \in Nat
  BY Facts DEF W, Task
<1>2. RecsKept
  <2>1. SameRegs(NoteKill(s))
    BY NoteKills DEF SameRegs
  <2>2. CASE recs' = NoteKill(s)
    BY <2>1, <2>2 DEF SameRegs, RecsKept, FindWorker
  <2>3. CASE recs' = Drop(NoteKill(s), W(s))
    BY <1>1, <2>1, <2>3, FindDrop DEF SameRegs, RecsKept, FindWorker
  <2> QED BY <2>2, <2>3
<1>3. Scalars'
  BY <1>2, Facts DEF Scalars, RecsKept, world, boot
<1> QED BY <1>2, <1>3, EndsStep

LEMMA LateKilledBasic == ASSUME Basic, NEW s \in Slots, LateKilled(s) PROVE Basic'
<1>1. recs' = NoteKill(s) \/ recs' = Drop(NoteKill(s), W(s))
  BY DEF LateKilled
<1> QED BY <1>1, KilledBasic DEF LateKilled

LEMMA SweepKilledBasic == ASSUME Basic, NEW s \in Slots, SweepKilled(s) PROVE Basic'
<1>1. recs' = NoteKill(s) \/ recs' = Drop(NoteKill(s), W(s))
  BY DEF SweepKilled
<1>2. onBoard' \in BOOLEAN /\ UNCHANGED <<col, gen, pointer, world, boot>>
  BY Facts DEF SweepKilled, Scalars, cardVars
<1> QED BY <1>1, <1>2, KilledBasic DEF SweepKilled

LEMMA SweepVisitBasic == ASSUME Basic, NEW s \in Slots, SweepVisit(s) PROVE Basic'
<1>1. RecsKept /\ FindWorker' = FindWorker /\ gen' = gen
  BY KeptSame DEF SweepVisit, cardVars
<1>2. Scalars' /\ gen <= gen'
  BY <1>1, Facts DEF SweepVisit, Scalars, cardVars, world, RecsKept, Basic, Shape
<1>3. CASE task' = task
  BY <1>1, <1>2, <1>3, IdleStep
<1>4. CASE task' # task
  <2>1. PICK kind \in {"sweepOn", "sweepOff"}, flag \in BOOLEAN : Begin(s, kind, "kill", sweep, flag)
    <3>1. Begin(s, IF onBoard THEN "sweepOn" ELSE "sweepOff", "kill", sweep,
                IF onBoard THEN ~recs[sweep].released ELSE recs[sweep].killFailed)
      BY <1>4 DEF SweepVisit
    <3>2. (IF onBoard THEN ~recs[sweep].released ELSE recs[sweep].killFailed) \in BOOLEAN
      <4>1. recs[sweep] \in Rec
        BY Facts DEF SweepVisit, Scalars
      <4> QED BY <4>1 DEF Rec
    <3>3. (IF onBoard THEN "sweepOn" ELSE "sweepOff") \in {"sweepOn", "sweepOff"}
      OBVIOUS
    <3> QED BY <3>1, <3>2, <3>3
  <2>2. /\ kind \in Kinds /\ kind \notin AllOps \cup {"free"} /\ "kill" \in Pcs /\ "kill" \in StepsOf(kind)
        /\ sweep # 0 /\ sweep \in 0..Len(recs)
    BY Facts DEF Kinds, AllOps, Pcs, StepsOf, SweepVisit, Scalars
  <2> QED BY <1>1, <1>2, <2>1, <2>2, BeginsStep DEF AllOps
<1> QED BY <1>3, <1>4

LEMMA RestoreBasic == ASSUME Basic, Restore PROVE Basic'
<1>1. RecsKept /\ task' = task
  BY KeptSame DEF Restore
<1>2. gen <= gen' /\ Scalars'
  BY <1>1, WorkersAssumption DEF Restore, RestoredColumn, Scalars, Columns, world, boot, Basic, Shape
<1> QED BY <1>1, <1>2, IdleStep

LEMMA RestartBasic == ASSUME Basic, Restart PROVE Basic'
<1>1. RecsKept
  BY KeptSame DEF Restart
<1>2. /\ onBoard \in BOOLEAN /\ col \in Columns /\ gen \in 1..MaxGens /\ pointer \in BOOLEAN
      /\ pane \in {"none", "stopped", "shell", "live"} /\ ground \in {"none", "clean", "dirty"}
      /\ restarts \in 0..MaxRestarts /\ FindWorker \in 0..Len(recs) /\ Len(recs) <= MaxRecs
  BY Holder DEF Basic, Shape
<1>3. Scalars'
  BY <1>2, WorkersAssumption DEF Restart, Scalars, cardVars, world
<1>4. TaskOK(Free)'
  BY <1>1 DEF TaskOK, Free, Task, Kinds, AllOps, Pcs, Answers, StepsOf, AnswersTo, Delays, Bound, Basic, Shape, RecsKept, Restart, cardVars
<1>5. task' \in [Slots -> Task] /\ \A q \in Slots : task'[q] = Free
  <2>1. Free \in Task
    BY DEF Free, Task, Kinds, Pcs, Answers
  <2> QED BY <2>1 DEF Restart
<1>6. \A q \in Slots : TaskOK(task[q])' /\ task'[q].kind = "free"
  <2> SUFFICES ASSUME NEW q \in Slots PROVE TaskOK(task[q])' /\ task'[q].kind = "free"
    OBVIOUS
  <2>1. task'[q] = Free
    BY <1>5
  <2> QED BY <1>4, <2>1 DEF TaskOK, Free
<1>7. Shape'
  BY <1>1, <1>2, <1>3, <1>5, <1>6 DEF Shape, Scalars, RecsKept
<1> QED BY <1>1, <1>6, <1>7 DEF Basic, Alone, RecsKept, OneStart, SeenBy

LEMMA WorldBasic == ASSUME Basic, AgentExits \/ Work \/ UNCHANGED vars PROVE Basic'
<1>1. RecsKept /\ task' = task /\ gen' = gen
  BY KeptSame DEF AgentExits, Work, vars, cardVars
<1>2. gen <= gen' /\ Scalars'
  BY <1>1 DEF AgentExits, Work, vars, Scalars, cardVars, boot, Basic, Shape
<1> QED BY <1>1, <1>2, IdleStep

LEMMA BasicNext == Basic /\ [Next]_vars => Basic'
<1> SUFFICES ASSUME Basic, [Next]_vars PROVE Basic'
  OBVIOUS
<1>1. ASSUME NEW s \in Slots, Begins(s) PROVE Basic'
  BY <1>1, StartBeginBasic, ResumeBeginBasic, SendBeginBasic, PauseBeginBasic, ParkBeginBasic,
     WatchBeginBasic, HandoffBeginBasic, ArchiveBeginBasic, MergeBeginBasic DEF Begins
<1>2. ASSUME NEW s \in Slots, Continues(s) PROVE Basic'
  BY <1>2, AnswerBasic, KillVerifyBasic, StartAliveBasic, StartKilledBasic, StartReleasedBasic,
     StartStaleBasic, StartCreatedBasic, StartSpawnedBasic, StartUndoneBasic, ResumedBasic,
     ResumeUndoneBasic, SendAliveBasic, PauseKilledBasic, ParkAliveBasic, WatchAliveBasic,
     HandoffMovedBasic, ArchivedBasic, DetachedKilledBasic, HooksRanBasic, TornDownBasic,
     ReleasedBasic, LateKilledBasic, SweepKilledBasic DEF Continues
<1>3. ASSUME NEW s \in Slots, SweepVisit(s) PROVE Basic'
  BY <1>3, SweepVisitBasic
<1> QED BY <1>1, <1>2, <1>3, WorkerDoneBasic, RestoreBasic, RestartBasic, WorldBasic DEF Next

LEMMA BasicAlways == Spec => []Basic
BY BasicInit, BasicNext, PTL DEF Spec

\* Type correctness: the handlers in flight hold records that exist, and no counter passes its bound.
THEOREM TypeCorrect == Spec => []TypeOK
<1>1. Basic => TypeOK
  <2> SUFFICES ASSUME Basic PROVE TypeOK
    OBVIOUS
  <2>1. \A s \in Slots : /\ task[s].kind \in Kinds /\ task[s].w \in {0} \cup DOMAIN recs
                         /\ task[s].kind = "free" => task[s] = Free
    <3> SUFFICES ASSUME NEW s \in Slots
                 PROVE  /\ task[s].kind \in Kinds /\ task[s].w \in {0} \cup DOMAIN recs
                        /\ task[s].kind = "free" => task[s] = Free
      OBVIOUS
    <3>1. task[s].w \in Nat /\ task[s].w <= Len(recs) /\ recs \in Seq(Rec)
      BY Facts DEF Task, TaskOK
    <3>2. task[s].kind \in Kinds
      BY Facts DEF Task
    <3>3. task[s].kind = "free" => task[s] = Free
      BY Facts DEF TaskOK
    <3> QED BY <3>1, <3>2, <3>3
  <2>2. sweep \in {0} \cup DOMAIN recs
    BY DEF Basic, Shape
  <2> QED BY <2>1, <2>2 DEF Basic, Shape, TypeOK
<1> QED BY <1>1, BasicAlways, PTL

\* One worker per card: board.workers never holds two records of the card, whatever
\* handlers overlap, kills fail or restarts come (findWorker 3030, startCard 2434).
THEOREM OneRecordEach == Spec => []OneRecord
<1>1. Basic => OneRecord
  BY DEF Basic, Alone, Single, OneRecord
<1> QED BY <1>1, BasicAlways, PTL

-----------------------------------------------------------------------------
(* A handler's step is its own: the others' tasks stay as they are.        *)

Act(s) == Begins(s) \/ Continues(s) \/ SweepVisit(s)

LEMMA OthersBegin == ASSUME NEW s \in Slots, Begins(s) \/ SweepVisit(s), NEW q \in Slots, q # s, task \in [Slots -> Task] PROVE task'[q] = task[q]
<1>1. ASSUME NEW kind, NEW pc, NEW w, NEW flag, Begin(s, kind, pc, w, flag) PROVE task'[q] = task[q]
  BY <1>1 DEF Begin
<1>2. CASE StartBegin(s)
  BY <1>1, <1>2 DEF StartBegin
<1>3. CASE ResumeBegin(s) \/ SendBegin(s) \/ WatchBegin(s) \/ HandoffBegin(s) \/ ArchiveBegin(s) \/ MergeBegin(s)
  BY <1>1, <1>3 DEF ResumeBegin, SendBegin, WatchBegin, HandoffBegin, ArchiveBegin, MergeBegin
<1>4. CASE PauseBegin(s) \/ ParkBegin(s) \/ SweepVisit(s)
  BY <1>1, <1>4 DEF PauseBegin, ParkBegin, SweepVisit
<1> QED BY <1>2, <1>3, <1>4 DEF Begins

LEMMA OthersGo == ASSUME NEW s \in Slots, Continues(s), NEW q \in Slots, q # s, task \in [Slots -> Task] PROVE task'[q] = task[q]
<1>1. ASSUME NEW pc, NEW flag, GoTo(s, pc, flag) PROVE task'[q] = task[q]
  BY <1>1 DEF GoTo
<1>2. ASSUME NEW pc, Go(s, pc) PROVE task'[q] = task[q]
  BY <1>1, <1>2 DEF Go
<1>3. ASSUME End(s) PROVE task'[q] = task[q]
  BY <1>3 DEF End
<1>4. ASSUME NEW killed, NEW released, NEW rs, Finish(s, killed, released, rs) PROVE task'[q] = task[q]
  BY <1>3, <1>4 DEF Finish
<1>5. ASSUME NEW killed, NEW rs, EnterRelease(s, killed, rs) PROVE task'[q] = task[q]
  BY <1>1, <1>4, <1>5 DEF EnterRelease
<1>6. ASSUME NEW killed, NEW rs, AfterKill(s, killed, rs) PROVE task'[q] = task[q]
  BY <1>1, <1>5, <1>6 DEF AfterKill
<1>7. CASE Answer(s)
  BY <1>7 DEF Answer
<1>8. CASE KillVerify(s) \/ StartAlive(s) \/ StartKilled(s) \/ StartReleased(s) \/ StartStale(s)
           \/ StartCreated(s) \/ StartSpawned(s) \/ StartUndone(s)
  BY <1>2, <1>3, <1>8 DEF KillVerify, StartAlive, StartKilled, StartReleased, StartStale, StartCreated,
     StartSpawned, StartUndone
<1>9. CASE Resumed(s) \/ ResumeUndone(s) \/ SendAlive(s) \/ PauseKilled(s) \/ ParkAlive(s) \/ WatchAlive(s)
           \/ LateKilled(s) \/ SweepKilled(s)
  BY <1>2, <1>3, <1>9 DEF Resumed, ResumeUndone, SendAlive, PauseKilled, ParkAlive, WatchAlive, LateKilled, SweepKilled
<1>10. CASE HandoffMoved(s) \/ Archived(s) \/ DetachedKilled(s) \/ HooksRan(s) \/ TornDown(s) \/ Released(s)
  BY <1>2, <1>3, <1>4, <1>5, <1>6, <1>10 DEF HandoffMoved, Archived, DetachedKilled, HooksRan, TornDown, Released
<1> QED BY <1>7, <1>8, <1>9, <1>10 DEF Continues

LEMMA Others == ASSUME Basic, NEW s \in Slots, Act(s), NEW q \in Slots, q # s PROVE task'[q] = task[q]
BY OthersBegin, OthersGo DEF Act, Basic, Shape

\* The pane: only an answer or the agent's exit changes it.
LEMMA PaneOf == ASSUME NEW s \in Slots, Act(s), ~Answer(s) PROVE pane' = pane
<1>1. CASE Begins(s) \/ SweepVisit(s)
  BY <1>1 DEF Begins, SweepVisit, StartBegin, ResumeBegin, SendBegin, PauseBegin, ParkBegin, WatchBegin,
     HandoffBegin, ArchiveBegin, MergeBegin, world
<1>2. CASE Continues(s)
  BY <1>2 DEF Continues, KillVerify, StartAlive, StartKilled, StartReleased, StartStale, StartCreated,
     StartSpawned, StartUndone, Resumed, ResumeUndone, SendAlive, PauseKilled, ParkAlive, WatchAlive,
     LateKilled, SweepKilled, HandoffMoved, Archived, DetachedKilled, HooksRan, TornDown, Released, world
<1> QED BY <1>1, <1>2 DEF Act

\* Only a spawn, or a resume, makes the pane a live agent.
LEMMA LiveBy ==
  ASSUME Basic, NEW s \in Slots, Act(s), "resume" \notin Ops, pane' = "live", pane # "live"
  PROVE  Answer(s) /\ task[s].kind = "start" /\ task[s].pc = "spawn" /\ FindWorker = 0 /\ task'[s].ans = "ok"
<1>1. Answer(s) /\ task[s].ans = "wait"
  BY PaneOf DEF Answer
<1>2. PICK o \in Outcomes(task[s].pc) : task' = [task EXCEPT ![s].ans = o.ans] /\ pane' = o.pane
  BY <1>1 DEF Answer
<1>3. task[s] \in Task /\ TaskOK(task[s]) /\ SeenBy(task[s])
  BY Facts
<1>4. task[s].kind # "resume"
  BY <1>3 DEF TaskOK, AllOps
<1>5. task[s].pc # "resume"
  BY <1>3, <1>4 DEF TaskOK, StepsOf, Kinds, AllOps, Task
<1>6. task[s].pc \in Pcs \ {"none", "body", "hooks", "teardown"}
  BY <1>1, <1>3 DEF TaskOK, AnswersTo, Delays, Task
<1>7. task[s].pc = "spawn" /\ o.ans = "ok"
  BY <1>2, <1>5, <1>6 DEF Outcomes, Outcome, Pcs
<1>8. task[s].kind = "start"
  BY <1>3, <1>7 DEF TaskOK, StepsOf, Kinds, AllOps, Task
<1>9. task'[s].ans = "ok"
  BY <1>2, <1>3, <1>7 DEF Basic, Shape
<1> QED BY <1>1, <1>3, <1>7, <1>8, <1>9 DEF SeenBy

-----------------------------------------------------------------------------
(* How the record that holds the card changes.                             *)

\* The kill of the record in hand is over, verified, and its handler goes on from there.
Trusts(t) ==
  \/ t.pc = "verify" /\ t.ans = "down"
  \/ t.kind = "start" /\ t.pc = "release"
  \/ t.kind \in Detached /\ t.pc \in {"hooks", "teardown", "release"} /\ t.flag
Hers(t) == t.w # 0 /\ FindWorker = t.w

\* A boot sweep that drops a record off the board on its second kill.
SecondKill(t) == t.kind = "sweepOff" /\ t.flag

Unbinds(s) == Hers(task[s]) /\ FindWorker' = 0 /\ (Trusts(task[s]) \/ SecondKill(task[s]))
Binds(s) ==
  /\ StartSpawned(s) /\ task[s].kind = "start" /\ task[s].pc = "spawn" /\ task[s].ans = "ok" /\ onBoard
  /\ FindWorker = 0 /\ FindWorker' = Len(recs) + 1 /\ Len(recs) \in Nat /\ task'[s] = Free

LEMMA WorkerDoneFind == ASSUME Basic, WorkerDone PROVE FindWorker' = FindWorker
<1>1. FindWorker \in DOMAIN recs
  BY Holder DEF WorkerDone
<1>2. Marked(recs, recs')
  BY <1>1, MarksOnly DEF WorkerDone, Basic, Shape
<1> QED BY <1>2, KeptMarked DEF FindWorker

LEMMA FinishFind ==
  ASSUME Basic, NEW s \in Slots, NEW killed, NEW released, NEW rs, SameRegs(rs), Finish(s, killed, released, rs)
  PROVE  FindWorker' = FindWorker \/ (killed /\ Hers(task[s]) /\ FindWorker' = 0)
<1>1. task[s].w \in Nat
  BY Facts DEF Task
<1>2. recs' = rs \/ (killed /\ recs' = Drop(rs, task[s].w))
  BY DEF Finish
<1>3. FindIn(Drop(rs, task[s].w)) = IF task[s].w = FindWorker THEN 0 ELSE FindWorker
  BY <1>1, FindDrop DEF SameRegs
<1> QED BY <1>2, <1>3 DEF SameRegs, FindWorker, Hers

LEMMA EnterReleaseFind ==
  ASSUME Basic, NEW s \in Slots, NEW killed, NEW rs, SameRegs(rs), EnterRelease(s, killed, rs)
  PROVE  FindWorker' = FindWorker \/ (killed /\ Hers(task[s]) /\ FindWorker' = 0)
BY FinishFind DEF EnterRelease, SameRegs, FindWorker

LEMMA AfterKillFind ==
  ASSUME Basic, NEW s \in Slots, NEW killed, NEW rs, SameRegs(rs), AfterKill(s, killed, rs)
  PROVE  FindWorker' = FindWorker \/ (killed /\ Hers(task[s]) /\ FindWorker' = 0)
BY EnterReleaseFind DEF AfterKill, SameRegs, FindWorker

LEMMA KilledFind ==
  ASSUME Basic, NEW s \in Slots, KillOver(s), task[s].kind # "free",
         recs' = NoteKill(s) \/ ((Verified(s) \/ SecondKill(task[s])) /\ recs' = Drop(NoteKill(s), W(s)))
  PROVE  FindWorker' = FindWorker \/ Unbinds(s)
<1>1. W(s) \in Nat /\ SameRegs(NoteKill(s)) /\ task[s] \in Task /\ TaskOK(task[s])
  BY NoteKills, Facts DEF SameRegs, W, Task
<1>2. CASE recs' = NoteKill(s)
  BY <1>1, <1>2 DEF SameRegs, FindWorker
<1>3. CASE (Verified(s) \/ SecondKill(task[s])) /\ recs' = Drop(NoteKill(s), W(s))
  <2>1. FindWorker' = IF W(s) = FindWorker THEN 0 ELSE FindWorker
    BY <1>1, <1>3, FindDrop DEF SameRegs, FindWorker
  <2>2. Verified(s) => Trusts(task[s])
    BY <1>1 DEF Verified, Says, KillOver, Trusts, TaskOK
  <2> QED BY <1>3, <2>1, <2>2 DEF Unbinds, Hers, W
<1> QED BY <1>2, <1>3

LEMMA FindNext ==
  ASSUME Basic, NEW s \in Slots, Act(s)
  PROVE  FindWorker' = FindWorker \/ Binds(s) \/ Unbinds(s)
<1>1. CASE recs' = recs
  BY <1>1, KeptSame
<1>2. CASE PauseBegin(s) \/ Resumed(s) \/ SendAlive(s) \/ PauseKilled(s) \/ WatchAlive(s) \/ StartKilled(s)
  BY <1>2, PauseBeginBasic, ResumedBasic, SendAliveBasic, PauseKilledBasic, WatchAliveBasic, StartKilledBasic
<1>3. CASE StartReleased(s)
  <2>1. recs' = recs \/ recs' = Drop(recs, task[s].w)
    BY <1>3 DEF StartReleased, W
  <2>2. task[s].w \in Nat /\ Trusts(task[s])
    BY <1>3, Facts DEF StartReleased, Trusts, At, Task
  <2>3. FindIn(Drop(recs, task[s].w)) = IF task[s].w = FindWorker THEN 0 ELSE FindWorker
    BY <2>2, Facts, FindDrop DEF FindWorker
  <2>4. CASE recs' = Drop(recs, task[s].w)
    BY <2>2, <2>3, <2>4 DEF Unbinds, Hers, FindWorker
  <2> QED BY <1>1, <2>1, <2>4
<1>4. CASE StartSpawned(s)
  <2>1. CASE recs' = recs
    BY <2>1, <1>1
  <2>2. CASE recs' # recs
    <3>1. Says(s, "ok") /\ onBoard /\ recs' = Append(recs, NewRec) /\ task' = [task EXCEPT ![s] = Free]
      BY <1>4, <2>2 DEF StartSpawned, End
    <3>2. task[s].kind = "start" /\ task[s].pc = "spawn" /\ FindWorker = 0 /\ task'[s] = Free /\ Len(recs) \in Nat
      BY <1>4, <3>1, Facts DEF StartSpawned, At, SeenBy, Basic, Shape
    <3>3. FindWorker' = Len(recs) + 1
      BY <3>1, <3>2, Facts, FindAppend DEF FindWorker
    <3> QED BY <1>4, <3>1, <3>2, <3>3 DEF Binds, Says
  <2> QED BY <2>1, <2>2
<1>5. CASE HandoffMoved(s)
  <2>1. recs' = recs \/ AfterKill(s, FALSE, recs)
    BY <1>5 DEF HandoffMoved
  <2> QED BY <1>1, <2>1, SameNow, AfterKillFind
<1>6. CASE DetachedKilled(s)
  <2>1. task[s].kind # "free" /\ KillOver(s) /\ AfterKill(s, Verified(s), NoteKill(s)) /\ TaskOK(task[s])
    BY <1>6, Facts DEF DetachedKilled, Detached
  <2>2. SameRegs(NoteKill(s))
    BY <2>1, NoteKills DEF SameRegs
  <2>3. Verified(s) => Trusts(task[s])
    BY <2>1 DEF Verified, Says, KillOver, Trusts, TaskOK
  <2> QED BY <2>1, <2>2, <2>3, AfterKillFind DEF Unbinds
<1>7. CASE HooksRan(s)
  <2>1. EnterRelease(s, task[s].flag, recs) /\ (task[s].flag => Trusts(task[s]))
    BY <1>7 DEF HooksRan, At, Trusts
  <2> QED BY <2>1, SameNow, EnterReleaseFind DEF Unbinds
<1>8. CASE TornDown(s)
  <2>1. recs' = recs \/ Finish(s, task[s].flag, FALSE, recs)
    BY <1>8 DEF TornDown
  <2>2. task[s].flag => Trusts(task[s])
    BY <1>8 DEF TornDown, At, Trusts
  <2>3. CASE Finish(s, task[s].flag, FALSE, recs)
    <3>1. FindWorker' = FindWorker \/ (task[s].flag /\ Hers(task[s]) /\ FindWorker' = 0)
      BY <2>3, SameNow, FinishFind
    <3> QED BY <2>2, <3>1 DEF Unbinds
  <2> QED BY <1>1, <2>1, <2>3
<1>9. CASE Released(s)
  <2>1. PICK gone, rs : SameRegs(rs) /\ Finish(s, task[s].flag, gone, rs)
    BY <1>9, ReleasedRecs
  <2>2. task[s].flag => Trusts(task[s])
    BY <1>9 DEF Released, At, Trusts
  <2> QED BY <2>1, <2>2, FinishFind DEF Unbinds
<1>10. CASE LateKilled(s) \/ SweepKilled(s)
  <2>1. recs' = NoteKill(s) \/ ((Verified(s) \/ SecondKill(task[s])) /\ recs' = Drop(NoteKill(s), W(s)))
    BY <1>10 DEF LateKilled, SweepKilled, SecondKill
  <2>2. KillOver(s) /\ task[s].kind # "free"
    BY <1>10 DEF LateKilled, SweepKilled
  <2> QED BY <2>1, <2>2, KilledFind
<1>11. CASE Begins(s) /\ ~PauseBegin(s)
  <2>1. recs' = recs
    BY <1>11 DEF Begins, StartBegin, ResumeBegin, SendBegin, ParkBegin, WatchBegin, HandoffBegin, ArchiveBegin, MergeBegin
  <2> QED BY <2>1, <1>1
<1>12. CASE SweepVisit(s) \/ Answer(s) \/ KillVerify(s) \/ StartAlive(s) \/ StartStale(s) \/ StartCreated(s)
            \/ StartUndone(s) \/ ResumeUndone(s) \/ ParkAlive(s) \/ Archived(s)
  <2>1. recs' = recs
    BY <1>12 DEF SweepVisit, Answer, KillVerify, StartAlive, StartStale, StartCreated, StartUndone,
       ResumeUndone, ParkAlive, Archived
  <2> QED BY <2>1, <1>1
<1>13. CASE Continues(s)
  BY <1>2, <1>3, <1>4, <1>5, <1>6, <1>7, <1>8, <1>9, <1>10, <1>12, <1>13, Zenon DEF Continues
<1>14. CASE Begins(s)
  BY <1>2, <1>11, <1>14
<1> QED BY <1>12, <1>13, <1>14 DEF Act

\* A handler's next step as a record.
LEMMA GoesTo ==
  ASSUME Basic, NEW s \in Slots, NEW pc, NEW flag, GoTo(s, pc, flag)
  PROVE  /\ task'[s].kind = task[s].kind /\ task'[s].pc = pc /\ task'[s].ans = AwaitOf(pc)
         /\ task'[s].w = task[s].w /\ task'[s].gen = task[s].gen /\ task'[s].flag = flag
<1>1. task \in [Slots -> Task]
  BY DEF Basic, Shape
<1>2. task'[s] = [task[s] EXCEPT !.pc = pc, !.ans = AwaitOf(pc), !.flag = flag]
  BY <1>1 DEF GoTo
<1>3. task[s] \in Task
  BY <1>1
<1> QED BY <1>2, <1>3 DEF Task

LEMMA AnswerAs ==
  ASSUME Basic, NEW s \in Slots, Answer(s)
  PROVE  /\ task'[s].kind = task[s].kind /\ task'[s].pc = task[s].pc /\ task'[s].w = task[s].w
         /\ task'[s].gen = task[s].gen /\ task'[s].flag = task[s].flag
         /\ recs' = recs /\ onBoard' = onBoard /\ col' = col /\ gen' = gen
<1>1. task[s] \in Task /\ task \in [Slots -> Task]
  BY Facts DEF Basic, Shape
<1>2. PICK o : task' = [task EXCEPT ![s].ans = o.ans]
  BY DEF Answer
<1>3. task'[s] = [task[s] EXCEPT !.ans = o.ans]
  BY <1>1, <1>2
<1>4. /\ task'[s].kind = task[s].kind /\ task'[s].pc = task[s].pc /\ task'[s].w = task[s].w
      /\ task'[s].gen = task[s].gen /\ task'[s].flag = task[s].flag
  BY <1>1, <1>3 DEF Task
<1> QED BY <1>4 DEF Answer, cardVars

LEMMA FinishAs ==
  ASSUME Basic, NEW s \in Slots, NEW killed, NEW released, NEW rs, Finish(s, killed, released, rs)
  PROVE  task'[s] = Free \/ (task[s].kind = "merge" /\ task'[s].kind = "late" /\ task'[s].pc = "kill")
<1>1. task[s] \in Task /\ task \in [Slots -> Task]
  BY Facts DEF Basic, Shape
<1>2. CASE End(s)
  BY <1>1, <1>2 DEF End
<1>3. CASE ~End(s)
  <2>1. /\ task' = [task EXCEPT ![s].kind = "late", ![s].w = FindIn(recs'), ![s].pc = "kill", ![s].ans = "wait"]
        /\ task[s].kind = "merge"
    BY <1>3 DEF Finish
  <2>2. task'[s] = [task[s] EXCEPT !.kind = "late", !.w = FindIn(recs'), !.pc = "kill", !.ans = "wait"]
    BY <1>1, <2>1
  <2>3. task'[s].kind = "late" /\ task'[s].pc = "kill"
    BY <1>1, <2>2 DEF Task
  <2> QED BY <2>1, <2>3
<1> QED BY <1>2, <1>3

\* What a handler is when it goes on: over, a merge's late kill, or itself at a later step.
GoesOn(s, pcs) ==
  /\ task'[s].kind = task[s].kind /\ task'[s].w = task[s].w /\ task'[s].gen = task[s].gen
  /\ task'[s].pc \in pcs
LEMMA ContinuesAs ==
  ASSUME Basic, NEW s \in Slots, Continues(s), ~Answer(s)
  PROVE  \/ task'[s] = Free
         \/ task[s].kind = "merge" /\ task'[s].kind = "late" /\ task'[s].pc = "kill"
         \/ /\ GoesOn(s, Pcs)
            /\ \/ KillVerify(s) /\ task'[s].flag = task[s].flag /\ task'[s].pc = "verify"
               \/ task[s].kind \in {"start", "resume"} \cup Detached /\ task'[s].ans = AwaitOf(task'[s].pc)
<1>1. task[s] \in Task /\ task \in [Slots -> Task]
  BY Facts DEF Basic, Shape
<1>2. ASSUME End(s) PROVE task'[s] = Free
  BY <1>1, <1>2 DEF End
<1>3. ASSUME NEW pc \in Pcs, NEW flag, GoTo(s, pc, flag)
      PROVE  GoesOn(s, Pcs) /\ task'[s].flag = flag /\ task'[s].pc = pc /\ task'[s].ans = AwaitOf(pc)
  BY <1>3, GoesTo DEF GoesOn
<1>4. ASSUME NEW pc \in Pcs, Go(s, pc)
      PROVE  GoesOn(s, Pcs) /\ task'[s].flag = task[s].flag /\ task'[s].pc = pc /\ task'[s].ans = AwaitOf(pc)
  BY <1>3, <1>4 DEF Go
<1>5. ASSUME NEW killed, NEW rs, EnterRelease(s, killed, rs), task[s].kind \in Detached
      PROVE  \/ task'[s] = Free
             \/ task[s].kind = "merge" /\ task'[s].kind = "late" /\ task'[s].pc = "kill"
             \/ GoesOn(s, Pcs) /\ task'[s].ans = AwaitOf(task'[s].pc)
  <2>1. CASE GoTo(s, "teardown", killed)
    BY <1>3, <2>1 DEF Pcs
  <2>2. CASE Finish(s, killed, FALSE, rs)
    BY <2>2, FinishAs
  <2> QED BY <1>5, <2>1, <2>2 DEF EnterRelease
<1>6. ASSUME NEW killed, NEW rs, AfterKill(s, killed, rs), task[s].kind \in Detached
      PROVE  \/ task'[s] = Free
             \/ task[s].kind = "merge" /\ task'[s].kind = "late" /\ task'[s].pc = "kill"
             \/ GoesOn(s, Pcs) /\ task'[s].ans = AwaitOf(task'[s].pc)
  <2>1. CASE GoTo(s, "hooks", killed)
    BY <1>3, <2>1 DEF Pcs
  <2>2. CASE EnterRelease(s, killed, rs)
    BY <1>5, <1>6, <2>2
  <2> QED BY <1>6, <2>1, <2>2 DEF AfterKill
<1>7. CASE KillVerify(s)
  BY <1>4, <1>7 DEF KillVerify, Pcs
<1>8. CASE StartAlive(s) \/ StartKilled(s) \/ StartReleased(s) \/ StartStale(s) \/ StartCreated(s) \/ StartSpawned(s)
           \/ StartUndone(s)
  <2>1. task[s].kind = "start"
    BY <1>8 DEF StartAlive, StartKilled, StartReleased, StartStale, StartCreated, StartSpawned, StartUndone, At
  <2>2. End(s) \/ \E pc \in {"kill", "release", "stale", "create", "spawn", "abortKill", "undo", "abort"} : Go(s, pc)
    BY <1>8 DEF StartAlive, StartKilled, StartReleased, StartStale, StartCreated, StartSpawned, StartUndone
  <2> QED BY <1>2, <1>4, <2>1, <2>2 DEF Pcs
<1>9. CASE Resumed(s)
  BY <1>2, <1>4, <1>9 DEF Resumed, At, Pcs
<1>10. CASE ResumeUndone(s) \/ SendAlive(s) \/ PauseKilled(s) \/ ParkAlive(s) \/ WatchAlive(s)
            \/ LateKilled(s) \/ SweepKilled(s)
  BY <1>2, <1>10 DEF ResumeUndone, SendAlive, PauseKilled, ParkAlive, WatchAlive, LateKilled, SweepKilled
<1>11. CASE HandoffMoved(s)
  <2>1. task[s].kind \in Detached
    BY <1>11 DEF HandoffMoved, At, Detached
  <2>2. End(s) \/ Go(s, "kill") \/ AfterKill(s, FALSE, recs)
    BY <1>11 DEF HandoffMoved
  <2> QED BY <1>2, <1>4, <1>6, <2>1, <2>2 DEF Pcs
<1>12. CASE Archived(s)
  <2>1. task[s].kind \in Detached
    BY <1>12 DEF Archived, At, Detached
  <2>2. Go(s, "kill") \/ Go(s, "hooks")
    BY <1>12 DEF Archived
  <2> QED BY <1>4, <2>1, <2>2 DEF Pcs
<1>13. CASE DetachedKilled(s)
  BY <1>6, <1>13 DEF DetachedKilled
<1>14. CASE HooksRan(s)
  BY <1>5, <1>14 DEF HooksRan, At
<1>15. CASE TornDown(s)
  <2>1. task[s].kind \in Detached
    BY <1>15 DEF TornDown, At
  <2>2. Go(s, "release") \/ Finish(s, task[s].flag, FALSE, recs)
    BY <1>15 DEF TornDown
  <2> QED BY <1>4, <2>1, <2>2, FinishAs DEF Pcs
<1>16. CASE Released(s)
  BY <1>16, ReleasedRecs, FinishAs
<1> QED BY <1>7, <1>8, <1>9, <1>10, <1>11, <1>12, <1>13, <1>14, <1>15, <1>16, Zenon DEF Continues

-----------------------------------------------------------------------------
(* A verified kill stays true: no handler but a start makes the pane live,  *)
(* and a start does so only where nobody is on the card.                   *)

TrustInv == \A s \in Slots : Trusts(task[s]) /\ Hers(task[s]) => pane # "live"

\* What a handler begins with.
LEMMA BegunAs ==
  ASSUME Basic, NEW s \in Slots, Begins(s) \/ SweepVisit(s), task'[s] # task[s]
  PROVE  /\ task[s] = Free
         /\ task'[s].ans = AwaitOf(task'[s].pc) /\ task'[s].gen = gen
         /\ \/ task'[s].kind = "start" /\ task'[s].pc \in {"alive", "stale", "create"} /\ StartBegin(s)
            \/ task'[s].kind \in {"resume", "send", "pause", "park", "watch"} /\ task'[s].pc \in {"resume", "alive", "pauseKill"}
            \/ task'[s].kind \in {"handoff", "archive"} /\ task'[s].pc = "body"
            \/ task'[s].kind = "merge" /\ task'[s].pc \in {"kill", "hooks"} /\ ~task'[s].flag
            \/ task'[s].kind \in {"sweepOn", "sweepOff"} /\ task'[s].pc = "kill" /\ SweepVisit(s)
<1>1. ASSUME NEW kind, NEW pc, NEW w, NEW flag, Begin(s, kind, pc, w, flag)
      PROVE  /\ task'[s].kind = kind /\ task'[s].pc = pc /\ task'[s].ans = AwaitOf(pc)
             /\ task'[s].gen = gen /\ task'[s].flag = flag
             /\ task[s] = Free
  <2>1. task'[s] = [kind |-> kind, pc |-> pc, ans |-> AwaitOf(pc), w |-> w, gen |-> gen, flag |-> flag]
    BY <1>1 DEF Begin, Basic, Shape
  <2> QED BY <1>1, <2>1 DEF Begin
<1>2. CASE StartBegin(s)
  <2>1. PICK pc \in {"alive", "stale", "create"} : Begin(s, "start", pc, FindWorker, FALSE)
    BY <1>2 DEF StartBegin
  <2> QED BY <1>1, <1>2, <2>1
<1>3. CASE ResumeBegin(s)
  <2>1. Begin(s, "resume", "resume", FindWorker, FALSE)
    BY <1>3 DEF ResumeBegin
  <2> QED BY <1>1, <2>1
<1>4. CASE SendBegin(s)
  <2>1. Begin(s, "send", "alive", FindWorker, FALSE)
    BY <1>4 DEF SendBegin
  <2> QED BY <1>1, <2>1
<1>5. CASE WatchBegin(s)
  <2>1. Begin(s, "watch", "alive", FindWorker, FALSE)
    BY <1>5 DEF WatchBegin
  <2> QED BY <1>1, <2>1
<1>6. CASE PauseBegin(s)
  <2>1. Begin(s, "pause", "pauseKill", FindWorker, FALSE)
    BY <1>6 DEF PauseBegin
  <2> QED BY <1>1, <2>1
<1>7. CASE ParkBegin(s)
  <2>1. Begin(s, "park", "alive", FindWorker, FALSE)
    BY <1>7 DEF ParkBegin
  <2> QED BY <1>1, <2>1
<1>8. CASE HandoffBegin(s)
  <2>1. PICK flag : Begin(s, "handoff", "body", FindWorker, flag)
    BY <1>8 DEF HandoffBegin
  <2> QED BY <1>1, <2>1
<1>9. CASE ArchiveBegin(s)
  <2>1. Begin(s, "archive", "body", FindWorker, FALSE)
    BY <1>9 DEF ArchiveBegin
  <2> QED BY <1>1, <2>1
<1>10. CASE MergeBegin(s)
  <2>1. PICK pc \in {"kill", "hooks"} : Begin(s, "merge", pc, FindWorker, FALSE)
    BY <1>10 DEF MergeBegin
  <2> QED BY <1>1, <2>1
<1>11. CASE SweepVisit(s)
  <2>1. PICK kind, flag : kind \in {"sweepOn", "sweepOff"} /\ Begin(s, kind, "kill", sweep, flag)
    BY <1>11 DEF SweepVisit
  <2> QED BY <1>1, <1>11, <2>1
<1> QED BY <1>2, <1>3, <1>4, <1>5, <1>6, <1>7, <1>8, <1>9, <1>10, <1>11 DEF Begins

LEMMA TrustedBegin ==
  ASSUME Basic, NEW s \in Slots, Begins(s) \/ SweepVisit(s), task'[s] # task[s]
  PROVE  ~Trusts(task'[s])
BY BegunAs DEF Trusts

\* What a step makes trusted was trusted before, or has just been verified.
LEMMA TrustedGo ==
  ASSUME Basic, NEW s \in Slots, Continues(s), Trusts(task'[s])
  PROVE  \/ Trusts(task[s]) /\ task'[s].w = task[s].w
         \/ Answer(s) /\ pane # "live" /\ pane' = pane
         \/ ~Hers(task[s]) /\ task'[s].w = task[s].w /\ recs' = recs
<1>1. task[s] \in Task /\ TaskOK(task[s]) /\ task \in [Slots -> Task]
  BY Facts DEF Basic, Shape
<1>2. ASSUME End(s) PROVE FALSE
  <2>1. task'[s] = Free
    BY <1>1, <1>2 DEF End
  <2> QED BY <2>1 DEF Free, Trusts
<1>3. ASSUME NEW pc, NEW flag, GoTo(s, pc, flag)
      PROVE  /\ task'[s].kind = task[s].kind /\ task'[s].pc = pc /\ task'[s].ans = AwaitOf(pc)
             /\ task'[s].w = task[s].w /\ task'[s].flag = flag
  BY <1>3, GoesTo
<1>4. ASSUME NEW pc, Go(s, pc) PROVE /\ pc = "release" \/ pc \in {"hooks", "teardown"}
                                     /\ pc \in {"hooks", "teardown"} => task[s].flag
                                     /\ pc = "release" => task[s].kind = "start" \/ task[s].flag
                                     /\ task'[s].w = task[s].w
  BY <1>3, <1>4 DEF Go, Trusts, AwaitOf, Delays
<1>5. ASSUME NEW killed, NEW released, NEW rs, Finish(s, killed, released, rs) PROVE FALSE
  <2>1. task' = [task EXCEPT ![s].kind = "late", ![s].w = FindIn(recs'), ![s].pc = "kill", ![s].ans = "wait"]
    BY <1>2, <1>5 DEF Finish
  <2>2. task'[s] = [task[s] EXCEPT !.kind = "late", !.w = FindIn(recs'), !.pc = "kill", !.ans = "wait"]
    BY <1>1, <2>1
  <2>3. task'[s].kind = "late" /\ task'[s].pc = "kill"
    BY <1>1, <2>2 DEF Task
  <2> QED BY <2>3 DEF Trusts
<1>6. ASSUME NEW killed, NEW rs, EnterRelease(s, killed, rs) PROVE killed /\ task'[s].w = task[s].w
  <2>1. GoTo(s, "teardown", killed)
    BY <1>5, <1>6 DEF EnterRelease
  <2>2. task'[s].flag = killed /\ task'[s].pc = "teardown" /\ task'[s].w = task[s].w
    BY <1>3, <2>1
  <2> QED BY <2>2 DEF Trusts
<1>7. ASSUME NEW killed, NEW rs, AfterKill(s, killed, rs) PROVE killed /\ task'[s].w = task[s].w
  <2>1. CASE EnterRelease(s, killed, rs)
    BY <1>6, <2>1
  <2>2. CASE GoTo(s, "hooks", killed)
    <3>1. task'[s].flag = killed /\ task'[s].pc = "hooks" /\ task'[s].w = task[s].w
      BY <1>3, <2>2
    <3> QED BY <3>1 DEF Trusts
  <2> QED BY <1>7, <2>1, <2>2 DEF AfterKill
<1>8. CASE Answer(s)
  <2>1. PICK o \in Outcomes(task[s].pc) : task' = [task EXCEPT ![s].ans = o.ans] /\ pane' = o.pane
    BY <1>8 DEF Answer
  <2>2. task'[s] = [task[s] EXCEPT !.ans = o.ans]
    BY <1>1, <2>1
  <2>3. /\ task'[s].kind = task[s].kind /\ task'[s].pc = task[s].pc /\ task'[s].ans = o.ans
        /\ task'[s].w = task[s].w /\ task'[s].flag = task[s].flag
    BY <1>1, <2>2 DEF Task
  <2>4. CASE task[s].pc = "verify"
    <3>1. o = Outcome(IF pane = "live" THEN "up" ELSE "down", pane, ground)
      BY <2>1, <2>4 DEF Outcomes
    <3>2. o.ans = "down" => pane # "live"
      BY <3>1 DEF Outcome
    <3>3. o.pane = pane
      BY <3>1 DEF Outcome
    <3>4. o.ans = "down"
      BY <2>3, <2>4 DEF Trusts
    <3> QED BY <1>8, <2>1, <3>2, <3>3, <3>4
  <2>5. CASE task[s].pc # "verify"
    BY <2>3, <2>5 DEF Trusts
  <2> QED BY <2>4, <2>5
<1>9. CASE StartKilled(s)
  <2>1. Verified(s) /\ Go(s, "release")
    BY <1>2, <1>9 DEF StartKilled
  <2>2. task[s].pc = "verify" /\ task[s].ans = "down"
    BY <1>1, <1>9, <2>1 DEF StartKilled, KillOver, Verified, Says, TaskOK, AnswersTo, Delays
  <2> QED BY <1>4, <2>1, <2>2 DEF Trusts
<1>10. CASE DetachedKilled(s)
  <2>1. Verified(s) /\ task'[s].w = task[s].w
    BY <1>7, <1>10 DEF DetachedKilled
  <2>2. task[s].pc = "verify" /\ task[s].ans = "down"
    BY <1>1, <1>10, <2>1 DEF DetachedKilled, KillOver, Verified, Says, TaskOK, AnswersTo, Delays
  <2> QED BY <2>1, <2>2 DEF Trusts
<1>11. CASE HooksRan(s)
  <2>1. task[s].flag /\ task'[s].w = task[s].w
    BY <1>6, <1>11 DEF HooksRan
  <2> QED BY <1>11, <2>1 DEF Trusts, HooksRan, At
<1>12. CASE TornDown(s)
  <2>1. Go(s, "release")
    BY <1>5, <1>12 DEF TornDown
  <2>2. task[s].kind \in Detached /\ task[s].pc = "teardown"
    BY <1>12 DEF TornDown, At
  <2>3. (task[s].kind = "start" \/ task[s].flag) /\ task'[s].w = task[s].w
    BY <1>4, <2>1
  <2> QED BY <2>2, <2>3 DEF Trusts, Detached
<1>13. CASE HandoffMoved(s)
  <2>1. CASE Go(s, "kill")
    BY <1>4, <2>1
  <2>2. CASE AfterKill(s, FALSE, recs)
    BY <1>7, <2>2
  <2> QED BY <1>2, <1>13, <2>1, <2>2 DEF HandoffMoved
<1>14. CASE Archived(s)
  <2>1. Go(s, IF Killable(W(s)) THEN "kill" ELSE "hooks")
    BY <1>14 DEF Archived
  <2>2. ~Killable(W(s)) /\ task'[s].w = task[s].w
    BY <1>4, <2>1
  <2> QED BY <1>14, <2>2 DEF Archived, Killable, Hers, W
<1>15. CASE Released(s)
  BY <1>5, <1>15, ReleasedRecs
<1>16. CASE KillVerify(s) \/ StartAlive(s) \/ StartReleased(s) \/ StartStale(s) \/ StartCreated(s) \/ StartSpawned(s)
            \/ StartUndone(s)
  <2>1. End(s) \/ \E pc \in {"verify", "kill", "stale", "create", "spawn", "abortKill", "undo", "abort"} : Go(s, pc)
    BY <1>16 DEF KillVerify, StartAlive, StartReleased, StartStale, StartCreated, StartSpawned, StartUndone
  <2> QED BY <1>2, <1>4, <2>1
<1>17. CASE Resumed(s) \/ ResumeUndone(s) \/ SendAlive(s) \/ PauseKilled(s) \/ ParkAlive(s) \/ WatchAlive(s)
            \/ LateKilled(s) \/ SweepKilled(s)
  <2>1. End(s) \/ Go(s, "abortKill")
    BY <1>17 DEF Resumed, ResumeUndone, SendAlive, PauseKilled, ParkAlive, WatchAlive, LateKilled, SweepKilled
  <2> QED BY <1>2, <1>4, <2>1
<1> QED BY <1>8, <1>9, <1>10, <1>11, <1>12, <1>13, <1>14, <1>15, <1>16, <1>17, Zenon DEF Continues

LEMMA TrustInit == Init => TrustInv
BY DEF Init, TrustInv, Trusts, Free

LEMMA TrustNext ==
  ASSUME Basic, Basic', TrustInv, [Next]_vars, "resume" \notin Ops
  PROVE  TrustInv'
<1>1. ASSUME NEW s \in Slots, Act(s) PROVE TrustInv'
  <2> SUFFICES ASSUME NEW q \in Slots, Trusts(task'[q]), Hers(task[q])' PROVE pane' # "live"
    BY DEF TrustInv
  <2>1. /\ FindWorker' # 0 /\ FindWorker' = task'[q].w /\ task'[q].w # 0
    BY DEF Hers
  <2>2. CASE FindWorker' = FindWorker
    <3>1. pane' = "live" => pane = "live"
      BY <1>1, <2>1, <2>2, LiveBy
    <3>2. CASE q # s
      <4>1. task'[q] = task[q]
        BY <1>1, <3>2, Others
      <4> QED BY <2>1, <2>2, <3>1, <4>1 DEF TrustInv, Hers
    <3>3. CASE q = s
      <4>1. CASE task'[q] = task[q]
        BY <2>1, <2>2, <3>1, <4>1 DEF TrustInv, Hers
      <4>2. CASE task'[q] # task[q]
        <5>1. Continues(s)
          BY <1>1, <3>3, <4>2, TrustedBegin DEF Act
        <5>2. \/ Trusts(task[s]) /\ task'[s].w = task[s].w
              \/ pane' # "live"
              \/ ~Hers(task[s]) /\ task'[s].w = task[s].w
          BY <3>3, <5>1, TrustedGo
        <5>3. CASE task'[s].w = task[s].w
          <6>1. Hers(task[s])
            BY <2>1, <2>2, <3>3, <5>3 DEF Hers
          <6>2. Trusts(task[s]) => pane # "live"
            BY <6>1 DEF TrustInv
          <6>3. CASE Trusts(task[s])
            BY <3>1, <6>2, <6>3
          <6>4. CASE ~Trusts(task[s])
            BY <5>2, <6>1, <6>4
          <6> QED BY <6>3, <6>4
        <5> QED BY <5>2, <5>3
      <4> QED BY <4>1, <4>2
    <3> QED BY <3>2, <3>3
  <2>3. CASE Binds(s)
    <3>1. q # s
      BY <2>3 DEF Binds, Trusts, Free
    <3>2. task'[q] = task[q] /\ task[q].w <= Len(recs) /\ task[q].w \in Nat
      BY <1>1, <3>1, Others, Facts DEF TaskOK, Task
    <3>3. FindWorker' = Len(recs) + 1 /\ Len(recs) \in Nat
      BY <2>3 DEF Binds
    <3> QED BY <2>1, <3>2, <3>3
  <2>4. CASE Unbinds(s)
    BY <2>1, <2>4 DEF Unbinds
  <2> QED BY <1>1, <2>2, <2>3, <2>4, FindNext
<1>2. CASE WorkerDone
  <2>1. FindWorker' = FindWorker
    BY <1>2, WorkerDoneFind
  <2> QED BY <1>2, <2>1 DEF TrustInv, Hers, Trusts, WorkerDone, world
<1>3. CASE Restore \/ AgentExits \/ Work \/ UNCHANGED vars
  <2>1. FindWorker' = FindWorker /\ task' = task /\ (pane' = "live" => pane = "live")
    BY <1>3, KeptSame DEF Restore, AgentExits, Work, vars, cardVars, world
  <2> QED BY <2>1 DEF TrustInv, Hers, Trusts
<1>4. CASE Restart
  <2>1. task' = [s \in Slots |-> Free]
    BY <1>4 DEF Restart
  <2> QED BY <2>1 DEF TrustInv, Trusts, Free
<1> QED BY <1>1, <1>2, <1>3, <1>4 DEF Next, Act

-----------------------------------------------------------------------------
(* Whom the boot sweep gives up on.                                        *)

Sure == "resume" \notin Ops /\ (MaxRestarts = 0 \/ Ops \cap {"restore", "send"} = {})

\* A sweep is at work only after a restart; the one that may drop a record unasked saw
\* the card off the board, where a kill of its worker had failed.
SweepInv ==
  /\ MaxRestarts = 0 => \A s \in Slots : task[s].kind \notin {"sweepOn", "sweepOff"}
  /\ \A s \in Slots : SecondKill(task[s]) /\ Hers(task[s]) =>
       ~onBoard /\ (recs[task[s].w].killFailed \/ pane # "live")

LEMMA SweepInit == Init => SweepInv
BY DEF Init, SweepInv, SecondKill, Free


\* A sweep's task was there before, or begins now.
LEMMA SweepFrom ==
  ASSUME Basic, NEW s \in Slots, Act(s), task'[s].kind \in {"sweepOn", "sweepOff"}, task'[s] # task[s]
  PROVE  \/ SweepVisit(s)
         \/ /\ recs' = recs /\ onBoard' = onBoard
            /\ task'[s].kind = task[s].kind /\ task'[s].w = task[s].w /\ task'[s].flag = task[s].flag
<1>1. CASE Begins(s) \/ SweepVisit(s)
  BY <1>1, BegunAs
<1>2. CASE Answer(s)
  BY <1>2, AnswerAs
<1>3. CASE Continues(s) /\ ~Answer(s)
  <2>1. task'[s].kind # "free" /\ task'[s].kind \notin {"late", "start", "resume"} \cup Detached
    BY DEF Detached
  <2>2. KillVerify(s) /\ task'[s].flag = task[s].flag /\ GoesOn(s, Pcs)
    BY <1>3, <2>1, ContinuesAs DEF Free, GoesOn
  <2> QED BY <2>2 DEF GoesOn, KillVerify, cardVars
<1> QED BY <1>1, <1>2, <1>3 DEF Act

\* What off the board stays off it, but for a restore.
LEMMA OffBoard == ASSUME NEW s \in Slots, Act(s), ~onBoard PROVE ~onBoard'
<1>1. CASE Begins(s) \/ SweepVisit(s)
  BY <1>1 DEF Begins, SweepVisit, StartBegin, ResumeBegin, SendBegin, PauseBegin, ParkBegin, WatchBegin,
     HandoffBegin, ArchiveBegin, MergeBegin, cardVars
<1>2. ASSUME NEW killed, NEW released, NEW rs, Finish(s, killed, released, rs) PROVE ~onBoard'
  BY <1>2 DEF Finish
<1>3. ASSUME NEW killed, NEW rs, EnterRelease(s, killed, rs) PROVE ~onBoard'
  BY <1>2, <1>3 DEF EnterRelease
<1>4. ASSUME NEW killed, NEW rs, AfterKill(s, killed, rs) PROVE ~onBoard'
  BY <1>3, <1>4 DEF AfterKill
<1>5. CASE HandoffMoved(s) \/ Archived(s) \/ DetachedKilled(s) \/ HooksRan(s) \/ TornDown(s) \/ Released(s)
  BY <1>2, <1>3, <1>4, <1>5 DEF HandoffMoved, Archived, DetachedKilled, HooksRan, TornDown, Released
<1>6. CASE Continues(s) /\ ~(HandoffMoved(s) \/ Archived(s) \/ DetachedKilled(s) \/ HooksRan(s) \/ TornDown(s) \/ Released(s))
  BY <1>6 DEF Continues, Answer, KillVerify, StartAlive, StartKilled, StartReleased, StartStale, StartCreated,
     StartSpawned, StartUndone, Resumed, ResumeUndone, SendAlive, PauseKilled, ParkAlive, WatchAlive,
     LateKilled, SweepKilled, cardVars
<1> QED BY <1>1, <1>5, <1>6 DEF Act

\* A record that holds the card keeps the mark of a failed kill until one is verified.
LEMMA MarkFields ==
  ASSUME NEW rs \in Seq(Rec), NEW w \in DOMAIN rs, NEW r \in DOMAIN rs, rs[r].killFailed
  PROVE  /\ \A b \in BOOLEAN : b \/ r # w => [rs EXCEPT ![w].killFailed = b][r].killFailed
         /\ [rs EXCEPT ![w].released = TRUE][r].killFailed
         /\ [rs EXCEPT ![w].flagged = TRUE][r].killFailed
         /\ [rs EXCEPT ![w].paused = TRUE][r].killFailed
         /\ [rs EXCEPT ![w].paused = FALSE][r].killFailed
         /\ [rs EXCEPT ![w].expectExit = FALSE][r].killFailed
         /\ [rs EXCEPT ![w].paused = TRUE, ![w].expectExit = TRUE][r].killFailed
<1>1. PICK u \in Rec : u = rs[w]
  OBVIOUS
<1>2. CASE r # w
  BY <1>2
<1>3. CASE r = w
  <2>1. u.killFailed
    BY <1>1, <1>3
  <2>2. ASSUME NEW b \in BOOLEAN, b PROVE [rs EXCEPT ![w].killFailed = b][r].killFailed
    <3>1. [rs EXCEPT ![w].killFailed = TRUE][r].killFailed
      BY <1>1, <1>3 DEF Rec
    <3>2. b = TRUE
      BY <2>2
    <3> QED BY <3>1, <3>2
  <2>3. [rs EXCEPT ![w].released = TRUE][r].killFailed /\ [rs EXCEPT ![w].flagged = TRUE][r].killFailed
    BY <1>1, <1>3, <2>1 DEF Rec
  <2>4. [rs EXCEPT ![w].paused = TRUE][r].killFailed /\ [rs EXCEPT ![w].paused = FALSE][r].killFailed
    BY <1>1, <1>3, <2>1 DEF Rec
  <2>5. [rs EXCEPT ![w].expectExit = FALSE][r].killFailed
    BY <1>1, <1>3, <2>1 DEF Rec
  <2>6. [rs EXCEPT ![w].paused = TRUE, ![w].expectExit = TRUE][r].killFailed
    BY <1>1, <1>3, <2>1 DEF Rec
  <2> QED BY <1>3, <2>2, <2>3, <2>4, <2>5, <2>6
<1> QED BY <1>2, <1>3

LEMMA NotDropped ==
  ASSUME NEW rs \in Seq(Rec), Single(rs), NEW w \in Nat, FindIn(rs) # 0, FindIn(Drop(rs, w)) = FindIn(rs)
  PROVE  Drop(rs, w) = rs
<1>1. ~(w # 0 /\ FindIn(rs) = w)
  BY FindDrop
<1> QED BY <1>1 DEF Drop

LEMMA KillMarkKept ==
  ASSUME Basic, NEW s \in Slots, Act(s), FindWorker # 0, FindWorker' = FindWorker,
         recs[FindWorker].killFailed, "send" \notin Ops, "resume" \notin Ops
  PROVE  recs'[FindWorker].killFailed \/ (Trusts(task[s]) /\ Hers(task[s]))
<1>1. /\ FindWorker \in DOMAIN recs /\ task[s] \in Task /\ TaskOK(task[s]) /\ recs \in Seq(Rec) /\ Single(recs)
      /\ task[s].w \in Nat /\ task[s].w <= Len(recs)
  BY Facts DEF Task, TaskOK
<1>2. CASE recs' = recs
  BY <1>2
<1>3. ASSUME KillOver(s), task[s].kind # "free", NEW rs, rs = NoteKill(s)
      PROVE  rs[FindWorker].killFailed \/ (Trusts(task[s]) /\ Hers(task[s]))
  <2>1. W(s) \in DOMAIN recs
    BY <1>3, NoteKills DEF W
  <2>2. PICK b \in BOOLEAN : b = ~Verified(s)
    OBVIOUS
  <2>3. rs = [recs EXCEPT ![W(s)].killFailed = b]
    BY <1>3, <2>2 DEF NoteKill
  <2>4. Verified(s) => Trusts(task[s])
    BY <1>1, <1>3 DEF Verified, Says, KillOver, Trusts, TaskOK
  <2>5. CASE FindWorker = W(s) /\ Verified(s)
    BY <1>1, <2>4, <2>5, <2>1 DEF Hers, W
  <2>6. CASE FindWorker = W(s) /\ ~Verified(s)
    <3>1. b
      BY <2>2, <2>6
    <3> QED BY <1>1, <2>1, <2>3, <3>1, MarkFields
  <2>7. CASE FindWorker # W(s)
    BY <1>1, <2>1, <2>3, <2>7, MarkFields
  <2> QED BY <2>5, <2>6, <2>7
<1>4. ASSUME NEW rs, SameRegs(rs), recs' = Drop(rs, task[s].w) PROVE recs' = rs
  BY <1>1, <1>4, NotDropped DEF SameRegs, FindWorker
<1>5. ASSUME NEW killed, NEW released, NEW rs, SameRegs(rs), Finish(s, killed, released, rs) PROVE recs' = rs
  <2>1. recs' = rs \/ recs' = Drop(rs, task[s].w)
    BY <1>5 DEF Finish
  <2> QED BY <1>4, <1>5, <2>1
<1>6. ASSUME NEW killed, NEW rs, SameRegs(rs), EnterRelease(s, killed, rs) PROVE recs' = rs
  BY <1>5, <1>6 DEF EnterRelease
<1>7. ASSUME NEW killed, NEW rs, SameRegs(rs), AfterKill(s, killed, rs) PROVE recs' = rs
  BY <1>6, <1>7 DEF AfterKill
<1>8. CASE PauseBegin(s)
  <2>1. \/ recs' = [recs EXCEPT ![FindWorker].paused = TRUE, ![FindWorker].expectExit = TRUE]
        \/ recs' = [recs EXCEPT ![FindWorker].paused = TRUE]
    BY <1>8 DEF PauseBegin
  <2> QED BY <1>1, <2>1, MarkFields
<1>9. CASE PauseKilled(s)
  <2>1. task[s].w \in DOMAIN recs
    BY <1>1, <1>9 DEF PauseKilled, At, TaskOK, Bound
  <2>2. recs' = [recs EXCEPT ![task[s].w].expectExit = FALSE] \/ recs' = [recs EXCEPT ![task[s].w].paused = FALSE]
    BY <1>9 DEF PauseKilled, W
  <2> QED BY <1>1, <2>1, <2>2, MarkFields
<1>10. CASE WatchAlive(s)
  <2>1. task[s].w \in DOMAIN recs
    BY <1>1, <1>10 DEF WatchAlive, At, TaskOK, Bound
  <2>2. recs' = [recs EXCEPT ![task[s].w].flagged = TRUE] \/ recs' = recs
    BY <1>10 DEF WatchAlive, W
  <2> QED BY <1>1, <1>2, <2>1, <2>2, MarkFields
<1>11. CASE StartKilled(s)
  BY <1>3, <1>11 DEF StartKilled
<1>12. CASE StartReleased(s)
  <2>1. recs' = recs \/ recs' = Drop(recs, task[s].w)
    BY <1>12 DEF StartReleased, W
  <2> QED BY <1>2, <1>4, <2>1, SameNow
<1>13. CASE StartSpawned(s)
  <2>1. FindWorker = 0
    BY <1>13, Facts DEF StartSpawned, At, SeenBy
  <2> QED BY <2>1
<1>14. CASE HandoffMoved(s)
  <2>1. recs' = recs \/ AfterKill(s, FALSE, recs)
    BY <1>14 DEF HandoffMoved
  <2> QED BY <1>2, <1>7, <2>1, SameNow
<1>15. CASE DetachedKilled(s)
  <2>1. KillOver(s) /\ task[s].kind # "free" /\ AfterKill(s, Verified(s), NoteKill(s))
    BY <1>15 DEF DetachedKilled, Detached
  <2>2. recs' = NoteKill(s)
    BY <1>7, <2>1, NoteKills DEF SameRegs
  <2> QED BY <1>3, <2>1, <2>2
<1>16. CASE HooksRan(s)
  BY <1>2, <1>6, <1>16, SameNow DEF HooksRan
<1>17. CASE TornDown(s)
  <2>1. recs' = recs \/ Finish(s, task[s].flag, FALSE, recs)
    BY <1>17 DEF TornDown
  <2> QED BY <1>2, <1>5, <2>1, SameNow
<1>18. CASE Released(s)
  <2>1. PICK gone, rs : /\ gone \in BOOLEAN
                        /\ rs = IF gone /\ W(s) # 0 THEN [recs EXCEPT ![W(s)].released = TRUE] ELSE recs
                        /\ SameRegs(rs) /\ Finish(s, task[s].flag, gone, rs)
    BY <1>18, ReleasedRecs
  <2>2. recs' = rs
    BY <1>5, <2>1
  <2>3. CASE gone /\ W(s) # 0
    <3>1. W(s) \in DOMAIN recs /\ recs' = [recs EXCEPT ![W(s)].released = TRUE]
      BY <1>1, <2>1, <2>2, <2>3 DEF W
    <3> QED BY <1>1, <3>1, MarkFields
  <2>4. CASE ~(gone /\ W(s) # 0)
    BY <1>2, <2>1, <2>2, <2>4
  <2> QED BY <2>3, <2>4
<1>19. CASE LateKilled(s) \/ SweepKilled(s)
  <2>1. KillOver(s) /\ task[s].kind # "free" /\ (recs' = NoteKill(s) \/ recs' = Drop(NoteKill(s), task[s].w))
    BY <1>19 DEF LateKilled, SweepKilled, W
  <2>2. recs' = NoteKill(s)
    BY <1>4, <2>1, NoteKills DEF SameRegs
  <2> QED BY <1>3, <2>1, <2>2
<1>20. CASE Resumed(s) \/ SendAlive(s)
  BY <1>1, <1>20 DEF Resumed, SendAlive, At, TaskOK, AllOps
<1>21. CASE Begins(s) /\ ~PauseBegin(s)
  <2>1. recs' = recs
    BY <1>21 DEF Begins, StartBegin, ResumeBegin, SendBegin, ParkBegin, WatchBegin, HandoffBegin, ArchiveBegin, MergeBegin
  <2> QED BY <2>1, <1>2
<1>22. CASE SweepVisit(s) \/ Answer(s) \/ KillVerify(s) \/ StartAlive(s) \/ StartStale(s) \/ StartCreated(s)
            \/ StartUndone(s) \/ ResumeUndone(s) \/ ParkAlive(s) \/ Archived(s)
  <2>1. recs' = recs
    BY <1>22 DEF SweepVisit, Answer, KillVerify, StartAlive, StartStale, StartCreated, StartUndone,
       ResumeUndone, ParkAlive, Archived
  <2> QED BY <2>1, <1>2
<1>23. CASE Continues(s)
  BY <1>9, <1>10, <1>11, <1>12, <1>13, <1>14, <1>15, <1>16, <1>17, <1>18, <1>19, <1>20, <1>22, <1>23, Zenon DEF Continues
<1>24. CASE Begins(s)
  BY <1>8, <1>21, <1>24
<1> QED BY <1>22, <1>23, <1>24 DEF Act

LEMMA SweepNext ==
  ASSUME Basic, Basic', TrustInv, TrustInv', SweepInv, [Next]_vars, Sure
  PROVE  SweepInv'
<1>1. ASSUME NEW s \in Slots, Act(s) PROVE SweepInv'
  <2>1. ASSUME MaxRestarts = 0, NEW q \in Slots PROVE task'[q].kind \notin {"sweepOn", "sweepOff"}
    <3>1. task[q].kind \notin {"sweepOn", "sweepOff"} /\ ~SweepVisit(s)
      BY <2>1 DEF SweepInv, SweepVisit, Basic, Shape
    <3>2. CASE q = s
      BY <1>1, <3>1, <3>2, SweepFrom
    <3>3. CASE q # s
      BY <1>1, <3>1, <3>3, Others
    <3> QED BY <3>2, <3>3
  <2>2. ASSUME NEW q \in Slots, SecondKill(task'[q]), Hers(task[q])'
        PROVE  ~onBoard' /\ (recs'[task'[q].w].killFailed \/ pane' # "live")
    <3>1. MaxRestarts # 0 /\ "send" \notin Ops /\ "resume" \notin Ops
      BY <2>1, <2>2 DEF SecondKill, Sure
    <3>2. FindWorker' # 0 /\ FindWorker' = task'[q].w
      BY <2>2 DEF Hers
    <3>3. FindWorker' = FindWorker
      <4>1. ~Unbinds(s)
        BY <3>2 DEF Unbinds
      <4>2. ASSUME Binds(s) PROVE FALSE
        <5>1. q # s
          BY <2>2, <4>2 DEF Binds, SecondKill, Free
        <5>2. task'[q] = task[q] /\ task[q].w <= Len(recs) /\ task[q].w \in Nat
          BY <1>1, <5>1, Others, Facts DEF TaskOK, Task
        <5>3. FindWorker' = Len(recs) + 1 /\ Len(recs) \in Nat
          BY <4>2 DEF Binds
        <5> QED BY <3>2, <5>2, <5>3
      <4> QED BY <1>1, <4>1, <4>2, FindNext
    <3>4. pane' = "live" => pane = "live"
      BY <1>1, <3>1, <3>2, <3>3, LiveBy
    <3>5. CASE SecondKill(task[q]) /\ task'[q].w = task[q].w
      <4>1. Hers(task[q])
        BY <3>2, <3>3, <3>5 DEF Hers
      <4>2. ~onBoard /\ (recs[FindWorker].killFailed \/ pane # "live")
        BY <3>2, <3>3, <3>5, <4>1 DEF SweepInv
      <4>3. ~onBoard'
        BY <1>1, <4>2, OffBoard
      <4>4. CASE pane # "live"
        BY <3>4, <4>3, <4>4
      <4>5. CASE recs[FindWorker].killFailed
        <5>1. recs'[FindWorker].killFailed \/ (Trusts(task[s]) /\ Hers(task[s]))
          BY <1>1, <3>1, <3>2, <3>3, <4>5, KillMarkKept
        <5>2. Trusts(task[s]) /\ Hers(task[s]) => pane # "live"
          BY DEF TrustInv
        <5> QED BY <3>2, <3>3, <3>4, <4>3, <5>1, <5>2
      <4> QED BY <4>2, <4>4, <4>5
    <3>6. CASE ~(SecondKill(task[q]) /\ task'[q].w = task[q].w)
      <4>1. q = s
        BY <1>1, <2>2, <3>6, Others
      <4>2. SweepVisit(s)
        BY <1>1, <2>2, <3>6, <4>1, SweepFrom DEF SecondKill
      <4>3. Begin(s, IF onBoard THEN "sweepOn" ELSE "sweepOff", "kill", sweep,
                  IF onBoard THEN ~recs[sweep].released ELSE recs[sweep].killFailed)
        <5>1. task' # task
          BY <2>2, <3>6, <4>1
        <5> QED BY <4>2, <5>1 DEF SweepVisit
      <4>4. task'[s] = [kind |-> IF onBoard THEN "sweepOn" ELSE "sweepOff", pc |-> "kill", ans |-> AwaitOf("kill"),
                        w |-> sweep, gen |-> gen,
                        flag |-> IF onBoard THEN ~recs[sweep].released ELSE recs[sweep].killFailed]
        BY <4>3 DEF Begin, Basic, Shape
      <4>5. ~onBoard /\ recs[sweep].killFailed /\ task'[s].w = sweep
        BY <2>2, <4>1, <4>4 DEF SecondKill
      <4> QED BY <4>1, <4>2, <4>5 DEF SweepVisit, cardVars
    <3> QED BY <3>5, <3>6
  <2> QED BY <2>1, <2>2 DEF SweepInv
<1>2. CASE Restore \/ WorkerDone \/ AgentExits \/ Work \/ UNCHANGED vars
  <2>1. task' = task /\ (pane' = "live" => pane = "live") /\ FindWorker' = FindWorker
    BY <1>2, KeptSame, WorkerDoneFind DEF Restore, WorkerDone, AgentExits, Work, vars, cardVars, world
  <2>2. MaxRestarts = 0 => \A q \in Slots : task'[q].kind \notin {"sweepOn", "sweepOff"}
    BY <2>1 DEF SweepInv
  <2>3. ASSUME NEW q \in Slots, SecondKill(task'[q]), Hers(task[q])'
        PROVE  ~onBoard' /\ (recs'[task'[q].w].killFailed \/ pane' # "live")
    <3>1. SecondKill(task[q]) /\ Hers(task[q])
      BY <2>1, <2>3 DEF SecondKill, Hers
    <3>2. ~onBoard /\ (recs[task[q].w].killFailed \/ pane # "live") /\ "restore" \notin Ops
      BY <3>1 DEF SweepInv, Sure, SecondKill
    <3>3. CASE WorkerDone
      BY <3>2, <3>3 DEF WorkerDone
    <3>4. CASE ~WorkerDone
      <4>1. recs' = recs /\ onBoard' = onBoard
        BY <1>2, <3>2, <3>4 DEF Restore, AgentExits, Work, vars, cardVars
      <4> QED BY <2>1, <3>2, <4>1
    <3> QED BY <3>3, <3>4
  <2> QED BY <2>2, <2>3 DEF SweepInv
<1>3. CASE Restart
  <2>1. task' = [q \in Slots |-> Free]
    BY <1>3 DEF Restart
  <2> QED BY <2>1 DEF SweepInv, SecondKill, Free
<1> QED BY <1>1, <1>2, <1>3 DEF Next, Act

\* A record is dropped only once its agent is gone, or off the board after a kill it survived,
\* though kills fail and say nothing: unless a worker is resumed, or a card restored or
\* written to after a restart, while a sweep gives up on it (dropWorkerRecord 2903, 3009).
LEMMA DropStep ==
  ASSUME Basic, Basic', TrustInv, SweepInv, [Next]_vars PROVE DropsWhenGone
<1>1. SUFFICES ASSUME FindWorker # 0, ~recs'[FindWorker].reg
              PROVE  pane # "live" \/ (~onBoard /\ recs[FindWorker].killFailed)
  BY DEF DropsWhenGone
<1>2. FindWorker \in DOMAIN recs
  BY <1>1, Holder
<1>3. FindWorker' # FindWorker
  <2>1. PICK rt \in Seq(Rec) : rt = recs' /\ Single(rt)
    BY DEF Basic, Shape, Alone
  <2>2. FindIn(rt) # 0 => rt[FindIn(rt)].reg
    BY <2>1, Find
  <2> QED BY <1>1, <2>1, <2>2 DEF FindWorker
<1>4. ASSUME NEW s \in Slots, Act(s) PROVE pane # "live" \/ (~onBoard /\ recs[FindWorker].killFailed)
  <2>1. Unbinds(s)
    BY <1>1, <1>3, <1>4, FindNext DEF Binds
  <2>2. CASE Trusts(task[s])
    BY <2>1, <2>2 DEF Unbinds, TrustInv
  <2>3. CASE SecondKill(task[s])
    <3>1. ~onBoard /\ (recs[task[s].w].killFailed \/ pane # "live")
      BY <2>1, <2>3 DEF Unbinds, SweepInv
    <3> QED BY <2>1, <3>1 DEF Unbinds, Hers
  <2> QED BY <2>1, <2>2, <2>3 DEF Unbinds
<1>5. CASE Restore \/ Restart \/ WorkerDone \/ AgentExits \/ Work \/ UNCHANGED vars
  <2>1. FindWorker' = FindWorker
    BY <1>5, KeptSame, WorkerDoneFind DEF Restore, Restart, AgentExits, Work, vars
  <2> QED BY <1>3, <2>1
<1> QED BY <1>4, <1>5 DEF Next, Act

\* However handlers overlap, a worker's record leaves the board only once its
\* agent is gone (dropWorkerRecord, 2975-2982): a restart
\* may drop one off the board that has already survived a kill (3009-3050), which
\* a restore or a send of that card would turn into a lost worker.
THEOREM DropsAreHonest == Sure => (Spec => DroppedOnlyWhenGone)
<1> SUFFICES ASSUME Sure PROVE Spec => DroppedOnlyWhenGone
  OBVIOUS
<1> DEFINE Inv == Basic /\ TrustInv /\ SweepInv
<1>1. Init => Inv
  BY BasicInit, TrustInit, SweepInit
<1>2. Inv /\ [Next]_vars => Inv'
  BY BasicNext, TrustNext, SweepNext DEF Sure
<1>3. Inv /\ Inv' /\ [Next]_vars => DropsWhenGone
  BY DropStep
<1>4. Inv /\ Inv' /\ [Next]_vars => [DropsWhenGone]_vars
  BY <1>3
<1> HIDE DEF Inv
<1> QED BY <1>1, <1>2, <1>4, PTL DEF Spec, DroppedOnlyWhenGone

-----------------------------------------------------------------------------
(* No agent lives that nobody answers for. A server that stays up and whose *)
(* kills tell the truth: a resume spawns over a record it does not own, a   *)
(* kill that lies leaves the agent of an aborted start, and a restart loses *)
(* the start that had just spawned.                                         *)

Clean == "resume" \notin Ops /\ ~KillMayFail /\ MaxRestarts = 0

\* A start that will bind the agent it spawned, or end it.
Owes(t) ==
  /\ t.kind = "start"
  /\ \/ t.pc = "spawn" /\ t.ans = "ok"
     \/ t.pc = "abortKill" /\ t.ans = "wait"
LeakInv == pane = "live" /\ FindWorker = 0 => \E s \in Slots : Owes(task[s])

LEMMA LeakInit == Init => LeakInv
<1>1. <<NewRec>>[1].reg /\ DOMAIN <<NewRec>> = {1}
  BY DEF NewRec
<1>2. FindIn(<<NewRec>>) # 0
  <2>1. PICK rs : rs = <<NewRec>>
    OBVIOUS
  <2>2. rs[1].reg /\ DOMAIN rs = {1}
    BY <1>1, <2>1
  <2>3. FindIn(rs) = 1
    BY <2>2 DEF FindIn
  <2> QED BY <2>1, <2>3
<1> QED BY <1>2 DEF Init, LeakInv, FindWorker

\* What the one that owes the agent does next: it binds it, or goes on to end it.
LEMMA OwesGoes ==
  ASSUME Basic, NEW s \in Slots, Act(s), Owes(task[s]), FindWorker = 0, FindWorker' = 0, pane' = "live", Clean
  PROVE  Owes(task'[s])
<1>1. task[s] \in Task /\ TaskOK(task[s]) /\ task[s].kind = "start" /\ task[s] # Free
  BY Facts DEF Owes, Free
<1>2. CASE Answer(s)
  <2>1. task[s].pc = "abortKill"
    BY <1>2 DEF Owes, Answer
  <2>2. pane' = "none"
    BY <1>2, <2>1 DEF Answer, Outcomes, Outcome, Delays, Clean
  <2> QED BY <2>2
<1>3. CASE StartSpawned(s)
  <2>1. task[s].pc = "spawn" /\ Says(s, "ok")
    BY <1>1, <1>3 DEF StartSpawned, At, Owes, Says
  <2>2. Go(s, "abortKill")
    <3>1. CASE onBoard
      <4>1. recs' = Append(recs, NewRec)
        BY <1>3, <2>1, <3>1 DEF StartSpawned
      <4>2. recs \in Seq(Rec) /\ Single(recs)
        BY DEF Basic, Shape, Alone
      <4>3. FindIn(Append(recs, NewRec)) = Len(recs) + 1 /\ Len(recs) \in Nat
        BY <4>2, FindAppend DEF FindWorker
      <4> QED BY <4>1, <4>3 DEF FindWorker
    <3>2. CASE ~onBoard
      BY <1>3, <2>1, <3>2 DEF StartSpawned
    <3> QED BY <3>1, <3>2
  <2>3. task'[s].kind = "start" /\ task'[s].pc = "abortKill" /\ task'[s].ans = AwaitOf("abortKill")
    BY <1>1, <2>2, GoesTo DEF Go
  <2> QED BY <2>3 DEF Owes, AwaitOf, Delays
<1>4. CASE task'[s] = task[s]
  BY <1>4
<1>5. CASE (Begins(s) \/ SweepVisit(s)) /\ task'[s] # task[s]
  BY <1>1, <1>5, BegunAs
<1>6. CASE Continues(s) /\ ~Answer(s) /\ ~StartSpawned(s)
  <2>1. /\ task[s].kind \notin Detached \cup {"late", "sweepOn", "sweepOff", "free", "resume", "send", "pause", "park", "watch"}
        /\ task[s].pc \in {"spawn", "abortKill"}
        /\ task[s].pc = "abortKill" => task[s].ans = "wait"
    BY <1>1 DEF Detached, Owes
  <2> QED BY <1>1, <1>6, <2>1 DEF Continues, KillVerify, StartAlive, StartKilled, StartReleased, StartStale, StartCreated,
       StartUndone, Resumed, ResumeUndone, SendAlive, PauseKilled, ParkAlive, WatchAlive, KillOver,
       LateKilled, SweepKilled, HandoffMoved, Archived, DetachedKilled, HooksRan, TornDown, Released, At, Detached
<1> QED BY <1>2, <1>3, <1>4, <1>5, <1>6 DEF Act

LEMMA LeakNext ==
  ASSUME Basic, Basic', TrustInv, SweepInv, LeakInv, [Next]_vars, Clean
  PROVE  LeakInv'
<1>1. SUFFICES ASSUME pane' = "live", FindWorker' = 0 PROVE \E s \in Slots : Owes(task'[s])
  BY DEF LeakInv
<1>2. ASSUME NEW s \in Slots, Act(s) PROVE \E q \in Slots : Owes(task'[q])
  <2>1. ~Binds(s)
    BY <1>1 DEF Binds
  <2>2. ~SecondKill(task[s])
    BY DEF SweepInv, SecondKill, Clean
  <2>3. CASE FindWorker # 0
    <3>1. Hers(task[s]) /\ Trusts(task[s])
      BY <1>1, <1>2, <2>1, <2>2, <2>3, FindNext DEF Unbinds
    <3>2. pane # "live"
      BY <3>1 DEF TrustInv
    <3> QED BY <1>1, <1>2, <2>3, <3>2, LiveBy DEF Clean
  <2>4. CASE FindWorker = 0 /\ pane # "live"
    <3>1. Answer(s) /\ task[s].kind = "start" /\ task[s].pc = "spawn" /\ task'[s].ans = "ok"
      BY <1>1, <1>2, <2>4, LiveBy DEF Clean
    <3>2. Owes(task'[s])
      BY <3>1, AnswerAs DEF Owes
    <3> QED BY <3>2
  <2>5. CASE FindWorker = 0 /\ pane = "live"
    <3>1. PICK q \in Slots : Owes(task[q])
      BY <2>5 DEF LeakInv
    <3>2. CASE q = s
      BY <1>1, <1>2, <2>5, <3>1, <3>2, OwesGoes
    <3>3. CASE q # s
      <4>1. task'[q] = task[q]
        BY <1>2, <3>3, Others
      <4> QED BY <3>1, <4>1
    <3> QED BY <3>2, <3>3
  <2> QED BY <2>3, <2>4, <2>5
<1>3. CASE Restore \/ WorkerDone \/ AgentExits \/ Work \/ UNCHANGED vars
  <2>1. task' = task /\ pane = "live" /\ FindWorker' = FindWorker
    BY <1>1, <1>3, KeptSame, WorkerDoneFind DEF Restore, WorkerDone, AgentExits, Work, vars, cardVars, world
  <2> QED BY <1>1, <2>1 DEF LeakInv
<1>4. CASE Restart
  <2>1. restarts \in 0..0
    BY DEF Basic, Shape, Clean
  <2> QED BY <1>4, <2>1 DEF Restart, Clean
<1> QED BY <1>2, <1>3, <1>4 DEF Next, Act

\* However starts, handoffs, archives, merges and restores of a card overlap, it
\* has one record and no agent lives without a record on the board, or a start
\* that will bind or end it (startCard and doStartCard, 3109-3457).
THEOREM OneWorkerEach == Clean => (Spec => []OneWorker)
<1> SUFFICES ASSUME Clean PROVE Spec => []OneWorker
  OBVIOUS
<1> DEFINE Inv == Basic /\ TrustInv /\ SweepInv /\ LeakInv
<1>1. Init => Inv
  BY BasicInit, TrustInit, SweepInit, LeakInit
<1>2. Inv /\ [Next]_vars => Inv'
  BY BasicNext, TrustNext, SweepNext, LeakNext DEF Clean, Sure
<1>3. Inv => OneWorker
  BY DEF Basic, Alone, Single, OneWorker, OneRecord, NoLeakedWorker, LeakInv, InFlight, Owes
<1> HIDE DEF Inv
<1> QED BY <1>1, <1>2, <1>3, PTL DEF Spec

-----------------------------------------------------------------------------
(* Working has a worker. Where a send, or a resume, may put a card that is  *)
(* being left back into Working, the record the leaving then drops was the  *)
(* Working card's own.                                                      *)

NoReopen == "send" \notin Ops /\ "resume" \notin Ops

InWorking == onBoard /\ col = "working"

\* A handler that may drop the record it holds, past the step that left Working.
Leaving(t) ==
  \/ t.kind = "start" /\ t.pc \in {"alive", "kill", "verify", "release"}
  \/ t.kind = "handoff" /\ (t.pc # "body" \/ t.gen # gen)
  \/ t.kind = "archive" /\ t.pc # "body"
  \/ t.kind \in {"sweepOn", "sweepOff"}
LeavingInv == \A s \in Slots : Leaving(task[s]) /\ Hers(task[s]) => ~InWorking

LEMMA GenKept == ASSUME NEW s \in Slots, Act(s) PROVE gen' = gen
<1>1. CASE Begins(s) \/ SweepVisit(s)
  BY <1>1 DEF Begins, SweepVisit, StartBegin, ResumeBegin, SendBegin, PauseBegin, ParkBegin, WatchBegin,
     HandoffBegin, ArchiveBegin, MergeBegin, cardVars
<1>2. CASE Continues(s)
  BY <1>2 DEF Continues, Answer, KillVerify, StartAlive, StartKilled, StartReleased, StartStale, StartCreated,
     StartSpawned, StartUndone, Resumed, ResumeUndone, SendAlive, PauseKilled, ParkAlive, WatchAlive,
     LateKilled, SweepKilled, HandoffMoved, Archived, DetachedKilled, HooksRan, TornDown, Released, cardVars
<1> QED BY <1>1, <1>2 DEF Act

\* Only a start that binds its worker puts the card in Working.
LEMMA EnterBy ==
  ASSUME Basic, NEW s \in Slots, Act(s), NoReopen, col' = "working", col # "working"
  PROVE  FindWorker' # FindWorker /\ FindWorker' # 0
<1>1. CASE Begins(s) \/ SweepVisit(s)
  BY <1>1 DEF Begins, SweepVisit, StartBegin, ResumeBegin, SendBegin, PauseBegin, ParkBegin, WatchBegin,
     HandoffBegin, ArchiveBegin, MergeBegin, cardVars
<1>2. CASE StartSpawned(s)
  <2>1. recs' = Append(recs, NewRec) /\ FindWorker = 0
    BY <1>2, Facts DEF StartSpawned, At, SeenBy
  <2>2. recs \in Seq(Rec) /\ Single(recs)
    BY DEF Basic, Shape, Alone
  <2>3. FindIn(Append(recs, NewRec)) = Len(recs) + 1 /\ Len(recs) \in Nat
    BY <2>1, <2>2, FindAppend DEF FindWorker
  <2> QED BY <2>1, <2>3 DEF FindWorker
<1>3. CASE Resumed(s) \/ SendAlive(s)
  BY <1>3, Facts DEF Resumed, SendAlive, At, TaskOK, AllOps, NoReopen
<1>4. CASE Continues(s) /\ ~StartSpawned(s) /\ ~Resumed(s) /\ ~SendAlive(s)
  BY <1>4 DEF Continues, Answer, KillVerify, StartAlive, StartKilled, StartReleased, StartStale, StartCreated,
     StartUndone, ResumeUndone, PauseKilled, ParkAlive, WatchAlive, MoveTo,
     LateKilled, SweepKilled, HandoffMoved, Archived, DetachedKilled, HooksRan, TornDown, Released, cardVars
<1> QED BY <1>1, <1>2, <1>3, <1>4 DEF Act

\* A merge that drops the record has archived the card.
LEMMA MergeEnds ==
  ASSUME Basic, NEW s \in Slots, Act(s), task[s].kind \in {"merge", "late"}, FindWorker # 0, FindWorker' = 0
  PROVE  ~onBoard'
<1>1. task[s] # Free /\ recs' # recs
  BY DEF Free, FindWorker
<1>2. ASSUME NEW killed, NEW released, NEW rs, Finish(s, killed, released, rs), task[s].kind = "merge" PROVE ~onBoard'
  <2>1. ~BoundSince(task[s], recs')
    BY DEF BoundSince, FindWorker
  <2> QED BY <1>2, <2>1 DEF Finish
<1>3. ASSUME NEW killed, NEW rs, SameRegs(rs), EnterRelease(s, killed, rs), task[s].kind = "merge" PROVE ~onBoard'
  <2>1. recs' # rs
    BY <1>3 DEF SameRegs, FindWorker
  <2> QED BY <1>2, <1>3, <2>1 DEF EnterRelease
<1>4. ASSUME NEW killed, NEW rs, SameRegs(rs), AfterKill(s, killed, rs), task[s].kind = "merge" PROVE ~onBoard'
  <2>1. recs' # rs
    BY <1>4 DEF SameRegs, FindWorker
  <2> QED BY <1>3, <1>4, <2>1 DEF AfterKill
<1>5. CASE LateKilled(s)
  BY <1>5 DEF LateKilled
<1>6. CASE DetachedKilled(s)
  <2>1. KillOver(s) /\ task[s].kind = "merge" /\ AfterKill(s, Verified(s), NoteKill(s))
    BY <1>6 DEF DetachedKilled, Detached
  <2>2. SameRegs(NoteKill(s))
    BY <2>1, NoteKills DEF SameRegs
  <2> QED BY <1>4, <2>1, <2>2
<1>7. CASE HooksRan(s)
  <2>1. task[s].kind = "merge" /\ EnterRelease(s, task[s].flag, recs)
    BY <1>7 DEF HooksRan, At, Detached
  <2> QED BY <1>3, <2>1, SameNow
<1>8. CASE TornDown(s)
  <2>1. task[s].kind = "merge" /\ Finish(s, task[s].flag, FALSE, recs)
    BY <1>1, <1>8 DEF TornDown, At, Detached
  <2> QED BY <1>2, <2>1
<1>9. CASE Released(s)
  <2>1. task[s].kind = "merge" /\ \E released, rs : Finish(s, task[s].flag, released, rs)
    BY <1>9 DEF Released, At, Detached
  <2> QED BY <1>2, <2>1
<1>10. CASE Begins(s) \/ SweepVisit(s)
  <2>1. task'[s] = task[s]
    BY <1>1, <1>10, BegunAs
  <2>2. ~PauseBegin(s) => recs' = recs
    BY <1>10 DEF Begins, SweepVisit, StartBegin, ResumeBegin, SendBegin, ParkBegin, WatchBegin,
       HandoffBegin, ArchiveBegin, MergeBegin
  <2> QED BY <1>1, <2>2, PauseBeginBasic
<1>11. CASE Continues(s)
  BY <1>1, <1>5, <1>6, <1>7, <1>8, <1>9, <1>11 DEF Continues, Answer, KillVerify, StartAlive, StartKilled,
     StartReleased, StartStale, StartCreated, StartSpawned, StartUndone, Resumed, ResumeUndone, SendAlive,
     PauseKilled, ParkAlive, WatchAlive, SweepKilled, HandoffMoved, Archived, At
<1> QED BY <1>10, <1>11 DEF Act

\* Who is leaving was leaving, with the same record, or the card is out of Working.
LEMMA LeavesFrom ==
  ASSUME Basic, NEW s \in Slots, Act(s), Leaving(task[s])', InWorking'
  PROVE  Leaving(task[s]) /\ task'[s].w = task[s].w
<1>1. gen' = gen /\ task[s] \in Task /\ TaskOK(task[s]) /\ task'[s] # Free
  BY GenKept, Facts DEF Leaving, Free
<1>2. CASE (Begins(s) \/ SweepVisit(s)) /\ task'[s] # task[s]
  <2>1. task'[s].gen = gen
    BY <1>2, BegunAs
  <2>2. ~(task'[s].kind \in {"handoff", "archive"} /\ task'[s].pc = "body")
    BY <1>1, <2>1 DEF Leaving
  <2>3. \/ StartBegin(s)
        \/ task'[s].kind \in {"sweepOn", "sweepOff"} /\ SweepVisit(s)
    BY <1>2, <2>2, BegunAs DEF Leaving
  <2>4. CASE StartBegin(s)
    BY <2>4 DEF StartBegin, InWorking
  <2>5. CASE SweepVisit(s)
    <3>1. ~Spared(sweep)
      BY <1>2, <2>5 DEF SweepVisit
    <3> QED BY <2>5, <3>1 DEF SweepVisit, Spared, InWorking, cardVars
  <2> QED BY <2>3, <2>4, <2>5
<1>3. CASE task'[s] = task[s]
  BY <1>1, <1>3 DEF Leaving
<1>4. CASE Answer(s)
  BY <1>1, <1>4, AnswerAs DEF Leaving
<1>5. CASE Continues(s) /\ ~Answer(s)
  <2>1. task'[s].kind # "late"
    BY DEF Leaving
  <2>2. /\ GoesOn(s, Pcs)
        /\ \/ KillVerify(s) /\ task'[s].pc = "verify"
           \/ task[s].kind \in {"start", "resume"} \cup Detached
    BY <1>1, <1>5, <2>1, ContinuesAs
  <2>3. CASE KillVerify(s)
    BY <1>1, <2>2, <2>3 DEF KillVerify, GoesOn, Leaving
  <2>4. CASE task[s].kind = "start" /\ ~KillVerify(s)
    <3>1. task'[s].pc \in {"alive", "kill", "verify", "release"}
      BY <2>2, <2>4 DEF GoesOn, Leaving
    <3>2. \/ StartAlive(s) \/ StartKilled(s) \/ StartReleased(s) \/ StartStale(s)
          \/ StartCreated(s) \/ StartSpawned(s) \/ StartUndone(s)
      BY <1>5, <2>4 DEF Continues, Resumed, ResumeUndone, SendAlive, PauseKilled, ParkAlive, WatchAlive,
         LateKilled, SweepKilled, HandoffMoved, Archived, DetachedKilled, HooksRan, TornDown, Released, At, Detached
    <3>3. ASSUME NEW pc, Go(s, pc) PROVE task'[s].pc = pc
      BY <3>3, GoesTo DEF Go
    <3>4. ~End(s)
      BY <1>1 DEF End, Basic, Shape
    <3>5. CASE StartReleased(s) \/ StartStale(s) \/ StartCreated(s)
      BY <3>1, <3>3, <3>4, <3>5 DEF StartReleased, StartStale, StartCreated
    <3>6. CASE StartSpawned(s) \/ StartUndone(s)
      BY <3>1, <3>3, <3>4, <3>6 DEF StartSpawned, StartUndone
    <3>7. CASE StartAlive(s) \/ StartKilled(s)
      <4>1. task[s].pc \in {"alive", "kill", "verify"}
        BY <3>7 DEF StartAlive, StartKilled, KillOver, At
      <4> QED BY <2>2, <2>4, <4>1 DEF Leaving, GoesOn
    <3> QED BY <3>2, <3>5, <3>6, <3>7
  <2>5. CASE task[s].kind = "handoff" /\ task[s].pc = "body" /\ task[s].gen = gen
    <3>1. HandoffMoved(s)
      BY <1>5, <2>5 DEF Continues, Answer, KillVerify, StartAlive, StartKilled, StartReleased, StartStale, StartCreated,
         StartSpawned, StartUndone, Resumed, ResumeUndone, SendAlive, PauseKilled, ParkAlive, WatchAlive, KillOver,
         LateKilled, SweepKilled, Archived, DetachedKilled, HooksRan, TornDown, Released, At, Detached
    <3>2. CASE onBoard
      BY <2>5, <3>1, <3>2 DEF HandoffMoved, MoveTo, Current, InWorking
    <3>3. CASE ~onBoard
      BY <1>5, <3>3, OffBoard DEF InWorking
    <3> QED BY <3>2, <3>3
  <2>6. CASE task[s].kind = "archive" /\ task[s].pc = "body"
    <3>1. Archived(s)
      BY <1>5, <2>6 DEF Continues, Answer, KillVerify, StartAlive, StartKilled, StartReleased, StartStale, StartCreated,
         StartSpawned, StartUndone, Resumed, ResumeUndone, SendAlive, PauseKilled, ParkAlive, WatchAlive, KillOver,
         LateKilled, SweepKilled, HandoffMoved, DetachedKilled, HooksRan, TornDown, Released, At, Detached
    <3> QED BY <3>1 DEF Archived, InWorking
  <2>7. CASE task[s].kind \in {"handoff", "archive"} /\ ~(task[s].pc = "body" /\ (task[s].kind = "archive" \/ task[s].gen = gen))
    BY <2>2, <2>7 DEF GoesOn, Leaving
  <2>8. task[s].kind \notin {"resume", "merge"}
    BY <2>2 DEF GoesOn, Leaving
  <2> QED BY <2>2, <2>3, <2>4, <2>5, <2>6, <2>7, <2>8 DEF Detached
<1> QED BY <1>2, <1>3, <1>4, <1>5 DEF Act

LEMMA LeavingNext ==
  ASSUME Basic, Basic', WorkingHasWorker, LeavingInv, [Next]_vars, NoReopen
  PROVE  WorkingHasWorker' /\ LeavingInv'
<1>1. ASSUME NEW s \in Slots, Act(s), InWorking' PROVE InWorking \/ (FindWorker' # FindWorker /\ FindWorker' # 0)
  BY <1>1, EnterBy, OffBoard DEF InWorking
<1>2. ASSUME NEW s \in Slots, Act(s) PROVE WorkingHasWorker'
  <2>1. SUFFICES ASSUME InWorking', FindWorker' = 0 PROVE FALSE
    BY DEF WorkingHasWorker, InWorking
  <2>2. InWorking /\ FindWorker # 0
    BY <1>1, <1>2, <2>1 DEF WorkingHasWorker, InWorking
  <2>3. Unbinds(s)
    BY <1>2, <2>1, <2>2, FindNext DEF Binds
  <2>4. task[s].kind \notin {"merge", "late"}
    BY <1>2, <2>1, <2>2, MergeEnds DEF InWorking
  <2>5. TaskOK(task[s]) /\ task[s] \in Task
    BY Facts
  <2>6. Leaving(task[s])
    <3>1. CASE SecondKill(task[s])
      BY <3>1 DEF SecondKill, Leaving
    <3>2. CASE Trusts(task[s]) /\ task[s].pc = "verify"
      <4>1. "verify" \in StepsOf(task[s].kind) /\ task[s].kind \in Kinds
        BY <2>5, <3>2 DEF TaskOK, Task
      <4>2. task[s].kind \in {"start", "handoff", "archive", "sweepOn", "sweepOff"}
        <5>1. PICK k \in Kinds : k = task[s].kind /\ "verify" \in StepsOf(k)
          BY <4>1
        <5>2. k \notin {"free", "resume", "send", "park", "watch", "pause", "done", "restore"}
          BY <5>1 DEF StepsOf
        <5>3. k \notin {"merge", "late"}
          BY <2>4, <5>1
        <5> QED BY <5>1, <5>2, <5>3 DEF Kinds, AllOps
      <4> QED BY <3>2, <4>2 DEF Leaving
    <3>3. CASE Trusts(task[s]) /\ task[s].pc # "verify"
      BY <2>4, <3>3 DEF Trusts, Detached, Leaving
    <3> QED BY <2>3, <3>1, <3>2, <3>3 DEF Unbinds
  <2> QED BY <2>2, <2>3, <2>6 DEF Unbinds, LeavingInv
<1>3. ASSUME NEW s \in Slots, Act(s) PROVE LeavingInv'
  <2>1. SUFFICES ASSUME NEW q \in Slots, Leaving(task[q])', Hers(task[q])', InWorking' PROVE FALSE
    BY DEF LeavingInv
  <2>2. Leaving(task[q]) /\ task'[q].w = task[q].w /\ (Binds(s) => q # s)
    <3>1. CASE q = s
      BY <1>3, <2>1, <3>1, LeavesFrom DEF Binds, Leaving, Free
    <3>2. CASE q # s
      BY <1>3, <2>1, <3>2, Others, GenKept DEF Leaving
    <3> QED BY <3>1, <3>2
  <2>3. FindWorker' = task[q].w /\ FindWorker' # 0
    BY <2>1, <2>2 DEF Hers
  <2>4. ~Binds(s)
    <3>1. task[q].w <= Len(recs) /\ task[q].w \in Nat
      BY Facts DEF TaskOK, Task
    <3> QED BY <2>3, <3>1 DEF Binds
  <2>5. FindWorker' = FindWorker
    BY <1>3, <2>3, <2>4, FindNext DEF Unbinds
  <2>6. InWorking /\ Hers(task[q])
    BY <1>1, <1>3, <2>1, <2>3, <2>5 DEF Hers
  <2> QED BY <2>2, <2>6 DEF LeavingInv
<1>4. CASE WorkerDone \/ AgentExits \/ Work \/ UNCHANGED vars
  <2>1. task' = task /\ gen' = gen /\ onBoard' = onBoard /\ col' = col /\ FindWorker' = FindWorker
    BY <1>4, KeptSame, WorkerDoneFind DEF WorkerDone, AgentExits, Work, vars, cardVars
  <2> QED BY <2>1 DEF WorkingHasWorker, LeavingInv, Leaving, Hers, InWorking
<1>5. CASE Restore
  BY <1>5 DEF Restore, RestoredColumn, WorkingHasWorker, LeavingInv, InWorking
<1>6. CASE Restart
  <2>1. task' = [q \in Slots |-> Free] /\ onBoard' = onBoard /\ col' = col /\ FindWorker' = FindWorker
    BY <1>6, KeptSame DEF Restart, cardVars
  <2>2. LeavingInv'
    BY <2>1 DEF LeavingInv, Leaving, Free
  <2> QED BY <2>1, <2>2 DEF WorkingHasWorker
<1> QED BY <1>2, <1>3, <1>4, <1>5, <1>6 DEF Next, Act

LEMMA LeavingInit == Init => WorkingHasWorker /\ LeavingInv
<1>1. FindIn(<<NewRec>>) # 0
  <2>1. PICK rs : rs = <<NewRec>>
    OBVIOUS
  <2>2. rs[1].reg /\ DOMAIN rs = {1}
    BY <2>1 DEF NewRec
  <2>3. FindIn(rs) = 1
    BY <2>2 DEF FindIn
  <2> QED BY <2>1, <2>3
<1> QED BY <1>1 DEF Init, LeavingInv, Leaving, Free, WorkingHasWorker, FindWorker

\* A Working card has its worker's record, across overlapping handlers, failing
\* kills and restarts: no handler that once left Working drops it later. (A send,
\* 3562-3617, and a resume put a card being left back into Working.)
THEOREM WorkingIsStaffed == NoReopen => (Spec => []WorkingHasWorker)
<1> SUFFICES ASSUME NoReopen PROVE Spec => []WorkingHasWorker
  OBVIOUS
<1> DEFINE Inv == Basic /\ WorkingHasWorker /\ LeavingInv
<1>1. Init => Inv
  BY BasicInit, LeavingInit
<1>2. Inv /\ [Next]_vars => Inv'
  BY BasicNext, LeavingNext
<1>3. Inv => WorkingHasWorker
  OBVIOUS
<1> HIDE DEF Inv
<1> QED BY <1>1, <1>2, <1>3, PTL DEF Spec

-----------------------------------------------------------------------------
(* What a rest means. A pause is no death, while nobody makes the card's    *)
(* worker live again and no kill of a pause fails.                          *)

Resting == Ops \cap {"start", "resume", "send"} = {} /\ ~KillMayFail

RestInv ==
  /\ Len(recs) <= 1
  /\ pane = "stopped" => \A r \in DOMAIN recs : recs[r].paused
  /\ \A s \in Slots : task[s].kind = "pause" => task[s].ans # "err" /\ recs[task[s].w].paused

\* No death is noted and no pause taken back.
Quiet(rs, rt) ==
  /\ DOMAIN rt = DOMAIN rs /\ Len(rt) = Len(rs)
  /\ \A r \in DOMAIN rs : (rt[r].flagged => rs[r].flagged) /\ (rs[r].paused => rt[r].paused)

LEMMA QuietOne ==
  ASSUME NEW rs \in Seq(Rec), NEW w \in DOMAIN rs, NEW v \in Rec,
         v.flagged => rs[w].flagged, rs[w].paused => v.paused
  PROVE  Quiet(rs, [rs EXCEPT ![w] = v])
BY DEF Quiet

LEMMA QuietMarks ==
  ASSUME NEW rs \in Seq(Rec), NEW w \in DOMAIN rs
  PROVE  /\ \A b \in BOOLEAN : Quiet(rs, [rs EXCEPT ![w].killFailed = b])
         /\ Quiet(rs, [rs EXCEPT ![w].released = TRUE])
         /\ Quiet(rs, [rs EXCEPT ![w].reg = FALSE])
         /\ Quiet(rs, [rs EXCEPT ![w].expectExit = FALSE])
         /\ Quiet(rs, [rs EXCEPT ![w].paused = TRUE])
         /\ Quiet(rs, [rs EXCEPT ![w].paused = TRUE, ![w].expectExit = TRUE])
         /\ Quiet(rs, [rs EXCEPT ![w].done = TRUE, ![w].flagged = FALSE, ![w].expectExit = FALSE])
<1>1. PICK u \in Rec : u = rs[w]
  OBVIOUS
<1>2. ASSUME NEW b \in BOOLEAN PROVE Quiet(rs, [rs EXCEPT ![w].killFailed = b])
  <2>1. PICK v : v = [u EXCEPT !.killFailed = b]
    OBVIOUS
  <2>2. v \in Rec /\ (v.flagged => u.flagged)
    BY <2>1 DEF Rec
  <2>3. u.paused => v.paused
    BY <2>1 DEF Rec
  <2>4. [rs EXCEPT ![w].killFailed = b] = [rs EXCEPT ![w] = v]
    BY <1>1, <2>1
  <2> QED BY <1>1, <2>2, <2>3, <2>4, QuietOne
<1>3. Quiet(rs, [rs EXCEPT ![w].released = TRUE])
  <2>1. PICK v : v = [u EXCEPT !.released = TRUE]
    OBVIOUS
  <2>2. v \in Rec /\ (v.flagged => u.flagged)
    BY <2>1 DEF Rec
  <2>3. u.paused => v.paused
    BY <2>1 DEF Rec
  <2>4. [rs EXCEPT ![w].released = TRUE] = [rs EXCEPT ![w] = v]
    BY <1>1, <2>1
  <2> QED BY <1>1, <2>2, <2>3, <2>4, QuietOne
<1>4. Quiet(rs, [rs EXCEPT ![w].reg = FALSE])
  <2>1. PICK v : v = [u EXCEPT !.reg = FALSE]
    OBVIOUS
  <2>2. v \in Rec /\ (v.flagged => u.flagged)
    BY <2>1 DEF Rec
  <2>3. u.paused => v.paused
    BY <2>1 DEF Rec
  <2>4. [rs EXCEPT ![w].reg = FALSE] = [rs EXCEPT ![w] = v]
    BY <1>1, <2>1
  <2> QED BY <1>1, <2>2, <2>3, <2>4, QuietOne
<1>5. Quiet(rs, [rs EXCEPT ![w].expectExit = FALSE])
  <2>1. PICK v : v = [u EXCEPT !.expectExit = FALSE]
    OBVIOUS
  <2>2. v \in Rec /\ (v.flagged => u.flagged)
    BY <2>1 DEF Rec
  <2>3. u.paused => v.paused
    BY <2>1 DEF Rec
  <2>4. [rs EXCEPT ![w].expectExit = FALSE] = [rs EXCEPT ![w] = v]
    BY <1>1, <2>1
  <2> QED BY <1>1, <2>2, <2>3, <2>4, QuietOne
<1>6. Quiet(rs, [rs EXCEPT ![w].paused = TRUE])
  <2>1. PICK v : v = [u EXCEPT !.paused = TRUE]
    OBVIOUS
  <2>2. v \in Rec /\ (v.flagged => u.flagged)
    BY <2>1 DEF Rec
  <2>3. u.paused => v.paused
    BY <2>1 DEF Rec
  <2>4. [rs EXCEPT ![w].paused = TRUE] = [rs EXCEPT ![w] = v]
    BY <1>1, <2>1
  <2> QED BY <1>1, <2>2, <2>3, <2>4, QuietOne
<1>7. Quiet(rs, [rs EXCEPT ![w].paused = TRUE, ![w].expectExit = TRUE])
  <2>1. PICK v : v = [u EXCEPT !.paused = TRUE, !.expectExit = TRUE]
    OBVIOUS
  <2>2. v \in Rec /\ (v.flagged => u.flagged)
    BY <2>1 DEF Rec
  <2>3. u.paused => v.paused
    BY <2>1 DEF Rec
  <2>4. [rs EXCEPT ![w].paused = TRUE, ![w].expectExit = TRUE] = [rs EXCEPT ![w] = v]
    BY <1>1, <2>1 DEF Rec
  <2> QED BY <1>1, <2>2, <2>3, <2>4, QuietOne
<1>8. Quiet(rs, [rs EXCEPT ![w].done = TRUE, ![w].flagged = FALSE, ![w].expectExit = FALSE])
  <2>1. PICK v : v = [u EXCEPT !.done = TRUE, !.flagged = FALSE, !.expectExit = FALSE]
    OBVIOUS
  <2>2. v \in Rec /\ (v.flagged => u.flagged)
    BY <2>1 DEF Rec
  <2>3. u.paused => v.paused
    BY <2>1 DEF Rec
  <2>4. [rs EXCEPT ![w].done = TRUE, ![w].flagged = FALSE, ![w].expectExit = FALSE] = [rs EXCEPT ![w] = v]
    BY <1>1, <2>1 DEF Rec
  <2> QED BY <1>1, <2>2, <2>3, <2>4, QuietOne
<1> QED BY <1>2, <1>3, <1>4, <1>5, <1>6, <1>7, <1>8

LEMMA QuietDrop ==
  ASSUME NEW rs \in Seq(Rec), NEW rt \in Seq(Rec), Single(rt), Quiet(rs, rt), NEW w \in Nat
  PROVE  Quiet(rs, Drop(rt, w))
<1>1. CASE w # 0 /\ FindIn(rt) = w
  <2>1. w \in DOMAIN rt
    BY <1>1, Find
  <2>2. Quiet(rt, [rt EXCEPT ![w].reg = FALSE])
    BY <2>1, QuietMarks
  <2>3. Drop(rt, w) = [rt EXCEPT ![w].reg = FALSE]
    BY <1>1 DEF Drop
  <2> QED BY <2>2, <2>3 DEF Quiet
<1>2. CASE ~(w # 0 /\ FindIn(rt) = w)
  BY <1>2 DEF Drop
<1> QED BY <1>1, <1>2

LEMMA QuietFinish ==
  ASSUME Basic, NEW s \in Slots, NEW rs, SameRegs(rs), Quiet(recs, rs)
  PROVE  /\ \A killed, released : Finish(s, killed, released, rs) => Quiet(recs, recs')
         /\ \A killed : EnterRelease(s, killed, rs) => Quiet(recs, recs')
         /\ \A killed : AfterKill(s, killed, rs) => Quiet(recs, recs')
<1>1. ASSUME NEW killed, NEW released, Finish(s, killed, released, rs) PROVE Quiet(recs, recs')
  <2>1. recs' = rs \/ recs' = Drop(rs, task[s].w)
    BY <1>1 DEF Finish
  <2>2. task[s].w \in Nat /\ recs \in Seq(Rec) /\ rs \in Seq(Rec) /\ Single(rs)
    BY Facts DEF Task, SameRegs
  <2>3. Quiet(recs, Drop(rs, task[s].w))
    BY <2>2, QuietDrop
  <2> QED BY <2>1, <2>3
<1>2. ASSUME NEW killed, EnterRelease(s, killed, rs) PROVE Quiet(recs, recs')
  BY <1>1, <1>2 DEF EnterRelease
<1>3. ASSUME NEW killed, AfterKill(s, killed, rs) PROVE Quiet(recs, recs')
  BY <1>2, <1>3 DEF AfterKill
<1> QED BY <1>1, <1>2, <1>3

LEMMA QuietAct ==
  ASSUME Basic, NEW s \in Slots, Act(s), Resting, RestInv, ~WatchAlive(s) \/ ~Died(s)
  PROVE  Quiet(recs, recs')
<1>1. /\ task[s] \in Task /\ TaskOK(task[s]) /\ recs \in Seq(Rec) /\ Single(recs)
      /\ task[s].w \in Nat /\ task[s].w <= Len(recs) /\ (FindWorker # 0 => FindWorker \in DOMAIN recs)
  BY Facts DEF Task, TaskOK
<1>2. Quiet(recs, recs)
  BY DEF Quiet
<1>3. CASE recs' = recs
  BY <1>2, <1>3
<1>4. ASSUME KillOver(s), task[s].kind # "free"
      PROVE  SameRegs(NoteKill(s)) /\ Quiet(recs, NoteKill(s)) /\ Quiet(recs, Drop(NoteKill(s), task[s].w))
  <2>1. task[s].w \in DOMAIN recs /\ SameRegs(NoteKill(s))
    BY <1>4, NoteKills DEF SameRegs
  <2>2. PICK b \in BOOLEAN : b = ~Verified(s)
    OBVIOUS
  <2>3. Quiet(recs, NoteKill(s))
    BY <1>1, <2>1, <2>2, QuietMarks DEF NoteKill, W
  <2>4. Quiet(recs, Drop(NoteKill(s), task[s].w))
    BY <1>1, <2>1, <2>3, QuietDrop DEF SameRegs
  <2> QED BY <2>1, <2>3, <2>4
<1>5. CASE PauseBegin(s)
  <2>1. FindWorker \in DOMAIN recs
    BY <1>1, <1>5 DEF PauseBegin
  <2>2. \/ recs' = [recs EXCEPT ![FindWorker].paused = TRUE, ![FindWorker].expectExit = TRUE]
        \/ recs' = [recs EXCEPT ![FindWorker].paused = TRUE]
    BY <1>5 DEF PauseBegin
  <2>3. CASE recs' = [recs EXCEPT ![FindWorker].paused = TRUE, ![FindWorker].expectExit = TRUE]
    BY <1>1, <2>1, <2>3, QuietMarks
  <2>4. CASE recs' = [recs EXCEPT ![FindWorker].paused = TRUE]
    BY <1>1, <2>1, <2>4, QuietMarks
  <2> QED BY <2>2, <2>3, <2>4
<1>6. CASE PauseKilled(s)
  <2>1. task[s].w \in DOMAIN recs /\ task[s].kind = "pause" /\ task[s].ans \in {"ok", "err"}
    BY <1>1, <1>6 DEF PauseKilled, At, TaskOK, Bound, AnswersTo, Delays
  <2>2. task[s].ans = "ok"
    BY <2>1 DEF RestInv
  <2>3. recs' = [recs EXCEPT ![task[s].w].expectExit = FALSE]
    BY <1>6, <2>2 DEF PauseKilled, W, Says
  <2> QED BY <1>1, <2>1, <2>3, QuietMarks
<1>7. CASE WatchAlive(s)
  BY <1>2, <1>7 DEF WatchAlive
<1>8. CASE task[s].kind \in {"start", "resume", "send"}
  BY <1>1, <1>8 DEF TaskOK, AllOps, Resting
<1>9. CASE HandoffMoved(s)
  BY <1>2, <1>9, SameNow, QuietFinish DEF HandoffMoved
<1>10. CASE DetachedKilled(s)
  <2>1. KillOver(s) /\ task[s].kind # "free" /\ AfterKill(s, Verified(s), NoteKill(s))
    BY <1>10 DEF DetachedKilled, Detached
  <2> QED BY <1>4, <2>1, QuietFinish
<1>11. CASE HooksRan(s) \/ TornDown(s)
  BY <1>2, <1>11, SameNow, QuietFinish DEF HooksRan, TornDown
<1>12. CASE Released(s)
  <2>1. PICK gone, rs : /\ gone \in BOOLEAN
                        /\ rs = IF gone /\ W(s) # 0 THEN [recs EXCEPT ![W(s)].released = TRUE] ELSE recs
                        /\ SameRegs(rs) /\ Finish(s, task[s].flag, gone, rs)
    BY <1>12, ReleasedRecs
  <2>2. Quiet(recs, rs)
    <3>1. CASE gone /\ W(s) # 0
      <4>1. W(s) \in DOMAIN recs
        BY <1>1, <3>1 DEF W
      <4> QED BY <1>1, <2>1, <3>1, <4>1, QuietMarks
    <3>2. CASE ~(gone /\ W(s) # 0)
      BY <1>2, <2>1, <3>2
    <3> QED BY <3>1, <3>2
  <2> QED BY <2>1, <2>2, QuietFinish
<1>13. CASE LateKilled(s) \/ SweepKilled(s)
  <2>1. KillOver(s) /\ task[s].kind # "free" /\ (recs' = NoteKill(s) \/ recs' = Drop(NoteKill(s), task[s].w))
    BY <1>13 DEF LateKilled, SweepKilled, W
  <2> QED BY <1>4, <2>1
<1>14. CASE Begins(s) /\ ~PauseBegin(s)
  <2>1. recs' = recs
    BY <1>14 DEF Begins, StartBegin, ResumeBegin, SendBegin, ParkBegin, WatchBegin, HandoffBegin, ArchiveBegin, MergeBegin
  <2> QED BY <1>3, <2>1
<1>15. CASE SweepVisit(s) \/ Answer(s) \/ KillVerify(s) \/ ResumeUndone(s) \/ ParkAlive(s) \/ Archived(s)
  <2>1. recs' = recs
    BY <1>15 DEF SweepVisit, Answer, KillVerify, ResumeUndone, ParkAlive, Archived
  <2> QED BY <1>3, <2>1
<1>16. CASE StartAlive(s) \/ StartKilled(s) \/ StartReleased(s) \/ StartStale(s) \/ StartCreated(s) \/ StartSpawned(s)
            \/ StartUndone(s) \/ Resumed(s) \/ SendAlive(s)
  <2>1. task[s].kind \in {"start", "resume", "send"}
    BY <1>16 DEF StartAlive, StartKilled, StartReleased, StartStale, StartCreated, StartSpawned, StartUndone,
       Resumed, SendAlive, At
  <2> QED BY <1>8, <2>1
<1>17. CASE Continues(s)
  BY <1>6, <1>7, <1>9, <1>10, <1>11, <1>12, <1>13, <1>15, <1>16, <1>17, Zenon DEF Continues
<1>18. CASE Begins(s)
  BY <1>5, <1>14, <1>18
<1> QED BY <1>15, <1>17, <1>18 DEF Act

LEMMA RestInit == Init => RestInv
<1>1. Len(<<>>) <= 1 /\ Len(<<NewRec>>) <= 1
  OBVIOUS
<1>2. ASSUME Init PROVE Len(recs) <= 1 /\ pane # "stopped" /\ \A s \in Slots : task[s].kind = "free"
  BY <1>1, <1>2 DEF Init, Free
<1> QED BY <1>2 DEF RestInv

\* The agent never comes back, and no pause is taken back.
LEMMA RestKeeps ==
  ASSUME Basic, NEW s \in Slots, Act(s), Resting, RestInv
  PROVE  /\ Len(recs') = Len(recs) /\ DOMAIN recs' = DOMAIN recs
         /\ \A r \in DOMAIN recs : recs[r].paused => recs'[r].paused
         /\ pane' = "live" => pane = "live"
<1>1. task[s] \in Task /\ TaskOK(task[s]) /\ recs \in Seq(Rec) /\ "resume" \notin Ops /\ "start" \notin Ops
  BY Facts DEF Resting
<1>2. pane' = "live" => pane = "live"
  <2>1. task[s].kind # "start"
    BY <1>1 DEF TaskOK, AllOps
  <2> QED BY <1>1, <2>1, LiveBy
<1>3. CASE WatchAlive(s) /\ Died(s)
  <2>1. task[s].w \in DOMAIN recs
    BY <1>1, <1>3 DEF WatchAlive, At, TaskOK, Bound, Task
  <2>2. recs' = [recs EXCEPT ![task[s].w].flagged = TRUE]
    BY <1>3 DEF WatchAlive, W
  <2>3. PICK u \in Rec : u = recs[task[s].w]
    BY <1>1, <2>1
  <2>4. PICK v : v = [u EXCEPT !.flagged = TRUE]
    OBVIOUS
  <2>5. v \in Rec /\ (u.paused => v.paused)
    BY <2>4 DEF Rec
  <2>6. recs' = [recs EXCEPT ![task[s].w] = v]
    BY <2>2, <2>3, <2>4
  <2> QED BY <1>1, <1>2, <2>1, <2>3, <2>5, <2>6
<1>4. CASE ~(WatchAlive(s) /\ Died(s))
  BY <1>2, <1>4, QuietAct DEF Quiet
<1> QED BY <1>3, <1>4

\* The pause that takes the window marked its record first.
LEMMA PausedBegin ==
  ASSUME Basic, NEW s \in Slots, Begins(s) \/ SweepVisit(s), task'[s] # task[s], task'[s].kind = "pause"
  PROVE  task'[s].ans = "wait" /\ task'[s].w = FindWorker /\ recs'[FindWorker].paused
<1>1. ASSUME NEW kind, NEW pc, NEW w, NEW flag, Begin(s, kind, pc, w, flag)
      PROVE  task'[s].kind = kind /\ task'[s].ans = AwaitOf(pc) /\ task'[s].w = w
  <2>1. task'[s] = [kind |-> kind, pc |-> pc, ans |-> AwaitOf(pc), w |-> w, gen |-> gen, flag |-> flag]
    BY <1>1 DEF Begin, Basic, Shape
  <2> QED BY <2>1
<1>2. CASE PauseBegin(s)
  <2>1. Begin(s, "pause", "pauseKill", FindWorker, FALSE) /\ recs' = [recs EXCEPT ![FindWorker].paused = TRUE]
    BY <1>2 DEF PauseBegin
  <2>2. FindWorker \in DOMAIN recs /\ recs \in Seq(Rec)
    BY <1>2, Facts DEF PauseBegin
  <2>3. recs'[FindWorker].paused
    <3>1. PICK u \in Rec : u = recs[FindWorker]
      BY <2>2
    <3>2. [u EXCEPT !.paused = TRUE].paused
      BY DEF Rec
    <3> QED BY <2>1, <2>2, <3>1, <3>2
  <2> QED BY <1>1, <2>1, <2>3 DEF AwaitOf, Delays
<1>3. CASE StartBegin(s)
  <2>1. PICK pc \in {"alive", "stale", "create"} : Begin(s, "start", pc, FindWorker, FALSE)
    BY <1>3 DEF StartBegin
  <2> QED BY <1>1, <2>1
<1>4. CASE ResumeBegin(s)
  <2>1. Begin(s, "resume", "resume", FindWorker, FALSE)
    BY <1>4 DEF ResumeBegin
  <2>2. task'[s].kind = "resume"
    BY <1>1, <2>1
  <2> QED BY <2>2
<1>5. CASE SendBegin(s)
  <2>1. Begin(s, "send", "alive", FindWorker, FALSE)
    BY <1>5 DEF SendBegin
  <2>2. task'[s].kind = "send"
    BY <1>1, <2>1
  <2> QED BY <2>2
<1>6. CASE WatchBegin(s)
  <2>1. Begin(s, "watch", "alive", FindWorker, FALSE)
    BY <1>6 DEF WatchBegin
  <2>2. task'[s].kind = "watch"
    BY <1>1, <2>1
  <2> QED BY <2>2
<1>7. CASE ParkBegin(s)
  <2>1. Begin(s, "park", "alive", FindWorker, FALSE)
    BY <1>7 DEF ParkBegin
  <2>2. task'[s].kind = "park"
    BY <1>1, <2>1
  <2> QED BY <2>2
<1>8. CASE HandoffBegin(s)
  <2>1. PICK flag : Begin(s, "handoff", "body", FindWorker, flag)
    BY <1>8 DEF HandoffBegin
  <2>2. task'[s].kind = "handoff"
    BY <1>1, <2>1
  <2> QED BY <2>2
<1>9. CASE ArchiveBegin(s)
  <2>1. Begin(s, "archive", "body", FindWorker, FALSE)
    BY <1>9 DEF ArchiveBegin
  <2>2. task'[s].kind = "archive"
    BY <1>1, <2>1
  <2> QED BY <2>2
<1>10. CASE MergeBegin(s)
  <2>1. PICK pc \in {"kill", "hooks"} : Begin(s, "merge", pc, FindWorker, FALSE)
    BY <1>10 DEF MergeBegin
  <2>2. task'[s].kind = "merge"
    BY <1>1, <2>1
  <2> QED BY <2>2
<1>11. CASE SweepVisit(s)
  <2>1. PICK kind, flag : kind \in {"sweepOn", "sweepOff"} /\ Begin(s, kind, "kill", sweep, flag)
    BY <1>11 DEF SweepVisit
  <2> QED BY <1>1, <2>1
<1> QED BY <1>2, <1>3, <1>4, <1>5, <1>6, <1>7, <1>8, <1>9, <1>10, <1>11 DEF Begins

LEMMA RestNext ==
  ASSUME Basic, Basic', RestInv, [Next]_vars, Resting
  PROVE  RestInv'
<1>1. ASSUME NEW s \in Slots, Act(s) PROVE RestInv'
  <2>1. /\ Len(recs') = Len(recs) /\ DOMAIN recs' = DOMAIN recs
        /\ \A r \in DOMAIN recs : recs[r].paused => recs'[r].paused
        /\ pane' = "live" => pane = "live"
    BY <1>1, RestKeeps
  <2>2. task[s] \in Task /\ TaskOK(task[s]) /\ recs \in Seq(Rec)
    BY Facts
  <2>3. ASSUME NEW q \in Slots, task[q].kind = "pause" PROVE task[q].w \in DOMAIN recs /\ task[q].pc = "pauseKill"
    BY <2>3, Facts DEF TaskOK, Bound, Task, StepsOf
  <2>5. CASE Answer(s) /\ task[s].pc = "pauseKill"
    <3>1. task[s].kind = "pause"
      BY <2>2, <2>5 DEF TaskOK, StepsOf, Kinds, AllOps, Task
    <3>2. PICK o \in Outcomes("pauseKill") : task' = [task EXCEPT ![s].ans = o.ans]
      BY <2>5 DEF Answer
    <3>3. o.ans = "ok"
      BY <3>2 DEF Outcomes, Outcome, Delays, Resting
    <3>4. task'[s].ans = "ok" /\ task'[s].kind = "pause" /\ task'[s].w = task[s].w /\ recs' = recs
      BY <2>5, <3>1, <3>2, <3>3, AnswerAs DEF Basic, Shape
    <3>5. recs[task[s].w].paused /\ task[s].w \in DOMAIN recs
      BY <2>3, <3>1 DEF RestInv
    <3>6. \A r \in DOMAIN recs : recs[r].paused
      <4>1. ASSUME NEW r \in DOMAIN recs PROVE r = task[s].w
        BY <2>2, <3>5 DEF RestInv
      <4> QED BY <3>5, <4>1
    <3>7. ASSUME NEW q \in Slots, q # s PROVE task'[q] = task[q]
      BY <1>1, <3>7, Others
    <3> QED BY <2>1, <3>1, <3>4, <3>5, <3>6, <3>7 DEF RestInv
  <2>6. CASE ~(Answer(s) /\ task[s].pc = "pauseKill")
    <3>1. pane' = "stopped" => pane = "stopped"
      <4>1. CASE Answer(s)
        <5>1. PICK pc : pc = task[s].pc
          OBVIOUS
        <5>2. PICK o \in Outcomes(pc) : pane' = o.pane
          BY <4>1, <5>1 DEF Answer
        <5>3. pc \in Pcs \ {"none", "body", "hooks", "teardown", "pauseKill"}
          BY <2>2, <2>6, <4>1, <5>1 DEF Answer, TaskOK, AnswersTo, Delays, Task
        <5>4. o.pane \in {pane, "none", "live"}
          BY <5>2, <5>3 DEF Outcomes, Outcome, Pcs
        <5> QED BY <5>2, <5>4
      <4>2. CASE ~Answer(s)
        BY <1>1, <4>2, PaneOf
      <4> QED BY <4>1, <4>2
    <3>2. ASSUME NEW q \in Slots, task'[q].kind = "pause" PROVE task'[q].ans # "err" /\ recs'[task'[q].w].paused
      <4>1. CASE task'[q] = task[q]
        BY <2>1, <2>3, <3>2, <4>1 DEF RestInv
      <4>2. CASE task'[q] # task[q]
        <5>1. q = s
          BY <1>1, <4>2, Others
        <5>2. CASE Begins(s) \/ SweepVisit(s)
          BY <3>2, <4>2, <5>1, <5>2, PausedBegin
        <5>3. CASE Answer(s)
          BY <2>3, <2>6, <3>2, <5>1, <5>3, AnswerAs
        <5>4. CASE Continues(s) /\ ~Answer(s)
          <6>1. task'[s].kind \notin {"free", "late", "start", "resume"} \cup Detached
            BY <3>2, <5>1 DEF Detached
          <6>2. KillVerify(s) /\ GoesOn(s, Pcs)
            BY <5>4, <6>1, ContinuesAs DEF Free, GoesOn
          <6> QED BY <2>3, <3>2, <5>1, <6>2 DEF KillVerify, GoesOn
        <5> QED BY <1>1, <5>2, <5>3, <5>4 DEF Act
      <4> QED BY <4>1, <4>2
    <3> QED BY <2>1, <3>1, <3>2 DEF RestInv
  <2> QED BY <2>5, <2>6
<1>2. CASE WorkerDone
  <2>1. FindWorker \in DOMAIN recs /\ recs \in Seq(Rec) /\ task' = task /\ pane' = pane
    BY <1>2, Holder DEF WorkerDone, world, Basic, Shape
  <2>2. Quiet(recs, recs')
    BY <1>2, <2>1, QuietMarks DEF WorkerDone
  <2>3. ASSUME NEW q \in Slots, task[q].kind = "pause" PROVE task[q].w \in DOMAIN recs
    BY <2>1, <2>3, Facts DEF TaskOK, Bound, Task
  <2> QED BY <2>1, <2>2, <2>3 DEF RestInv, Quiet
<1>3. CASE AgentExits \/ Work \/ UNCHANGED vars
  <2>1. task' = task /\ recs' = recs /\ (pane' = pane \/ pane' \in {"shell", "none"})
    BY <1>3 DEF AgentExits, Work, vars, cardVars
  <2> QED BY <2>1 DEF RestInv
<1>4. CASE Restore
  BY <1>4 DEF Restore, RestInv, world
<1>5. CASE Restart
  <2>1. task' = [q \in Slots |-> Free] /\ recs' = recs /\ pane' = pane
    BY <1>5 DEF Restart, world
  <2> QED BY <2>1 DEF RestInv, Free
<1> QED BY <1>1, <1>2, <1>3, <1>4, <1>5 DEF Next, Act

LEMMA DeathStep ==
  ASSUME Basic, RestInv, [Next]_vars, Resting, NEW r \in DOMAIN recs, recs'[r].flagged, ~recs[r].flagged
  PROVE  pane # "stopped"
<1>1. ASSUME NEW s \in Slots, Act(s) PROVE pane # "stopped"
  <2>1. WatchAlive(s) /\ Died(s)
    BY <1>1, QuietAct DEF Quiet
  <2>2. task[s].w \in DOMAIN recs
    BY <2>1, Facts DEF WatchAlive, At, TaskOK, Bound, Task
  <2> QED BY <2>1, <2>2 DEF Died, W, RestInv
<1>2. CASE WorkerDone
  <2>1. FindWorker \in DOMAIN recs /\ recs \in Seq(Rec)
    BY <1>2, Holder DEF WorkerDone, Basic, Shape
  <2>2. Quiet(recs, recs')
    BY <1>2, <2>1, QuietMarks DEF WorkerDone
  <2> QED BY <2>2 DEF Quiet
<1>3. CASE AgentExits \/ Work \/ UNCHANGED vars \/ Restore \/ Restart
  BY <1>3 DEF AgentExits, Work, vars, Restore, Restart
<1> QED BY <1>1, <1>2, <1>3 DEF Next, Act

\* A worker whose window a pause took is never reported as died (pauseWorker and the
\* tick, 3634-3670, 3867), whatever is parked, handed off, archived, merged or restored
\* beside it, and whenever the server restarts: while nothing starts, resumes or
\* reopens it and no kill fails.
THEOREM PausesAreNoDeaths == Resting => (Spec => PauseIsNoDeath)
<1> SUFFICES ASSUME Resting PROVE Spec => PauseIsNoDeath
  OBVIOUS
<1> DEFINE Inv == Basic /\ RestInv
           Death == \A r \in DOMAIN recs : recs'[r].flagged /\ ~recs[r].flagged => pane # "stopped"
<1>1. Init => Inv
  BY BasicInit, RestInit
<1>2. Inv /\ [Next]_vars => Inv'
  BY BasicNext, RestNext
<1>3. Inv /\ [Next]_vars => [Death]_vars
  BY DeathStep
<1>4. Spec => [][Death]_vars
  <2> HIDE DEF Inv, Death
  <2> QED BY <1>1, <1>2, <1>3, PTL DEF Spec
<1> QED BY <1>4 DEF PauseIsNoDeath

(* A park leaves nobody behind, failing kills included, while nobody makes  *)
(* the card's worker live again.                                            *)
Parking == Ops \cap {"start", "resume", "send"} = {}
ParkInv == \A s \in Slots : task[s].kind = "park" /\ task[s].ans = "down" => pane # "live"

LEMMA ParkNext ==
  ASSUME Basic, ParkInv, [Next]_vars, Parking
  PROVE  ParkInv'
<1>1. ASSUME NEW s \in Slots, Act(s), NEW q \in Slots, task'[q].kind = "park", task'[q].ans = "down"
      PROVE  pane' # "live"
  <2>1. pane' = "live" => pane = "live"
    <3>1. task[s].kind # "start" /\ "resume" \notin Ops
      BY Facts DEF TaskOK, AllOps, Parking
    <3> QED BY <1>1, <3>1, LiveBy
  <2>2. task[s] \in Task /\ TaskOK(task[s])
    BY Facts
  <2>4. task[q].kind = "park" => task[q].pc = "alive"
    BY Facts DEF TaskOK, StepsOf
  <2>5. CASE task'[q] = task[q]
    BY <1>1, <2>1, <2>5 DEF ParkInv
  <2>6. CASE task'[q] # task[q]
    <3>1. q = s
      BY <1>1, <2>6, Others
    <3>2. CASE Begins(s) \/ SweepVisit(s)
      BY <1>1, <2>6, <3>1, <3>2, BegunAs DEF AwaitOf, Delays
    <3>3. CASE Answer(s)
      <4>1. task[s].pc = "alive"
        BY <1>1, <2>4, <3>1, <3>3, AnswerAs
      <4>2. PICK o \in Outcomes("alive") : task' = [task EXCEPT ![s].ans = o.ans] /\ pane' = o.pane
        BY <3>3, <4>1 DEF Answer
      <4>3. o.ans = "down"
        BY <1>1, <2>2, <3>1, <4>2 DEF Basic, Shape, Task
      <4> QED BY <4>2, <4>3 DEF Outcomes, Outcome
    <3>4. CASE Continues(s) /\ ~Answer(s)
      <4>1. task'[s].kind \notin {"free", "late", "start", "resume"} \cup Detached
        BY <1>1, <3>1 DEF Detached
      <4>2. KillVerify(s) /\ GoesOn(s, Pcs)
        BY <3>4, <4>1, ContinuesAs DEF Free, GoesOn
      <4> QED BY <1>1, <2>4, <3>1, <4>2 DEF KillVerify, GoesOn
    <3> QED BY <1>1, <3>2, <3>3, <3>4 DEF Act
  <2> QED BY <2>5, <2>6
<1>2. CASE WorkerDone \/ Restore
  BY <1>2 DEF WorkerDone, Restore, world, ParkInv
<1>3. CASE AgentExits \/ Work \/ UNCHANGED vars
  <2>1. task' = task /\ (pane' = pane \/ pane' \in {"shell", "none"})
    BY <1>3 DEF AgentExits, Work, vars
  <2> QED BY <2>1 DEF ParkInv
<1>4. CASE Restart
  BY <1>4 DEF Restart, Free, ParkInv
<1> QED BY <1>1, <1>2, <1>3, <1>4 DEF Next, Act, ParkInv

LEMMA ParkStep ==
  ASSUME Basic, ParkInv, WorkingHasWorker, [Next]_vars,
         onBoard, col = "working", col' = "backlog", pane = "live"
  PROVE  InFlight({"handoff", "start", "resume"})
<1>1. ASSUME NEW s \in Slots, Begins(s) \/ SweepVisit(s) PROVE FALSE
  BY <1>1 DEF Begins, SweepVisit, StartBegin, ResumeBegin, SendBegin, PauseBegin, ParkBegin, WatchBegin,
     HandoffBegin, ArchiveBegin, MergeBegin, cardVars, WorkingHasWorker
<1>2. ASSUME NEW s \in Slots, Continues(s) PROVE HandoffMoved(s) \/ ParkAlive(s)
  BY <1>2 DEF Continues, Answer, KillVerify, StartAlive, StartKilled, StartReleased, StartStale, StartCreated,
     StartSpawned, StartUndone, Resumed, ResumeUndone, SendAlive, PauseKilled, WatchAlive, MoveTo, EnterWorking,
     LateKilled, SweepKilled, Archived, DetachedKilled, HooksRan, TornDown, Released, cardVars
<1>3. ASSUME NEW s \in Slots, HandoffMoved(s) PROVE InFlight({"handoff", "start", "resume"})
  BY <1>3 DEF HandoffMoved, At, InFlight
<1>4. ASSUME NEW s \in Slots, ParkAlive(s) PROVE FALSE
  BY <1>4 DEF ParkAlive, ParkAllowed, At, Says, ParkInv
<1>5. CASE WorkerDone \/ AgentExits \/ Work \/ UNCHANGED vars \/ Restart
  BY <1>5 DEF WorkerDone, AgentExits, Work, vars, Restart, cardVars
<1>6. CASE Restore
  BY <1>6 DEF Restore
<1> QED BY <1>1, <1>2, <1>3, <1>4, <1>5, <1>6 DEF Next

\* A park leaves no live worker on a Backlog card (parkCard, 3685-3712): it acts on a
\* liveness that was asked before, and that answer still holds, whatever is paused,
\* killed, handed off, archived, merged, swept or restored meanwhile, kills that fail or
\* lie included, while nothing starts, resumes or reopens the worker.
THEOREM ParksLeaveNobody == Parking => (Spec => ParkLeavesNobody)
<1> SUFFICES ASSUME Parking PROVE Spec => ParkLeavesNobody
  OBVIOUS
<1> DEFINE Inv == Basic /\ WorkingHasWorker /\ LeavingInv /\ ParkInv
           Park == onBoard /\ col = "working" /\ col' = "backlog" /\ pane = "live"
                     => InFlight({"handoff", "start", "resume"})
<1>1. Init => Inv
  BY BasicInit, LeavingInit DEF Init, Free, ParkInv
<1>2. Inv /\ [Next]_vars => Inv'
  BY BasicNext, LeavingNext, ParkNext DEF Parking, NoReopen
<1>3. Inv /\ [Next]_vars => [Park]_vars
  BY ParkStep
<1>4. Spec => [][Park]_vars
  <2> HIDE DEF Inv, Park
  <2> QED BY <1>1, <1>2, <1>3, PTL DEF Spec
<1> QED BY <1>4 DEF ParkLeavesNobody

=============================================================================

------------------------------ MODULE Trace --------------------------------
(***************************************************************************)
(* The trace of the workspace's hooks (src/server/hooks.js): every run, of  *)
(* a lifecycle event's hooks or of a named one, and every window a schedule *)
(* skips, appends one line to hookruns.jsonl; the hooks screen, the         *)
(* schedules and `hook runs` read the file backwards, chunk by chunk, in a  *)
(* bounded window.  The file is never rewritten: a line torn by a crash or  *)
(* by a full disk stays where it is, and the next one is glued to it.       *)
(*                                                                         *)
(* A line is Size cells and a newline.  Who may run beside whom, the child   *)
(* of a run and its cancel are Hooks'.                                      *)
(***************************************************************************)
EXTENDS Naturals, FiniteSets, Sequences
LOCAL INSTANCE SequencesExt

CONSTANTS
  Hook,        \* the hooks there can be: a name, in an event's directory or Named
  Schedules,   \* triggers of schedules; another caller says "cli"
  Packaged,    \* the names the tool installs into a workspace
  Size,        \* cells of a record
  Chunks,      \* SCAN_CHUNK, in cells
  Near, Far,   \* LAST_RUN_BYTES and SCAN_BUDGET, in cells
  Over,        \* how many runs of its hook are read per firing of a schedule
  MaxBatches,  \* bound: lifecycle events under way
  MaxRuns,     \* bound: lines handed to the trace
  MaxTears     \* bound: appends cut short, crashes

Named == "named"
Free == "free"
Names == {h.name : h \in Hook}              \* numbered in the order readdir sorts them
EventDirs(hooks) == {h.event : h \in hooks} \ {Named}
Events == EventDirs(Hook)
TraceAssumption ==
  /\ Names \subseteq Nat /\ [name : Packaged, event : {Named}] \subseteq Hook
  /\ Free \notin Schedules /\ (Schedules \cup {"cli"}) \cap Events = {}
  /\ {Size, Over} \cup Chunks \subseteq Nat \ {0}
  /\ {Near, Far, MaxBatches, MaxRuns, MaxTears} \subseteq Nat /\ Near <= Far

VARIABLES
  installed,   \* the hooks on disk
  batches,     \* runHooks under way: the event and the names still to run
  inFlight,    \* inFlight[n]: the trigger of the run that holds the name
  file,        \* hookruns.jsonl: cells <<record, part>>, and NL
  traced,      \* ghost: the records handed to the trace, whose, and how much was written
  tears
vars == <<installed, batches, inFlight, file, traced, tears>>

NL == <<0, 0>>
NoHook == [n \in Names |-> Free]

Init ==
  /\ installed \in SUBSET Hook
  /\ batches = <<>> /\ inFlight = NoHook
  /\ file = <<>> /\ traced = <<>> /\ tears = 0

--------------------------------------------------------------------------
(* What is on disk: his to add and to remove; an init adds what is missing. *)
Adds ==
  /\ \E h \in Hook \ installed : installed' = installed \cup {h}
  /\ UNCHANGED <<batches, inFlight, file, traced, tears>>
Removes ==
  /\ \E h \in installed : installed' = installed \ {h}
  /\ UNCHANGED <<batches, inFlight, file, traced, tears>>
Seeds ==
  /\ installed' = installed \cup [name : Packaged, event : {Named}]
  /\ UNCHANGED <<batches, inFlight, file, traced, tears>>

NamedHookFile(n) == [name |-> n, event |-> Named] \in installed
ListAllHooks == installed
ListHooks(e) == SetToSortSeq({h.name : h \in {g \in installed : g.event = e}}, <)

--------------------------------------------------------------------------
(* The trace: one append of a record and its newline, whole or cut short.   *)
Line(id) == [k \in 1..Size + 1 |-> IF k <= Size THEN <<id, k>> ELSE NL]
Traces(hook, trigger) ==
  /\ Len(traced) < MaxRuns
  /\ \E wrote \in 0..Size + 1 :
       /\ IF wrote = Size + 1 THEN UNCHANGED tears ELSE tears < MaxTears /\ tears' = tears + 1
       /\ file' = file \o SubSeq(Line(Len(traced) + 1), 1, wrote)
       /\ traced' = Append(traced, [by |-> hook, hook |-> hook.name, trigger |-> trigger, wrote |-> wrote])

\* A lifecycle event runs the hooks its directory lists now, one after another.
RunHooks ==
  /\ Len(batches) < MaxBatches
  /\ \E e \in Events : ListHooks(e) # <<>> /\ batches' = Append(batches, [event |-> e, left |-> ListHooks(e)])
  /\ UNCHANGED <<installed, inFlight, file, traced, tears>>
HookEnds ==
  /\ \E b \in DOMAIN batches :
       LET e == batches[b].event IN
       /\ Traces([name |-> Head(batches[b].left), event |-> e], e)
       /\ batches' = IF Len(batches[b].left) = 1 THEN RemoveAt(batches, b)
                     ELSE [batches EXCEPT ![b].left = Tail(@)]
  /\ UNCHANGED <<installed, inFlight>>

RunNamedHook ==
  /\ \E n \in Names, t \in Schedules \cup {"cli"} :
       /\ NamedHookFile(n) /\ inFlight[n] = Free
       /\ inFlight' = [inFlight EXCEPT ![n] = t]
  /\ UNCHANGED <<installed, batches, file, traced, tears>>
NamedEnds ==
  /\ \E n \in Names :
       /\ inFlight[n] # Free
       /\ Traces([name |-> n, event |-> Named], inFlight[n])
       /\ inFlight' = [inFlight EXCEPT ![n] = Free]
  /\ UNCHANGED <<installed, batches>>

\* A window whose hook is busy is a line too.
RecordSkip ==
  /\ \E n \in Names, s \in Schedules :
       /\ NamedHookFile(n) /\ inFlight[n] # Free
       /\ Traces([name |-> n, event |-> Named], s)
  /\ UNCHANGED <<installed, batches, inFlight>>

\* The runs of a server that dies are not traced.
Crash ==
  /\ tears < MaxTears /\ tears' = tears + 1
  /\ batches' = <<>> /\ inFlight' = NoHook
  /\ UNCHANGED <<installed, file, traced>>

Next == Adds \/ Removes \/ Seeds \/ RunHooks \/ HookEnds \/ RunNamedHook \/ NamedEnds \/ RecordSkip \/ Crash
Spec == Init /\ [][Next]_vars

--------------------------------------------------------------------------
(* Reading it back: scanBack.  The bytes in hand are file[lo + 1 .. end].   *)
Newlines(from, to) == {i \in from..to : file[i] = NL}
StartOf(e) == LET before == Newlines(1, e - 1) IN
              IF before = {} THEN 1 ELSE 1 + CHOOSE i \in before : \A j \in before : j <= i
\* The record a line's cells parse to, or 0: a fragment, or two glued, is neither.
Parse(from, to) ==
  IF /\ to = from + Size - 1
     /\ \A k \in 1..Size : file[from + k - 1] = <<file[from][1], k>>
  THEN file[from][1] ELSE 0
Parsed(ids) == SelectSeq(ids, LAMBDA id : id # 0)
LinesIn(from, to) ==                     \* newest first; the last one may have no newline
  LET ends == SetToSortSeq(Newlines(from, to) \cup {to + 1}, >)
      startOf(i) == IF i = Len(ends) THEN from ELSE ends[i + 1] + 1
  IN Parsed([i \in DOMAIN ends |-> Parse(startOf(i), ends[i] - 1)])

ScanBack(chunk, reach) ==
  LET size == Len(file)
      floor == IF size > reach THEN size - reach ELSE 0
      walk[pos \in 0..size, end \in 0..size] ==
        IF pos <= floor THEN IF pos = 0 THEN LinesIn(1, end) ELSE <<>>
        ELSE LET lo == IF pos - floor > chunk THEN pos - chunk ELSE floor
                 nls == Newlines(lo + 1, end)
                 nl == CHOOSE i \in nls : \A j \in nls : i <= j
             IN IF nls = {} THEN walk[lo, end]
                ELSE LinesIn(nl + 1, end) \o walk[lo, nl - 1]
  IN walk[size, size]

FirstOf(scan, Test(_)) ==
  LET i == SelectInSeq(scan, LAMBDA id : Test(traced[id])) IN IF i = 0 THEN 0 ELSE scan[i]

IsRunOf(r, h, hooks) ==
  /\ r.hook = h.name
  /\ IF h.event = Named THEN r.trigger \notin EventDirs(hooks) ELSE r.trigger = h.event
LastRun(h, chunk) == FirstOf(ScanBack(chunk, Near), LAMBDA r : IsRunOf(r, h, ListAllHooks))

LastRunFor(n, s, chunk) == FirstOf(ScanBack(chunk, Near), LAMBDA r : r.hook = n /\ r.trigger = s)
FirstN(s, n) == SubSeq(s, 1, IF Len(s) < n THEN Len(s) ELSE n)
ReadRuns(n, limit, chunk) == FirstN(SelectSeq(ScanBack(chunk, Far), LAMBDA id : traced[id].hook = n), limit)
ScheduleRuns(n, s, limit, chunk) ==
  FirstN(SelectSeq(ReadRuns(n, limit * Over, chunk), LAMBDA id : traced[id].trigger = s), limit)

--------------------------------------------------------------------------
(* The whole lines of the window, said without walking.                     *)
Ends == Newlines(1, Len(file)) \cup {Len(file) + 1}
Window(reach) ==
  LET inside == {e \in Ends : StartOf(e) = 1 \/ StartOf(e) > Len(file) + 1 - reach}
      whole == {e \in inside : Len(file) <= reach \/ StartOf(e) > 1}
  IN {Parse(StartOf(e), e - 1) : e \in whole} \ {0}
MaxOf(ids) == IF ids = {} THEN 0 ELSE CHOOSE i \in ids : \A j \in ids : j <= i

\* Whatever the chunks cut in two, a walk reads the whole lines of its window, newest
\* first, each once (hooks.js 453-495).
ScanIsLines ==
  \A chunk \in Chunks, reach \in {Near, Far} :
    ScanBack(chunk, reach) = SetToSortSeq(Window(reach), >)

\* What a hook's row shows is the last run of that hook in reach.  The runs of an event
\* whose directory holds no hook any more pass for those of the named hook that has
\* their name (hooks.js 286-294, 525-541).
LastRunShown ==
  \A chunk \in Chunks, h \in installed :
    LET gone == Events \ EventDirs(installed)
        mine == {i \in Window(Near) : \/ traced[i].by = h
                                      \/ /\ h.event = Named /\ traced[i].by.name = h.name
                                         /\ traced[i].by.event \in gone}
    IN LastRun(h, chunk) = MaxOf(mine)

\* A torn line costs itself and the line appended behind it, and nothing else
\* (hooks.js 453-460).
TornCostsTwo ==
  \A i \in DOMAIN traced :
    (traced[i].wrote = Size + 1 /\ i \notin Window(Len(file)))
      => LET before == MaxOf({j \in 1..i - 1 : traced[j].wrote > 0})
         IN before # 0 /\ traced[before].wrote <= Size

\* The last firing a schedule shows is the first of its own page's firings, unless its
\* hook has run more often since than the page reads (server.js 4408, 5665).
FiringsAgree ==
  \A chunk \in Chunks, n \in Names, s \in Schedules :
    LET last == LastRunFor(n, s, chunk)
        since == {i \in Window(Far) : traced[i].hook = n /\ i > last}
    IN (last # 0 /\ Cardinality(since) < Over) => ScheduleRuns(n, s, 1, chunk) = <<last>>
============================================================================

------------------------------- MODULE Usage -------------------------------
(***************************************************************************)
(* Where the tokens go.  The agents write transcripts; a run of the index  *)
(* (src/server/usage.js runIndex, a process of its own: the server's child *)
(* or a named hook's) reads the tails that grew, folds every response into *)
(* the facts and saves facts, context and state in that order; the server  *)
(* answers a look from its cached store and starts a run when that is old. *)
(* Claude's quota reaches the trail by two hands: every status line        *)
(* (src/harness/statusline.js), and the run, from the status lines' files. *)
(*                                                                         *)
(* A transcript line is a response and how many tokens it had cost when    *)
(* the line was written.  One fact row stands for all of them, one owner   *)
(* for the attribution maps.  The time of a reading is its number.         *)
(***************************************************************************)
EXTENDS Integers, Sequences, FiniteSets, SequencesExt

CONSTANTS
  Runners,     \* processes that may run the index, "server" the server's child
  Files,       \* transcripts, numbered: a run goes through them, and they come to be, in order
  Sessions,    \* sessions whose status line carries the quota
  MaxCost,     \* bound: tokens a response ends up at
  MaxWork,     \* bound: lines written and status lines drawn, together
  Trouble, MaxTrouble   \* what may happen besides (see TroubleKinds), how many of them

TroubleKinds == {"killed",  \* a run, before it saved anything or after it saved all
  "halfsaved",              \* a run, between its files
  "raced",                  \* a run removes the lock of one that just took over a dead one's
  "slow",                   \* a run that is not over when its lock is too old
  "aged",                   \* three days pass over the responses so far
  "replaced",               \* a transcript, by a copy of itself
  "truncated",              \* a transcript loses its last line
  "gone",                   \* a transcript is deleted
  "unlisted",               \* a run cannot list the transcripts' directory
  "forked",                 \* a transcript opens with a copy of another's last response
  "moved"}                  \* a card changes hands

UsageAssumption ==
  /\ Files \subseteq Nat
  /\ {MaxCost, MaxWork, MaxTrouble} \subseteq Nat
  /\ Trouble \subseteq TroubleKinds /\ "server" \in Runners

VARIABLES
  log, torn, ino,  \* the transcripts: lines, is the last one still being written, inode
  made, old,       \* responses so far, numbered; those more than SEEN_TTL_MS old
  owner,           \* the board's: who the work belongs to
  lock,            \* index.lock: whose it is, and is it older than LOCK_STALE_MS
  runs,            \* each runner's process
  disk,            \* facts.json, context.json and state.json
  cache, fresh,    \* usageCache, what he was last shown: the store, and is it of state.json's mtime
  sidecar, last,   \* statusline/<session>.json; quota.last.claude
  line,            \* each session's status line: the reading it is to record, and how far it is
  trail,           \* quota.jsonl
  work,            \* lines and readings so far
  counted,         \* history: the most each response was ever counted at
  troubles         \* history: which befell, each once
text   == <<log, torn, ino, made, old>>
store  == <<disk, counted>>
server == <<cache, fresh>>
quota  == <<sidecar, last, line, trail>>
world  == <<text, owner, work>>
vars   == <<world, lock, runs, store, server, quota, troubles>>

NoFact == [tok |-> 0, n |-> 0]
NoReading == [ts |-> 0, w |-> 0]
NoState == [files |-> << >>, seen |-> << >>, sidecarAt |-> 0, quotaLast |-> NoReading]
Steps == {"idle", "unlink", "wx", "read", "facts", "state"}
Idle == [pc |-> "idle", todo |-> {}, live |-> {}, state |-> NoState, facts |-> NoFact,
         owner |-> 0, got |-> << >>]

TypeOK ==
  /\ \A f \in Files : \A i \in 1..Len(log[f]) : log[f][i] \in [key : 1..made, cost : 1..MaxCost]
  /\ torn \in [Files -> BOOLEAN] /\ ino \in [Files -> 0..1] /\ old \subseteq 1..made
  /\ owner \in 0..1 /\ cache.owner \in 0..1
  /\ lock.by \in Runners \cup {"nobody"} /\ lock.stale \in BOOLEAN
  /\ \A p \in Runners : runs[p].pc \in Steps /\ runs[p].todo \subseteq Files
  /\ DOMAIN disk.state.files \subseteq Files /\ DOMAIN disk.state.seen \subseteq 1..made
  /\ fresh \in BOOLEAN /\ troubles \subseteq Trouble

Init ==
  /\ log = [f \in Files |-> << >>] /\ torn = [f \in Files |-> FALSE]
  /\ ino = [f \in Files |-> 0] /\ made = 0 /\ old = {} /\ owner = 0
  /\ lock = [by |-> "nobody", stale |-> FALSE]
  /\ runs = [p \in Runners |-> Idle]
  /\ disk = [facts |-> NoFact, owner |-> 0, state |-> NoState]
  /\ cache = [facts |-> NoFact, owner |-> 0] /\ fresh = FALSE
  /\ sidecar = [s \in Sessions |-> NoReading] /\ last = 0
  /\ line = [s \in Sessions |-> [pc |-> "idle", w |-> 0, ts |-> 0]] /\ trail = << >>
  /\ work = 0 /\ counted = << >> /\ troubles = {}

Befalls(kind) == /\ kind \in Trouble \ troubles /\ Cardinality(troubles) < MaxTrouble
                 /\ troubles' = troubles \cup {kind}
Most(a, b) == IF a > b THEN a ELSE b
Of(fn, k) == IF k \in DOMAIN fn THEN fn[k] ELSE 0
Without(fn, ks) == [x \in DOMAIN fn \ ks |-> fn[x]]

Holding(p) == runs[p].pc \in {"read", "facts", "state"}

-----------------------------------------------------------------------------
(* The transcripts                                                         *)

Lines(f, from, to) == {log[f][i] : i \in {j \in 1..Len(log[f]) : from < j /\ j <= to}}
Complete(f) == Len(log[f]) - (IF torn[f] THEN 1 ELSE 0)
End(f) == log[f][Len(log[f])]

Says(f, l) ==
  /\ work < MaxWork /\ work' = work + 1
  /\ ~torn[f] /\ \A g \in Files : g < f => log[g] # << >>
  /\ log' = [log EXCEPT ![f] = Append(@, l)]
  /\ torn' = [torn EXCEPT ![f] = TRUE]
  /\ UNCHANGED <<ino, old, owner, lock, runs, store, server, quota>>
Responds(f) == /\ made' = made + 1 /\ Says(f, [key |-> made + 1, cost |-> 1])
               /\ UNCHANGED troubles
\* A later line of the same response, that has cost more by then.
Streams(f) == /\ log[f] # << >> /\ End(f).key \notin old /\ End(f).cost < MaxCost
              /\ Says(f, [End(f) EXCEPT !.cost = @ + 1])
              /\ UNCHANGED <<made, troubles>>
Forks(f, g) == /\ log[f] = << >> /\ log[g] # << >> /\ ~torn[g] /\ Says(f, End(g))
               /\ Befalls("forked") /\ UNCHANGED made
Ends(f) ==
  /\ torn[f] /\ torn' = [torn EXCEPT ![f] = FALSE]
  /\ UNCHANGED <<log, ino, made, old, owner, work, lock, runs, store, server, quota, troubles>>
Meddled ==
  /\ \/ /\ Befalls("aged") /\ old' = 1..made /\ UNCHANGED <<log, torn, ino>>
        /\ \A f \in Files : ~torn[f]
        /\ \A p \in Runners : ~Holding(p)
     \/ /\ Befalls("replaced") /\ \E f \in Files : ino' = [ino EXCEPT ![f] = 1 - @]
        /\ UNCHANGED <<log, torn, old>>
     \/ /\ Befalls("truncated")
        /\ \E f \in Files : /\ Len(log[f]) > 0 /\ ~torn[f]
                            /\ log' = [log EXCEPT ![f] = Front(@)]
        /\ UNCHANGED <<ino, torn, old>>
     \/ /\ Befalls("gone")
        /\ \E f \in Files : /\ log' = [log EXCEPT ![f] = << >>]
                            /\ torn' = [torn EXCEPT ![f] = FALSE]
                            /\ ino' = [ino EXCEPT ![f] = 1 - @]
        /\ UNCHANGED old
  /\ UNCHANGED <<made, owner, work, lock, runs, store, server, quota>>
Moves ==
  /\ Befalls("moved") /\ owner' = 1 - owner
  /\ UNCHANGED <<text, work, lock, runs, store, server, quota>>

-----------------------------------------------------------------------------
(* A run: the lock                                                         *)

Goes(p, pc) == runs' = [runs EXCEPT ![p].pc = pc]
Over(p) == runs' = [runs EXCEPT ![p] = Idle]
\* A process, as far as its look at the lock: a live lock ends it.
Starts(p) ==
  /\ runs[p].pc = "idle"
  /\ lock.by = "nobody" \/ lock.stale
  /\ Goes(p, IF lock.by = "nobody" THEN "wx" ELSE "unlink")
outside == <<world, store, server, quota>>

HookFires(p) == /\ p # "server" /\ Starts(p)
                /\ UNCHANGED <<outside, lock, troubles>>
Unlink(p) ==
  /\ runs[p].pc = "unlink" /\ Goes(p, "wx")
  /\ lock' = [by |-> "nobody", stale |-> FALSE]
  /\ IF lock.by # "nobody" /\ ~lock.stale THEN Befalls("raced") ELSE UNCHANGED troubles
  /\ UNCHANGED outside

There == {f \in Files : log[f] # << >>}
Loaded(p, fs) == runs' = [runs EXCEPT ![p] = [Idle EXCEPT
  !.pc = "read", !.live = fs, !.todo = fs, !.state = disk.state, !.facts = disk.facts]]
TakeAnyway(p) ==                                            \* (a mutant's)
  /\ runs[p].pc = "wx" /\ Loaded(p, There) /\ lock' = [by |-> p, stale |-> FALSE]
  /\ UNCHANGED <<outside, troubles>>
\* The lock, then the store and the list of the transcripts.
Take(p) ==
  /\ runs[p].pc = "wx"
  /\ IF lock.by # "nobody" THEN Over(p) /\ UNCHANGED <<lock, troubles>>
     ELSE /\ lock' = [by |-> p, stale |-> FALSE]
          /\ \/ Loaded(p, There) /\ UNCHANGED troubles
             \/ Loaded(p, {}) /\ Befalls("unlisted")
  /\ UNCHANGED outside

\* LOCK_STALE_MS go by: over a dead run's lock always, over a live one's when it is slow.
LockAges ==
  /\ lock.by # "nobody" /\ ~lock.stale /\ lock' = [lock EXCEPT !.stale = TRUE]
  /\ IF Holding(lock.by) THEN Befalls("slow") ELSE UNCHANGED troubles
  /\ UNCHANGED <<outside, runs>>
\* execFile's time limit, or somebody's kill: no finally, and the lock stays.
Killed(p) ==
  /\ runs[p].pc # "idle" /\ Over(p)
  /\ Befalls(IF runs[p].pc = "state" THEN "halfsaved" ELSE "killed")
  /\ UNCHANGED <<outside, lock>>

-----------------------------------------------------------------------------
(* A run: the transcripts                                                  *)

OffsetKept(st, f) == IF f \in DOMAIN st.files THEN st.files[f].off ELSE 0   \* (a mutant's)
\* Where to go on reading: at the top of a file that shrank or is another file now.
Offset(st, f) ==
  IF f \notin DOMAIN st.files \/ Complete(f) < st.files[f].off \/ ino[f] # st.files[f].ino
  THEN 0 ELSE st.files[f].off

Dearest(ls, k) == LET cs == {l.cost : l \in {m \in ls : m.key = k}}
                  IN IF cs = {} THEN 0 ELSE CHOOSE c \in cs : \A d \in cs : d <= c
Seen(seen, ls) == [k \in DOMAIN seen \cup {l.key : l \in ls} |-> Most(Of(seen, k), Dearest(ls, k))]
AddedEach(facts, seen, ls) ==                               \* (a mutant's)
  [tok |-> facts.tok + MapThenSumSet(LAMBDA l : l.cost, ls), n |-> facts.n + Cardinality(ls)]
\* Each response at the most it was ever seen with; a later copy adds what it has more.
Added(facts, seen, ls) ==
  [tok |-> facts.tok + MapThenSumSet(LAMBDA k : Seen(seen, ls)[k] - Of(seen, k), {l.key : l \in ls}),
   n |-> facts.n + Cardinality({l.key : l \in ls} \ DOMAIN seen)]

ToTheEnd(f) == Len(log[f])                                  \* (a mutant's)
\* The complete lines; one still being written is left for the next run.
ReadTo(f) == Complete(f)

Read(p) ==
  /\ runs[p].pc = "read" /\ runs[p].todo # {}
  /\ LET r == runs[p]
         f == CHOOSE g \in r.todo : \A h \in r.todo : g <= h
         ls == Lines(f, Offset(r.state, f), Complete(f))
     IN runs' = [runs EXCEPT ![p] = [r EXCEPT
          !.todo = @ \ {f}, !.facts = Added(@, r.state.seen, ls), !.got = Seen(@, ls),
          !.state.seen = Seen(@, ls),
          !.state.files = [g \in DOMAIN @ \cup {f} |->
                             IF g = f THEN [off |-> ReadTo(f), ino |-> ino[f]] ELSE @[g]]]]
  /\ UNCHANGED <<outside, lock, troubles>>

-----------------------------------------------------------------------------
(* A run: the quota, and the saves                                         *)

\* appendQuota: a change, and later than the last.
Grown(acc, q) ==
  IF acc.q.w = q.w \/ q.ts <= acc.q.ts THEN acc
  ELSE [q |-> q, trail |-> Append(acc.trail, q)]
Newer(since) == SetToSortSeq({sidecar[s] : s \in {t \in Sessions : sidecar[t].ts > since}},
                             LAMBDA a, b : a.ts < b.ts)
\* Who each session, branch and folder belongs to, by the boards and the harness' records.
Context == owner
\* The sidecars since the last run; the files and responses to forget; the attribution.
Harvest(p) ==
  /\ runs[p].pc = "read" /\ runs[p].todo = {}
  /\ LET st == runs[p].state
         new == Newer(st.sidecarAt)
         end == FoldLeft(Grown, [q |-> st.quotaLast, trail |-> trail], new)
     IN /\ trail' = end.trail
        /\ runs' = [runs EXCEPT ![p].pc = "facts", ![p].owner = Context,
             ![p].state = [st EXCEPT
               !.files = Without(@, DOMAIN @ \ runs[p].live),
               !.seen = Without(@, old),
               !.quotaLast = end.q,
               !.sidecarAt = IF new = << >> THEN @ ELSE new[Len(new)].ts]]
  /\ UNCHANGED <<world, lock, store, server, sidecar, last, line, troubles>>
\* facts.json, then context.json.
SaveFacts(p) ==
  /\ runs[p].pc = "facts" /\ Goes(p, "state")
  /\ disk' = [disk EXCEPT !.facts = runs[p].facts, !.owner = runs[p].owner]
  /\ counted' = [k \in DOMAIN counted \cup DOMAIN runs[p].got |-> Most(Of(counted, k), Of(runs[p].got, k))]
  /\ UNCHANGED <<world, lock, server, quota, troubles>>
\* state.json, and the lock is let go, whoever's it is by now.
SaveState(p) ==
  /\ runs[p].pc = "state" /\ Over(p)
  /\ disk' = [disk EXCEPT !.state = runs[p].state]
  /\ fresh' = FALSE
  /\ lock' = [by |-> "nobody", stale |-> FALSE]
  /\ UNCHANGED <<world, counted, cache, quota, troubles>>

-----------------------------------------------------------------------------
(* Looks, and status lines                                                 *)

CachedStore == cache                                        \* (a mutant's)
Attributed(context) == context.owner
\* What the answer says of the store: the facts, under whoever the context gives them to.
Summary(c) == [facts |-> c.facts, owner |-> Attributed(c)]
UsageStore == IF fresh THEN cache ELSE Summary(disk)
\* A look, at a store that is old or one that is not; or the button for a run.
Look ==
  /\ cache' = UsageStore /\ fresh' = TRUE
  /\ \/ UNCHANGED runs
     \/ Starts("server")
  /\ UNCHANGED <<world, lock, store, quota, troubles>>

\* The file first, then the trail.
Draws(s, w) ==
  /\ line[s].pc = "idle" /\ work < MaxWork /\ work' = work + 1
  /\ sidecar' = [sidecar EXCEPT ![s] = [ts |-> work', w |-> w]]
  /\ line' = [line EXCEPT ![s] = [pc |-> "check", w |-> w, ts |-> work']]
  /\ UNCHANGED <<text, owner, lock, runs, store, server, last, trail, troubles>>
SaidOnce(s) == last # 0                                     \* (a mutant's)
Said(s) == last = line[s].w
Checks(s) ==
  /\ line[s].pc = "check"
  /\ IF Said(s) THEN line' = [line EXCEPT ![s].pc = "idle"] /\ UNCHANGED last
     ELSE line' = [line EXCEPT ![s].pc = "append"] /\ last' = line[s].w
  /\ UNCHANGED <<world, lock, runs, store, server, sidecar, trail, troubles>>
Appends(s) ==
  /\ line[s].pc = "append" /\ line' = [line EXCEPT ![s].pc = "idle"]
  /\ trail' = Append(trail, [ts |-> line[s].ts, w |-> line[s].w])
  /\ UNCHANGED <<world, lock, runs, store, server, sidecar, last, troubles>>

Runs(p) == Unlink(p) \/ Take(p) \/ Read(p) \/ Harvest(p) \/ SaveFacts(p) \/ SaveState(p)
Next ==
  \/ \E f \in Files : Ends(f) \/ Responds(f) \/ Streams(f) \/ \E g \in Files : Forks(f, g)
  \/ Meddled \/ Moves \/ LockAges \/ Look
  \/ \E p \in Runners : HookFires(p) \/ Killed(p) \/ Runs(p)
  \/ \E s \in Sessions : Checks(s) \/ Appends(s) \/ \E w \in 1..2 : Draws(s, w)

\* A run goes on once it is started; a dead run's lock grows old; the captain goes on
\* looking, and finds the store old, with nothing running, again and again.
Fairness == /\ \A p \in Runners : WF_vars(Runs(p))
            /\ WF_vars(LockAges) /\ WF_vars(Look) /\ SF_vars(Look /\ Starts("server"))
Spec == Init /\ [][Next]_vars /\ Fairness

-----------------------------------------------------------------------------
Sum(fn) == MapThenSumSet(LAMBDA k : fn[k], DOMAIN fn)

\* A response's tokens are in the facts once, at the most any line gave, however often a
\* transcript was read, copied, cut or read again (usage.js addRecord, runIndex).
CountedOnce == disk.facts = [tok |-> Sum(counted), n |-> Cardinality(DOMAIN counted)]

\* No two runs are past the lock together (usage.js acquireLock).
OneRun == \A p, q \in Runners : p # q /\ Holding(p) => ~Holding(q)

\* A reading of the quota a session was shown is in the trail once the status lines are
\* drawn, by whichever hand (statusline.js recordQuota).
NoReadingLost ==
  (\A s \in Sessions : line[s].pc = "idle") =>
    \A s \in Sessions : sidecar[s].ts > 0 => \E i \in 1..Len(trail) : trail[i].w = sidecar[s].w

\* The most any complete line of a transcript that is there gives for each response.
Owed == UNION {Lines(f, 0, Complete(f)) : f \in Files}
\* What is written is finally shown, and under whom it belongs to by then (usage.js
\* readLines, server.js usageReport, usageStore).
FinallyShown ==
  <>[](/\ \A l \in Owed : l.key \in DOMAIN counted /\ counted[l.key] >= l.cost
       /\ cache.facts = disk.facts /\ cache.owner = owner)

\* It holds of the trail that it moves forward in time only (usage.js appendQuota): no.
TrailForward == \A i, j \in 1..Len(trail) : i < j => trail[i].ts <= trail[j].ts
\* The trail has one line per change (statusline.js recordQuota): no.
OneLinePerChange == \A i \in 1..(Len(trail) - 1) : trail[i].w # trail[i + 1].w
\* What he is shown is attributed against the board as it stands (usage.js, header): no.
AttributedByBoard == [][Look => cache'.owner = owner]_vars
=============================================================================

# bridge-commander, specified

TLA+ models of bridge-commander - its board server (`src/server/`), the harness it
drives agents with (`src/harness/`), its command line and the page in the captain's
browser (`src/ui/js/`) - with the TLC configurations that check them on small
instances, and TLAPS proofs of the theorems that hold for every instance. Line numbers
below are lines of `src/server/server.js` unless another file is named.

## 1. The system

A captain and a handful of *lieutenants* (agents in tmux sessions) share a board of
*cards*. One Node process, the server, owns the board. It keeps a durable queue per
lieutenant, types a wake line into a lieutenant's session when something is pending,
starts *workers* (agents in windows of their lieutenant's session, each on a git
worktree) for cards, and watches sessions, pull requests and the clock. The captain's
page follows the board over an event stream, and he writes, speaks and edits files
through it.

Server and page each run on one event loop: between two `await`s a handler is atomic,
and all interleaving is at the awaits, between the two, and with the agents and the
other programs that share their files. What survives a restart of the server is what was
written: `board.json` (whole, by rename), one `.jsonl` queue and two cursor files per
lieutenant, the chat logs, the archive, the tmux sessions and the worktrees. What does
not is every in-memory map: the marks of wakes, the message index, claims, guards and
every handler in flight.

| component | state | operations | what is hard | what makes it correct |
|---|---|---|---|---|
| delivery queues (943-1053) | `queue/<lt>.jsonl`, `.ack`, `.drained`; `qseq`, `msgSeqs` in memory | push, drain, ack, retire, boot scan | partial writes, reuse of numbers and ids, stale acks | nothing consumed unserved, nothing pending lost, one item per number, index = files |
| wakes (1121-1159, 3737-3822) | `nudged`, sends in flight, the session | schedule, turn end, sweep | lost lines, stale marks, dead or deaf sessions | every pending item is consumed; a mark stands for pending items |
| crew (632-940, 2095-2372, 5117-5224) | lieutenants, prefixes and counters, cards and owners, the archive, the line | register, spawn, revive, retire, mint, reassign, archive, restore, pass the line | names and owners asked for before an await and used after it | one prefix and one id each, every card owned, the line reaches who spoke last |
| supervision (3450-3884, 5242-5278) | signals, turn ends, the ladder, the lease, what readers are shown | tick, signal, turn end, pause, status | answers that are stale when used | a silence rings, every stop is told, nobody at rest is shown at work |
| workers (2434-3712, 5311-5521) | `board.workers`, the card, the window, the worktree | start, resume, done, send, pause, park, handoff, archive, restore, merge, sweep | a dozen awaits per handler, each answer stale when used; kills that fail | one record per card, no agent without a record, Working means a worker |
| lieutenant cycles (1825-1925, 3737-3822) | the cycle guard, respawn counters, one window name | respawn, `/reset`, harness switch, revive, retire | overlapping cycles; three attempts, one bell | one agent per lieutenant, one bell per outage |
| panes (`src/harness/tmux*.js`, 1418-1540) | composers, a shared paste buffer, hubs of viewers | send, raw keys, watch | a composer that redraws, Enter lost, feeds outliving viewers | a text is submitted once or reported unsent |
| hooks and event keys (`hooks.js`, 2500-2576) | one lock per name, the child, the key store, the trace of runs | run, cancel, ask / deliver / claim | EBUSY, a cancel racing the end, a crash between deliver and claim, torn lines | one run of a name, every keyed event told, once; the trace read back whole |
| projects, worktrees, leases (`worktrees.js`, 2754-2852) | clones, a queue each, pool leases | create, release | failing fetches, shared pool, slots handed on | on the fetched tip or warned; a slot leased to one card |
| PR watch and archive (2301-2372, 3994-4066) | `pr.state`, `archive.jsonl` | tick, archive, restore | a crash between two writes | a card is on the board or in the archive; a merge is told |
| schedules (4086-4463, `schedules.js`) | a cursor each, claims in memory | tick, pass, pause, resume | a pass outliving its window or its schedule; clock changes | no window twice, none lost without a policy |
| boot and stop (285-312, 398-512, `statedir.js`, `bc-axi`) | pid file, board file, port | start, stop, migrate | two starts at once, recycled pids | one owner, acknowledged changes kept |
| first run (`bc-axi`, `firstrun.js`) | config, settings, marker, step | init and its re-runs | failures in between, a second run | his files kept, everything written or a reason |
| stream and tab (`sse.js`, `boardsync.js`, `chat.js`, `pending.js`) | notices, the tab's board, pending bubbles, pages | fetch, post, echo, page | lost notices, overlapping fetches, restarts | what he wrote is always on screen, ends current |
| read marks (`userReads`, `chat.js`, `detail.js`) | markers, picked set, badge | open, post, trim | posts that fail, a trimmed board | the badge is what the whole log says |
| web push (416-470, `webpush.js`, `push.js`, `sw.js`) | scan cursor, device store, mirror | scan, send, switch, rotate | restarts, archives, rotations | once each, for who chose it |
| cards, detail, composer, files (page and routes) | selections, runs, timelines, staged files, drafts and versions | move, label, bulk, edit, send, save, merge | requests that overtake one another, failures in the middle | what is shown is so; nothing of his is overwritten |
| voice: call, speech, dictation | takes, transcripts, queues, audio context | talk, barge in, send, play | late answers, dead audio, stop at any time | said once, heard whole, silent when told |
| activity, usage, gauges | transcripts, facts, samples | poll, index, stream | partial files, killed runs, nobody looking | counted once, dots agree, idle unwatched |

`PROJECT.json` lists these parts with their files, and the parts that are not modelled.

## 2. The modules

| module | models | rests on |
|---|---|---|
| `AtLeastOnce` | the promise of a delivery queue, without files, cursors or numbers | |
| `Queues` | the queues, their consumers, the board as far as it changes who owns a queue, restarts and crashes between two file operations | refines `AtLeastOnce` |
| `Wakes` | the wake lines, their marks, the agent's turns, the sweep over lieutenants | extends `Queues` |
| `Workers` | the life of one card's workers with every await of every handler | |
| `Supervise` | one card's worker as it is watched: signals, turns, the tick and its ladder, the lease, what a reader is shown | |
| `Roster` | the crew and what is theirs: prefixes, card ids, owners, the archive, the line | |
| `Sessions` | one lieutenant's window and everybody who may restart it | |
| `Panes` | the verified submit, raw keys, and the hub of a pane's viewers | |
| `Hooks` | a named hook's lock and child, event keys, the screen that shows them | |
| `Trace` | the trace of hook runs, torn lines included, and the backward walk its readers make | |
| `Ground` | several cards over one pool of worktrees, the PR watch, archive and restore | |
| `Base` | projects, the queue of each clone, what a new checkout stands on | |
| `Schedules` | the clock: ticks, passes, claims and cursors, policies, the hook they share | |
| `When` | what a cron expression or an interval means, on a small calendar | |
| `Boot` | servers that start, serve and stop on one workspace, and the commands for it | |
| `Onboard` | the first run of a workspace and its re-runs | |
| `Tab` | one tab and one chat: notices, fetches, optimistic sends, older pages | |
| `Unread` | read markers, devices, the bell | |
| `Push` | the phone: the scan, the store of devices, the switch, rotations | |
| `Cards`, `Detail`, `Composer`, `Files` | the captain's hands: cards and bulk runs; the card panel; what he sends; files edited by two | |
| `Call`, `Speech`, `Dictation` | the voice call; the board's voice; what he dictates | |
| `Activity`, `Usage`, `Gauges` | live dots; token counts and quota; load and usage screens | |
| `WakesProofs`, `SchedulesProofs`, `WorkersProofs`, `CrewProofs`, `GroundProofs`, `BootProofs`, `TabProofs`, `CallProofs` | theorems (section 4) | the module they name; `WakesProofs` has those about `Queues` too, `CrewProofs` is about `Roster`, `Sessions`, `Panes`, `Hooks`, `Push` and `Base` |
| `MCQueues`, `MCSchedules`, `MCWorkers`, `MCGround` | instances for TLC | |
| `MCCrew`, `MCBrowser`, `MCHost`, `MCServerLive`, `MCBrowserLive` | several parts side by side, for TLC | all of the above |

### Queues

One variable per piece of state: `queue[l]` is the set of items of the file (an item is
its number and the chat it was written in, if it is a captain's message; everything else
in an item is payload), `ack` and `drained` the cursor files, `qseq` and `msgSeqs` the
memory. `torn[l]` says that a line of the file does not parse: `readQueue` maps
`JSON.parse` over all lines inside one `try`, so the file then reads as empty
(`ReadQueue`). Actions are handlers: `CaptainMessage`, `CardEvent` and `HookFailed` are
the three ways into `queuePush`; `Drain`, `CohabitantDrain` and `ToolDrain` the three
callers `GET /api/feed` tells apart; `Ack` is `commitAck` with the check of the caller;
`RetireBegin` and `RetireCommit` are the two halves of `retireLieutenant` around its
await. `Restart` recovers the number and the index from the files. The `Crash...`
actions end the server between two file operations of one handler: inside the append of
a line, between the truncation and the write of a cursor, between the unlinks of a
retire. `hand` is what a caller believes it was served and will ack; it is not the
server's state but decides which acks can come. `served` is an auxiliary variable, what
some drain of the queue has served.

### Wakes

`nudged[l]` has three values, no mark, a mark within `WAKE_TTL_MS` and an older one;
`sends[l]` counts the `harness.send` calls in flight, those of the current mark and
older ones, because a rejected send deletes the mark whoever set it. The session goes
down, idle, woken (a turn began), working (drained). A line typed into a busy pane may
become nothing (`WakeLost`). `ScheduleWake` is evaluated on the state after the push, as
the code does.

### Workers

One card, because two cards share neither window nor worktree path in a repository
without a pool. A handler in flight is a task with the card object (`gen`: a restore
makes a new object, and the old one is what an older handler still holds), the worker
record it captured, what it awaits and the answer. Every await is two steps: `Answer`
changes the world and leaves the answer in the task, a later step of the handler reads
it, and anything may happen in between. `pane` is the card's tmux window (`stopped` is
`none` taken by a pause, told apart only for a property), `ground` the checkout, `recs`
every worker record ever pushed, `reg` telling which are still in `board.workers`.

What is simplified, and why it may be:

- hook scripts, teardown commands and request bodies are awaits that only let time pass;
- a start's own teardown of the ground it replaces has no wait of its own, being
  followed at once by the wait on the release;
- a start or resume whose card left kills what it spawned before it gives up the
  ground, as one wait after the other, and holds the card's guard until the kill has
  answered. The code lets go of the kill (3169, 3433) and of the guard at once: another
  start may then meet a window that is on its way out, which the model does not show;
- a start takes its guard in the step that finds the card: that the request's body is read
  between the two (5333) is left out. (What it costs an archive is in section 5.)
- `worker.pause --park` is a pause and then a park;
- `alive` is right about the window at the moment it is asked; a kill may throw or, with
  `KillMayFail`, report success and change nothing (`tryTmux` swallows errors of tmux);
- `board.json` is saved in the tick that changes it, so a restart loses the tasks and
  nothing of the board;
- the stall ladder and the turn's end change no state of these handlers and are in
  `Supervise`; pool leases over several cards are in `Ground`.

### Supervise, Roster

`Supervise` has the record of one worker with its stamps in units of a clock; a unit is
long enough for a whole tick. The tick, a reader's GET and the post of a turn's end each
ask the session and go on with the record they asked about (`Of`), whether or not it was
dropped meanwhile. The awaits of starts and kills, and a resume of a session that
lives, are those of `Workers`. `rung`, `rangAt`, `calm` and `owes` are auxiliary.

`Roster` has a lieutenant as a record with the number of its registration, a card id as
a prefix and a number, and a session as up or not. Two awaits matter: a retire waits for
its kill after it has looked for cards, a spawn for its session after it has looked for
the name. `born` tells two cards of one id apart, `minted`, `voice` and `excused` are
auxiliary: the ids minted with who minted them, who spoke to him last, and the cards
given to a lieutenant who is gone or on his way out.

### Schedules

Time is counted in windows: window `w` has come due once `clock >= w`, and a cursor
between two windows is the earlier one, which is all `dueWindows` can tell apart (the
`w - 1` millisecond of a queued window is the window before it). `sched[o]` is an object
of `board.schedules`, or one a pass still holds after it was removed; `claim[o]`, `left[o]`
and `phase[o]` are the pass, `hook` the one entry of the registry of named hooks. Settled
promises run before the event loop turns, so the steps of a pass that await nothing
(`Attempt`, `PassEnds`) come before any tick, request or exit (`Quiet`); a pass that waits
for a run it canceled is woken before the pass whose run it was (`Turn`), as the order of
the promises' reactions in `runNamedHook` and `cancelNamedHook` has it. `Due` and `Pick` are
`dueWindows` and `pickWindows`, their cap included. All schedules share one hook, the case
the overlap policy is about. What a cron expression matches is in `When`; the announcement of a
problem is left out; a problem (the hook or the owner is gone) only stops the tick.
`fired` and `account` are auxiliary.

### Sessions, Panes, Hooks

`Sessions` has one program counter per actor (the supervision tick and the captain's
commands); each action is the code between two awaits. `window` is what stands under the
lieutenant's window name, which kill and spawn address by name: two agents can stand there
at once, and `Resolves` says which of them tmux answers with. A *thread* is a conversation
id; only the harness that minted it can resume it. `Panes` has a composer per pane as the
sequence of texts typed and not yet submitted; `Submit` looks at it, presses Enter and looks
again while a popup may swallow the key. The hub of a watched pane starts its feed with an
await during which viewers come and go. `Hooks` has the registry entry of one name, the
child it spawned, and the three steps of an event key - ask, deliver, claim - with a crash
or an unwritable file after each. A run that succeeds forgets its failure's key; that write
may fail too and is only logged (2572-2574), and the key stays claimed (`StillClaimed`,
`stuck`). The store is written in place, so a write that fails leaves it as it was or torn.
`Trace` has `hookruns.jsonl` cell by cell, since what a walk reads backwards in chunks may
cut a line anywhere and an append may stop anywhere; a record is its number and the length
of its cells. Only lines torn by an append are modelled, not files edited by hand, and a
caller's trigger is never the name of an event (the command line lets one say so: such a run
would be shown as the event's).

### Ground, Base

`Ground` has several cards over one pool: a lease with its card, the bindings the cards
keep, hooks and teardown with an await each, the tick over a stack of pull requests, and
an archive as line first, board second, with a crash in between and a torn line after it.
The tick walks the cards it copied when it began (3998): `watch.old` is what that copy still
holds of a card that has left the board since - its pointer and the states of its pull
requests - and the tick asks about such a card, merges it and gives back its old slot
(2829, 2837) as if it were there. `strays` has the slots that were another card's by then.
A pull request is open, merged (`github`) or closed without a merge (`shut`); a closing is
told at once and counts as not open (4008-4013). `Keeps` is a departure for good whose
ground was not given back: the record goes, the pointer stays.
`Base` has the history of origin as a number, refs as numbers, one queue of operations per
clone, and every git command as a step that may fail. The one command that takes a refused
start's ground back (`git worktree remove --force`, `treehouse return`) may fail like any
other, and nobody looks at what it said (220, 242, 243); neither is a lease given back when
the pool answers without a path, nor what an `add` that failed had made. `remains` has what
was left; a directory that was left ends every later start of its card with "worktree path
already exists" (230, `PathExists`).

### Boot, Onboard, When

`Boot` has processes by pid, the pid file, the board on disk and in memory and the port.
The pid of a dead server may be worn by another program, and `worn` says what its command
line shows: another program, one with an argument called `server.js`, or nothing that can be
read. `looksLikeOurServer` answers yes, no or unknown (292-302), and only a no lets a boot go
on; the number may also be that of the very server that boots, which then takes itself for
the owner. A command gives up after twenty polls, whatever still boots (`bc-axi` 294-299).
`Onboard` has the run's place, the files it merges or copies, and what the server was
told. `When` evaluates the expressions over a calendar with two minutes to an hour, two
hours to a day, three days to a week, two days to a month: every rule that wraps, wraps
there. `catchup`, the naps of the machine and the changes of the offset are inputs.

### Tab, Unread, Push

`Tab` knows a board answer by the length of the log when it was served. `Unread` has the
marker of a thread, the floor and the set picked above it, and devices that hold a trimmed board.
`Push` has one device, whose endpoint may rotate, be lost or be pruned, and requests that
overlap.

### Cards, Detail, Composer, Files

`Cards` finds a card before it has the body of the request, as the routes do, and a
restore makes a new object. `Detail` has an event as its number; a PDF that only the
server's answer tells to be one (`Unlabelled`) takes the viewer's run after that await
(`detail.js` 745-773), any other at the open. `Composer` has the
upload of each file and the message after them as separate requests. `Files` has a
content as the set of marks in it and a version as the content, so that the merge of two
drawings and the refusal of a stale write are set operations. That a drawing whose canvas is
not loaded is not saved (`detail.js` 483-488) is left out: it only shows a message.

### Call, Speech, Dictation

`Call` is the reducer of `callcore.js` with the microphone, the takes, the chain of
transcripts and the player around it; an await is a state a later step leaves. `Speech`
has the drain loop, the buffers of one stream, the context and the element. `Dictation`
has the composer's takes and the room's, whose recordings and uploads end in any order.

### Activity, Usage, Gauges

`Activity` has a transcript line as its kind and time. `Usage` has a transcript as lines of
cumulative cost, and a run as its reads, its three saves and its lock. `Gauges` has the
sampler's loop, its subscribers and the panels' streams.

### Parts side by side

The `MC` modules of the last row instantiate several modules that share no state, each with
its constants, and a variable `which` that says which part runs in a behaviour. The parts do
not interact at the level modelled here, so a run of all of them interleaved would visit the
product of their states and show nothing more: a property of one part is true of an
interleaving exactly when it is true of the part alone. A property names its part (`which =
"panes" => ...`). The view `Running` compares states by the part that runs; the others never
change. (Of the boot and the first run, `MCHost` leaves out of the
view what neither a guard nor a property of that run tells apart, and takes two commands, or
two runs of `init`, for alike.) `crewVars = crewVars` in the initial
predicates makes TLC evaluate the variables the view leaves out. `MCWorkers` is the same
idea over three instances of `Workers` and one of `Supervise`. Each part was also run alone,
and fires every one of its actions at these bounds.

Every module also has properties that the code does *not* have under some choice of its
constants (section 5), stated beside those it has.

## 3. What is checked

Every property of a passing run has a mutant in `PROJECT.json`: the property fails when
the named definition is changed the way a plausible bug would change it.

| run | instance | shows |
|---|---|---|
| `queues` | 2 lieutenants, 1 card, 3 numbers, 1 restart or crash inside a cursor write | `OnlyServedIsSettled`, `IndexAgreesWithFiles`, `PendingKept`, and the refinement `ImplementsAtLeastOnce` |
| `workers` | four settings: a card's life (start, done, handoff, archive, restore, merge, watch; 2 handlers, 2 records, 2 card objects); kills that fail and a restart; `keep_worktree` with 3 handlers; a worker watched over 5 units of time with 4 acts | `OneWorker`, `WorkingHasWorker`, `DroppedOnlyWhenGone`; `LeftStanding`: the same of records and grounds where kills fail or worktrees are kept; `SilenceIsHeard` |
| `schedules` | 2 objects of one name, 4 windows, a cap of 2, 1 restart, every policy | `NothingMissed`, `FiredOnce`, `CursorForward` |
| `call` | 2 chunks, 1 reply, 2 touches of the buttons, both ways to end a turn | `HisTurnKept`: what he said goes once, what he binned never goes, nothing plays over him; `ButtonsObeyed`: Hang up ends it, Send is answered |
| `ground` | 2 cards, one without a pull request and one with a stack of two, 1 slot, 1 crash, restore or closed pull request, 4 archive lines | `CardKept`, `LeaseIsMine`, `MergeLands` |
| `crew` | wakes (1 lieutenant, 1 tool); queues with every crash point; sessions (1 command, 2 deaths); panes (2 panes, 2 senders, 3 hubs); hooks (3 callers, 2 losses, 1 crash); push (2 events, 1 trouble); projects (2 boards, 2 slots, one card started twice, 1 trouble; a clone that fails is in `server_live`); crew (2 names, 2 prefixes, 6 requests, 2 waiting) | `SeqsUnique`, `NudgedOnlyWhilePending`, `OneAgentOneBell`, `ToldOnce` (panes, hooks, push), `GroundFresh`, `CrewApart` |
| `browser` | tab (4 messages, pages of 1, 2 troubles); read marks; cards (2 cards, 2 labels, 2 requests); detail (a PDF opened as one, and a scan whose type is asked for); composer (2 files, 2 posts); files (1 edit by each hand, 1 trouble) | `ChatWhole`, `BellAgrees`, `BoardHonest`, `ComposerKeeps`, `WorkSafe` |
| `host` | boot (2 callers, 2 ports, 3 pids); speech (4 messages, a queue of 2); dictation; activity (2 sessions, 4 lines); onboard (3 runs, 2 at once); usage (2 runners, 2 files); when (28 units of time); trace (2 names, 1 event, 3 lines, 1 torn, records of 2 cells, chunks of 1, 2 and 4) | `OneOwner`, `AckedKept`, `VoiceWhole`, `ActivityAgrees`, `StartsHonestly`, `CountedOnce`, `NoneLostOrTwice` (when, trace) |
| `server_live` | eight parts of the server, smaller, each with its fairness | `RestIsHonest`; `CrewIsServed` and `HostSettles` under fairness |
| `browser_live` | eight parts of the page, smaller, each with its fairness | `PageSettles`, `VoiceSettles` under fairness |
| `torn_line`, `paused_fires` | the smallest instance that shows it | a disagreement between the code and what it says of itself (section 5) |

**Bounds.** Three numbers are enough for two items of one lieutenant with one of another in
between, for a number freed by a retire to be given again, and for an ack that names one
item while two wait; two lieutenants are enough for an ack to land on the wrong queue; one
crash, because the state after it is again a state of the running server with stale files.
Two handlers at a time show every race between two handlers; three are used where the
property is about a third party. Two records and two card objects are enough for a stale
handler to meet its successor. Four windows are one to arm the cursor, two for a backlog the
cap lets through and one it drops; two objects of one name are a pass whose schedule was
removed and the schedule added in its place. `Trouble` is the set of mishaps a module allows
and `MaxTrouble` how many fall in one behaviour: one is enough for a fault to meet every
state, and `Tab` and `Dictation` take two, because a retry of theirs can fail too. Two
chunks are a sentence and the one that barges in; two ports, a port taken and the one moved
to; three pids, two servers at once and a pid used again; two starts of one card, one that
fails and one that meets what it left; a stack of two, a merge and one still open or closed
when it is asked about; four archive lines, an archive, a restore, an archive and one more;
six requests to the crew are two registrations, a card, a retire that waits, its name taken
again, and a restore; five units of time, a window, the first alarm, another window and the
second; three lines of trace, a torn one, the one glued to it and a whole one; three hubs, a
hub replaced while its feed was starting, and the one after it; a queue of two with four
messages, one playing, two waiting and one that does not fit. `CHECK_DEADLOCK FALSE` stands
in every configuration because at the bounds the counters simply stop.

**Fairness.** All of it is weak unless said otherwise, and nothing is assumed of the
captain, of agents exiting, of retires, crashes or restarts.

- wakes: the TTL passes, a promise of `harness.send` settles, the supervision interval
  acts; a wake line sent over and over finds the pane idle at some time, and of turns
  begun over and over one drains and one acks (strong): the doctrine has an agent drain
  first, but an agent may be killed or distracted in any one turn;
- workers: harness calls settle, hooks and teardown commands run on a time budget, the
  boot sweep runs;
- schedules: the interval fires, a hook's run ends (it has a timeout), and a schedule
  that ticks over and over finds the hook's name free at some tick (strong; without it a
  `queue` schedule may be refused for ever);
- sessions: the tick and the handlers go on, a session that was launched comes up;
- ground: the tick walks every card and a release gets its turn in the clone's queue;
- projects: git and treehouse commands end, or are stopped after two minutes;
- boot: a process that was started runs on, a command that waits gives up after its polls;
- usage: a run goes on, the lock of a dead run grows old, he looks again (a look that may start
  a run: strong);
- activity: the poll and the clock run, posts and stream messages arrive, the browser
  reconnects a stream that broke;
- tab: the browser retries a stream that is down, the watchdog and the timers run,
  requests are answered or fail;
- read marks: a device that was told fetches, the page renders once a minute
  (`main.js:421`), requests end;
- cards: a request is answered or fails, the stream brings the board, a bulk run goes on;
- detail: the panel renders, the stream brings the board, a request ends;
- composer: the harness command ends;
- speech: the engine ends its stream or the proxy's deadline does, buffers are played,
  the hang-up arrives, the page is touched now and then;
- dictation: the browser answers, he taps again, and lets go of a button he holds (strong);
- gauges: samples and answers arrive, timers fire, streams reach the server;
- call: requests end, the browser's recorder stops when told.

## 4. What is proved

`WakesProofs` proves, first, of `Spec` of module `Queues`, for all sets of lieutenants, cards and
tools and all bounds allowed by `QueuesAssumption`:

- `TypeCorrect`: `[]TypeOK`;
- `NumbersUnique`: `[]SeqsUnique`, every crash point included. `SeqsUnique` speaks of
  readable files; the inductive invariant says it of the raw ones;
- `NothingConsumedUnserved`: `[]OnlyServedIsSettled`, and `PendingIsKept`: `PendingKept`,
  both under `Orderly == Tools = {} /\ KillMayFail = FALSE /\ CrashPoints \subseteq {"midCursor"}`.
  The condition is not a convenience: without any one of its parts TLC has a
  counterexample (section 5).

`OnlyServedIsSettled` is not inductive: nothing in it says where an ack cursor may
stand or which acks are on their way. `ConsumptionInv` adds that no file is torn, that
every ack cursor and every number a lieutenant holds is 0 or the number of an item in
its own queue (`Anchored`: so neither can stand above a number yet to be given), and
that what lies at or below either was served. Each action has a step in the proof and
under it one per conjunct it disturbs; the push, the drains, the retire and the boot
have lemmas of their own.

`SchedulesProofs` proves of `Spec` of module `Schedules`, for all sets of schedules and
names, policies, caps and bounds allowed by `SchedulesAssumption`:

- `TypeCorrect`: `[]TypeOK`, the agreement of a pass with its claim and of a running
  window with the registered run included;
- `NoWindowTwice`: `FiredOnce`, and `CursorNeverBack`: `CursorForward`;
- `NoneMissed`: `[]NothingMissed`, under `Untruncated`: no schedule has the `skip` policy,
  or the cap is no smaller than the windows there are. With a lower cap TLC has a
  counterexample (section 5).

Neither property is inductive: both speak of the cursor alone, which a pass moves only
at its end. `Ordered` ties what a pass has started to the cursor and the claim (at or
below the later of the two) and to what it has yet to start (strictly below, save the
window that runs), so the `w - 1` a `queue` pass falls back to still lies at or above all
that ran. `Covered` says that up to the claim every window is accounted for or still with
the pass, and that a running window is accounted for before it leaves the pass.
Each action has a step; a schedule an action does not touch is done by one frame lemma.

Two more theorems about `Queues`:

- `IndexIsHonest`: `[]IndexAgreesWithFiles`, under `WholeAppends` (no crash inside an
  append: a torn file reads as empty and still takes pushes). `IndexInv` is the property with
  the shape, the numbers and that no file is torn: the index then is what the scan of the
  files finds, and a new item, above all others, is the newest of its chat;
- `DeliversAtLeastOnce`: `ImplementsAtLeastOnce`, under `Orderly`: every handler is a step
  of `AtLeastOnce` under the mapping, or changes nothing of it. `PromiseInv` is
  `ConsumptionInv` and that what is marked served of a queue is an item still in it.

And of `WakeSafeSpec` (the specification without its fairness), for all
lieutenants, tools, crash points and bounds:

- `WakesKeepQueues`: it implements `Spec` of `Queues`, so each theorem about the queues
  holds of the queues with their wakes; `WakesKeepNumbers` is one of them, `[]SeqsUnique`;
- `WakeTypeCorrect`: `[]WakeTypeOK`, and `MarksStandForPending`:
  `[]NudgedOnlyWhilePending`. The bound on the sends in flight is part of the invariant,
  because a mark that is cleared turns the sends of the mark into older ones.

`WorkersProofs` proves of `Spec` of `Workers`, for all handlers in flight, operations,
records, card objects and restarts that `WorkersAssumption` allows:

- `TypeCorrect`, and `OneRecordEach`: the board never holds two records of the card. Both
  come from `Basic`, which ties a task's step to what it may hold and wait for, and says of
  a start in flight that nobody else's worker is on the card (the guard `starting`);
- `DropsAreHonest`: `DroppedOnlyWhenGone`. `TrustInv` says that a kill that was verified
  stays true: whoever goes on after it finds nobody in the window, however long it waited
  for hooks, teardowns and releases. Under `Sure`: no resume (a resume spawns over a
  record another handler has just verified dead), and no restart beside restores and
  sends (the sweep gives up on a card off the board after a second kill, and a card may
  come back). `SweepInv` has the sweep's part. Failing kills are allowed;
- `OneWorkerEach`: `[]OneWorker`, under `Clean`: no resume, kills that tell the truth, no
  restart. `LeakInv` says that a live agent without a record has a start that will bind or
  end it: a kill that lies leaves the agent of an aborted start, a restart loses it;
- `WorkingIsStaffed`: `[]WorkingHasWorker`, under `NoReopen`: no send and no resume (both
  may put a card back into Working while a handoff or archive that left it is under way).
  `LeavingInv` says that whoever may still drop its record left Working before;
- `RestIsHonest` in its halves, which together are the property as `server_live` checks it.
  `PausesAreNoDeaths`: a worker whose window a pause took is not reported as died, under
  `Resting`: nothing starts, resumes or reopens the worker a behaviour begins with, and
  kills do not fail (a second pause whose kill fails takes back the mark of the first, whose
  window is gone). `ParksLeaveNobody`: a park moves no card to Backlog over a live agent,
  under `Parking`: nothing starts, resumes or reopens the worker; kills may fail or lie.
  Restores and restarts are allowed in both. `ParkInv` says that an answer "down" a park
  holds is still true.

Each condition is one the code needs: section 5 has what happens without it. The
invariants speak of a handler only while its card object and record are the board's
(`Hers`): a handler that outlived an archive may do nothing that matters, which is what
`gen` and the record's identity are for in the code.

`CrewProofs` proves, first, of `Spec` of `Roster`, from `RosterAssumption` alone (nobody is
called Nobody, the bounds are numbers): `TypeCorrect` and `CrewStaysApart`,
`[]CrewApart`, all five parts. Inductive are: registrations have numbers of their own and
none to come has minted anything (`RegsApart`), which with the counters makes an id never
reissued; the cards of a lieutenant whose retire waits were given to him since
(`LeaversExcused`); and the line is the voice, on the crew or nobody's (`LineIsVoice`).
A lemma says that the newest line of an id is a line of that id.

And of `Spec` of `Sessions`, for all harnesses, commands and bounds:

- `OneAgentAndBell`: `[](OneAgent /\ OneBell)`, from `SessionsAssumption` alone. `Lone` says
  that of the windows of one name at most one holds an agent: the launch line is typed
  where the name resolves, and it resolves only to a window that stands alone. `Rung` says
  that once the bell has rung the attempts are spent and the tick has nothing under way;
- `TicksKeepOff`: `QuietCycle`, under `OneCaptain` (one command of the captain's at a time):
  `Guarded` says that whoever restarts holds the guard, which the tick asks again after
  its question. Two cycles at once share the guard, and the first to end lets it go.

And of `Spec` of `Panes`, for all panes, senders, retries, viewers and glitches that
`PanesAssumption` allows (finitely many texts of several lines):

- `TextsAreGivenOnce`: `[]SentOnce`. `SentOnce` is not inductive, because a text is
  counted where the agent has it and typed where he has not. `TrailInv` speaks of what the
  agent was given followed by what the composer holds: an Enter, swallowed or not, his
  or another's, leaves that sequence as it is, so only the one call that types can add a
  text to it, and what a send that saw the composer empty has typed can only be in front;
- `FeedsEndWithViewers`: `[]NoLeakedFeed`. `HubInv` adds that the hub in the map has a
  viewer and that a viewer is in the one hub he watches.

And of `Spec` of `Hooks`, for all callers, keys, losses and crashes that `HooksAssumption`
allows (the free lock is nobody's name, the failing run's key is not one of the script's):

- `HookIsToldOnce`: `[](OneAtATime /\ NeverSwallowed /\ HeardOnce /\ ScreenCurrent)`.
  `LockInv` says that whoever has a child holds the lock, through a cancel that leaves the
  lock with the run it killed until that run has ended; `KeyInv` that what is claimed was
  told, or left by a recovery whose write failed, and that a handler past its delivery holds a
  key told and not claimed yet;
  `PaidInv` that a wake no claim stands for was paid for by a loss; `ScreenInv` that an
  answered read with something new behind it has a nudge waiting.

And of `Spec` of `Push`, for all numbers of events, endpoints, requests and troubles, from
`PushAssumption` alone (the bounds are numbers, the troubles are of the kinds there are):

- `PushesAreHonest`: `[](HeardOnce /\ NoneMissed /\ ChoiceKept)`. `HeardInv` says that
  whatever was pushed or shown is behind the scan or one of the messages it leaves alone,
  and that what is on its way to the device's endpoint was not shown; `DueInv` that
  what is owed has a record that takes it and is ahead of a scan that is queued, unless a
  card was archived. `ChoiceInv` holds while nothing rotated, overlapped or was muted: one
  request at most is open and it is the page's own; what it carries and what it answers is
  the choice of now; and the store's record of the endpoint differs from that choice only
  by the flip of a request not served yet.

And of `Spec` of `Base`, for all boards, cards, slots, starts and failures, from
`BaseAssumption` alone (the checkouts have names, Home is a board, its own cards are on no other):

- `StartsStandFresh`: `[](OnFetchedTip /\ FreshOrWarned /\ NothingLeft)`, the three parts of
  `GroundFresh`. `Leaseholds` says that a start which has a slot holds its lease and that
  whoever holds a lease has that slot, unless the slot remains of a start that failed:
  nobody else's checkout moves a HEAD. A slot that remains is leased and no start's, a
  directory that remains is no start's own; so neither is ever stood upon. `OnCourse` says
  how far a start is: its base is no older than what it asked for once it has one, a
  directory under the clone is its own, and once it stands its HEAD is at its base, since
  the last look compares the two. Neither says a word about the queue of a clone or the refs
  of the pool: whose ref was carried last does not matter, because what it yields is looked
  at before a worker starts on it.

`GroundProofs` proves of `Spec` of `Ground`, for all cards, slots, pull requests, stacks
and numbers of crashes and restores:

- `NoCardIsLost`: `[]CardKept`. `ArchiveInv` says that all lines but the one being
  appended are whole, that a card off the board, in memory or saved, has one of them, and
  that the one being appended is that of the card the archive is about;
- `RecordsAreLeases`: `[]LeaseIsMine`, under `Serial` (a card is taken off its ground by one
  handler at a time): until the first crash or restore a record stands on a slot leased to its
  card, or on a stray, one the tick gave back by the pointer of a card gone from the board.
  `Grounded` has a part for whoever starts (its slot is leased, its card has no record), one
  for records (leased, until the return is done), one for whoever leaves (with its record's
  slot or none, but for the tick that finishes a card gone from the board), and one for the
  card that is gone (`Left`: it has no ground but what its own departure takes); `OneLeaves`
  is who may leave at all. Neither exception can be dropped (section 5);
- `MergesAreTold`: `[]MergeIsTold`, the safety half of `MergeLands`. `ToldInv` says it of every
  place that knows of a merge: the board, the saved one, the archive and the tick's copy.

`BootProofs` proves of `Spec` of `Boot`, for all pids, ports, callers and troubles:
`OneServerPerWorkspace`, `[]OneOwner`, `SavedStaysSaved`, `[]AckedKept`, and
`NeverFailsForNothing`, `FailsForAReason`. The first two
properties are conditional on boots that do not overlap, and hand edits of the file, in
their own statement. `Alone` adds what the pid file does: whoever has written it and not
ended is the one it names, and nobody who found it free boots beside a running server.
`Safe` says that what was acknowledged is on disk and in the memory of whoever may write
the disk next. For the third, `Held` says that a port is held by a server that is up and
that the pid file names one that wrote it, or its number again, and `Waited` that a command
that waits has its excuse or some server that lives: every server that ends without an excuse
met one that lives, by its pid file or on its port. An excuse is a kill, a stop, a port in
other hands, or a pid in the file that is the booting server's own or is worn by a program
that looks like a server or cannot be read. That the board then comes, whatever the command
said, is `BoardComes`, which `server_live` checks.

`TabProofs` proves of `Spec` of `Tab`, for all pages, tails, logs and troubles:

- `NothingIsNowhere`: `[]NeverNowhere`, under `~Repeats` (no text is sent twice; an echo is
  known by its text, so a second equal one takes the first's bubble). `BoardsInv`
  relates every board the tab holds or is being sent to the server's: each was the server's
  once, and two are ordered by their revisions as by their messages. `TextsInv` says where
  a text stands and that whoever waits for it knows where;
- `PagesInFrontAreARun`: `[]PagesAreARun`, under `"return" \notin Trouble`. `PagesInv` says
  that the pages are a run, that at most one page is on its way, and that it was asked
  before the first message of the pages there are;
- `ConversationIsWhole`: `[]ChatWhole`, both. The run `browser` has these constants, and
  section 5 what happens without them.

`CallProofs` proves of `Spec` of `Call`, for both ways to end a turn and all numbers of
chunks, replies and touches:

- `HisTurnIsKept`: `[]HisTurnKept`. Its words: `PlacesInv` says that each chunk is in
  exactly one place - the open take, a job of the chain that is still to be handled, the
  text of the turn, sent, or binned - and what the head of the chain waits for. Its
  silence: `VoiceInv` adds to "nothing sounds" that nothing is about to (the pump is off,
  or its synthesis was aborted). The reducer has a lemma (only speech leads to capturing,
  nothing leads out of an ended call), the change of state with its player another, and every
  way a chunk moves one (`TextGoes`, `HeadGoes`, `HeadLeaves`, `TakeGoes`, `TakeStarts`,
  `JobJoins`), which the steps cite;
- `HangingUpEndsIt`: `HangUpEndsIt`, the safety half of `ButtonsObeyed`, from the same
  invariant.

The hypotheses of these theorems are conditions on constants that the passing runs
satisfy; none is needed for the program to move. The inductive invariants of `Queues`,
`Ground`, `Call`, `Workers` and `Roster`, `Held` and `Waited` of `Boot` and those of `Push`
were checked by TLC on the bounds of the runs before they were proved, `Push` with two
troubles; that of `Base` with one trouble, and before commands that take ground back could fail,
with two on the first 23 million states.

Only model-checked, and why:

- liveness (`MergeLands` and `ButtonsObeyed` in part, `CrewIsServed`, `HostSettles`,
  `PageSettles`, `VoiceSettles`): it rests on fairness, and so on ENABLED, which the provers
  do not reach;
- `BellAgrees`, `BoardHonest`, `ComposerKeeps`, `WorkSafe`, `VoiceWhole`, `ActivityAgrees`,
  `CountedOnce` and `SilenceIsHeard`: each gathers the properties of modules a composite
  instantiates, and what they need of the past (who was told, what was counted) is a long
  invariant over bookkeeping of the model. They come after the theorems above in weight;
- `LeftStanding`, but for its first part, an instance of `DropsAreHonest`: the setting
  that keeps its worktree sends and resumes, which `NoReopen` excludes;
- `NoneLostOrTwice`: what the recursive walks over the calendar and the trace compute is
  an induction over data. `StartsHonestly`, but for its first part, which
  `NeverFailsForNothing` proves.

## 5. Where code and words disagree

Runs with `expect: violation`:

- `torn_line`: one half-written line makes the whole queue of a lieutenant read as empty,
  while the chat log next door skips such a line (1068).
- `paused_fires`: a pass does not ask whether its schedule was paused meanwhile, so a
  backlog goes on firing after "it fires nothing until resumed".

Each row below is a property the module states and does not satisfy under the constants
named; TLC shows the behaviour when the property is put in a configuration of the module with
these constants. (The constants of the passing runs leave out exactly these, and
the properties there say what is left.)

| module and constants | property | what happens |
|---|---|---|
| `Queues`, `CrashPoints = {"midRetire"}` | `OnlyServedIsSettled` | a crash between the unlinks of a retire leaves an ack cursor; the counter restarts lower and new items are born consumed |
| `Queues` | `DrainedMeansServedToOwner` | a worker's drain resolves to its lieutenant's session (6009) and moves the lieutenant's drained cursor: cards read as seen by somebody who saw nothing |
| `Queues`, `Tools` not empty | `OnlyServedIsSettled` | a tool acks, after a restart reused its number, an item it never saw |
| `Queues`, `Cards` not empty | `CardsHaveLieutenants` | a card is created for, or given to, a lieutenant whose retire awaits its kill |
| `Queues`, `Cards` not empty | `OnlyAckClearsOwed` | a card's last message sits in its old owner's queue; the old owner retires and the card stops being owed unanswered |
| `Wakes`, `MaxSends = 2` | `WakesCoalesce` | a late rejection of an old send deletes a newer mark and the next item stacks a second line |
| `Workers`, resume and handoff | `NoLeakedWorker` | a resume that completes after a handoff's kill was verified is not noticed; the live session's record is dropped (5431, against 2873) |
| `Workers`, done and watch | `DiedIsDead` | a worker that reports done and exits during the tick's `await alive()` (3867) is reported as died without done |
| `Workers`, start and archive, no `keep_worktree` | `GroundStaysUnderWorker` | the holder is asked before a release that then waits its turn on the clone |
| `Workers`, send and handoff | `WorkingHasWorker` | a send reopens a worker that a handoff is killing |
| `Workers`, resume and park | `ParkLeavesNobody` | a park acts on the liveness from before a resume |
| `Workers`, a restart during a start | `NoLeakedWorker` | a restart between a spawn and its record |
| `Workers`, pause and send | `PauseIsNoDeath` | a send clears the pause mark while the pause kills |
| `Workers`, start and archive | `ArchivedEndsWorker` | an archive captures the worker before its request body arrived, and a start binds another meanwhile |
| `Schedules`, failures named | `FreshStart` | failure keys are kept by schedule name and outlive a removal: the first failure of a schedule added under the same name can be answered "duplicate" (4170) and wakes nobody |
| `Schedules`, `Cap` below the windows | `NothingMissed` | more than `CATCHUP_CAP + 1` windows due during one pass: `skip` records those `dueWindows` returned and moves the claim past the others (4336) |
| `When`, the offset changes within the run | `OncePerLocalMinute` | a local minute the clock skips is never matched, one that comes twice is matched twice (`schedules.js` 156-165) |
| `When`, the catch-up horizon within the run | `CronCountsAll` | windows older than the horizon are not counted among the dropped (`schedules.js` 189-206) |
| `Call` | `ReplyIsHeard` | `probeBarge` rechecks after its await that the take is unconfirmed, not that it is still the open one (`call.js:679`): the call enters `capturing` with no take and holds its player, against `call.js:605` |
| `Call` | `DuckedOnProbation` | the reply is turned down while a barge-in is on probation (`call.js:622`), and can stay turned down after the probation is over |
| `Sessions`, codex and claude | `OwnThread` | after a move from codex to claude the id file of the old harness is still found and resumed (`claude-tmux.js:317`, against 1881) |
| `Sessions`, two captains or two commands | `AnsweredAlways`, `GuardHeld`, `NoOldMemory`, `RefNamesAgent`, `LiveLeftAlone`, `FalseBell` | two overlapping cycles share a Set: the first to end drops the other's guard, and the tick then acts on, or rings for, a session that is up |
| `Sessions`, a retire | `CardHasOwner` | a card is taken by a lieutenant whose retire awaits its kill |
| `Panes`, two multi-line senders | `RightPane` | two pastes share one tmux buffer: the first types the other's text (`tmux.js:214`, against `port.js:8`) |
| `Hooks`, a crash of the server | `OneAlive` | the child has its own process group and lives on; the next server knows nothing of it and starts another |
| `Ground`, `MaxFaults = 2` | `Restorable` | a crash inside the append of an archive line tears it, and the card it held is off the board and cannot be restored |
| `Ground`, `Serial = FALSE` | `LeaseIsAlwaysMine` | two releases overlap and the second gives back a slot already leased to another card (2749-2753 says what is meant) |
| `Ground`, `Serial = TRUE`, `MaxFaults = 0` | `LeaseIsAlwaysMine` | the watch's tick walks a copy of the board: it finishes a card archived meanwhile and returns, by the old pointer, a slot already leased to another card (3998-4000, 2829, 2837, against 2749-2753) |
| `Ground` | `SettledLeaves` | a stack with nothing open stays on the board when the tick that saw the merge still found another of its pull requests open and that one was then closed without a merge (4008-4022) |
| `Ground` | `ArchivedFromBoard` | the tick archives a card that is off the board already, a second time |
| `Base` | `NothingSurvives` | a `git worktree remove` that fails leaves the directory, and every later start of the card is refused over it (`worktrees.js` 220, 230, 242-243, against 239-241) |
| `Hooks` | `RecoveryIsForgotten` | the write that forgets a fixed failure fails and is only logged: the next failure is answered "duplicate" and wakes nobody (2572-2574, against 2553-2558 and 4184-4186) |
| `Base` | `NoContender` | a start is refused over what another board's start left in the refs of their pool |
| `Base`, "offline" | `CleanReleased` | with origin out of reach, the ground of a worker that committed nothing is not given back |
| `Base`, "clone" | `NameStaysFree` | a project whose clone failed cannot be added again under its name (2389) |
| `Boot` | `OneOwnerAlways` | between the check of the pid file and its write another server may do the same (298-307) |
| `Boot` | `LeavesTrace` | a boot that fails leaves no trace of why |
| `Boot` | `StopsOurs` | `stop` ends whatever process has the number in the file (`bc-axi:790`) |
| `Boot` | `AckedAlwaysKept` | a board that cannot be read is replaced by an empty one (398-401) |
| `Boot`, "recycled" | `RecycledNeverBlocks` | a dead server's pid worn by a program with an argument called `server.js`, or one whose command line cannot be read, or by the booting server itself, ends the boot (298-304, against 290 "so a recycled pid doesn't block a real boot") |
| `Boot` | `GivesUpOnTheDead` | a command says "server failed to start" after twenty polls while its server is still booting (`bc-axi` 294-299, against 276 "a boot that never answers is a REAL error") |
| `Boot`, `Legacy = TRUE` | `LiveDirStays` | the directory is renamed under a server that runs in the old one |
| `Onboard`, a neighbour on the port | `AlwaysOwnBoard` | `init` takes whatever board answers for its own and writes to it (`bc-axi` 278-302, against `onboarding/bridget.md:100`) |
| `Onboard`, "taken" | `OwnBoard` | the port is taken between the check and the start |
| `Onboard`, "lost" or "overlap" | `SeedSticks`; `StepForward`, `WelcomedOnce` | a marker whose write was lost, or two runs at once: what the captain removed is seeded again, a step goes back, he is welcomed twice |
| `Onboard`, "retire" | `RetiredStays` | a lieutenant he retired is created again by a later run |
| `Tab` | `HeldForward`, `ReopenedIsCurrent` | the late echo's fetch sets the board without asking whether it is older (`chat.js:862`); a stream that reopens does not always bring the tab up to date (`boardsync.js` 44-46) |
| `Tab` | `NoHole`, `NoGhost` | the board's slice slides on while the pages above it stay where they were (`chat.js` 275-297); a bubble stays though the board held is past its message |
| `Tab`, `Repeats = TRUE` | `NeverNowhere` | the echo of an equal message takes the bubble of the second (`pending.js:33`) |
| `Tab`, "return" | `PagesAreARun` | pages kept from an earlier visit of the thread (`chat.js` 318-340) |
| `Unread` | `RetriedByRender`, `ReadWasSeen` | a failed mark is forgotten so that a render tries again, but the panel has already told its own board that the card is read (`chat.js` 550-552); the marker is the server's clock and covers a reply that landed after the board he looked at (2055) |
| `Push` | `NoneMissedAtAll`, `ChoiceAlwaysKept`, `ColumnHonest` | the first scan after a restart starts at the newest event (425-429); two switches overlap (`webpush.js` 181-186, `push.js` 45-61) |
| `Cards` | `ArchivedOnce`, `LabelsNeverReplaced`, `LiveWorkSpared`, `AckedEditKept` | two requests both found the card before either had its body (5327); the whole list of labels of an older board is sent (`bulk.js:20`); the tab has not heard of the worker yet (`bulk.js:34`) |
| `Detail` | `EditGoesHome`, `ViewerHonest`, `DrawingGoesHome`, `MenuHonest`, `PagesHonest` | an edit is committed to the card open now (`detail.js` 266-293); an answer is painted into the document open now (`detail.js` 418-438, 619-696, 865-904); a PDF whose type had to be asked for takes the run of the document open by then, and its pages are painted there (745-773) |
| `Composer`, "midsend" | `StagedAlwaysKept`, `PasteKept` | what is staged while a send is under way is cleared with it (`chat.js:924`) |
| `Composer`, "file" or "archive" | `MeantIsRun`, `GoesWhereWritten` | a command with a file's context before it is text; a text written to a card that left goes to the lieutenant (`chat.js` 63-72) |
| `Composer`, "fail" | `RunOnce`, `PickerFresh` | a command whose answer failed is run again; the picker shows the commands of an earlier look |
| `Composer`, `Most = 1` | `FilesWhole` | more files than the server takes are dropped without a word (1710) |
| `Files`, each of the troubles | `NothingEverOverwritten`, `WorkAlwaysKept`, `ScreenAlwaysFollows` | a pane closed or reopened in the middle of a save; a notice lost, late or overtaken |
| `Usage`, "halfsaved", raced or slow | `CountedOnce`, `OneRun` | a run killed between its saves counts again (`usage.js` 734-737); a lock taken from a run that lives (654-662) |
| `Usage` | `FinallyShown`, `TrailForward`, `OneLinePerChange`, `AttributedByBoard` | a transcript truncated below its offset; two writers of the quota trail; a session attributed from the cache after the board changed |
| `Gauges` | `FreshBaseline`, `ShownIsAsked` | the deltas of a sample start in an earlier watch; the answer to another question is shown |
| `Speech` | `NeverCut`, `OneVoice`, `OneSynthesis`, `AlwaysHeld` | a pause or a dry stream cuts a reply; what a broken stream left is heard with the next; the engine may still synthesise for a stream that was closed; the keep-alive does not always come back |
| `Dictation` | `AlwaysGoesOut`, `HeardToTheEnd` | a second tap while permission is asked (`mic.js`); the answer to an earlier chunk is taken for the final one (`talk.js`) |
| `Activity` | `NewcomerIsCurrent`, `NewTurnHidden` | a board that opens is not told of every turn that runs (6101-6103); a running turn is taken for the one that is over (3914-3915) |

Seen while modelling, without a property of their own:

- a restore does not ask whether the card's owner is still registered (2301), and a card
  made for, restored to or given to a lieutenant during the await of its retire has no
  owner afterwards (912, against 39); a second retire that waits for its kill also removes
  a lieutenant created under that name meanwhile;
- a lieutenant created anew starts its counter at 0, and mints ids its predecessor's
  archived cards still have (2110-2115);
- a prefix that was asked for and is taken by the time the session is up is refused after
  the spawn: the session stays (5131-5145);
- a resume clears the ladder and not the stamps of silence, so a worker just resumed may be
  rung for at the next tick (against 3835); the tick does not look at `w.done` again after
  its await, and may ring for a record dropped meanwhile (3867);
- once an event's directory holds no hook, its old runs show as those of the named hook of
  the same name (`hooks.js` 286-294, 535).

## 6. Plan

Done: the inventory, every component of section 1, the runs of section 3 and the theorems
of section 4. What would come next, in order of weight:

1. an abstract worker (none, at work, at rest, leaving) that `Workers` implements under
   the conditions of `OneWorkerEach`;
2. `HangIsLoud` and `StopIsTold` of `Supervise` for any window and clock.

## 7. Not modelled

Parsers of agent panes and the wording of what is typed, static pages,
playbook text, the web UI's rendering, the three-dimensional bridge but for its dictation,
the development server and the test doubles: they either keep no state or keep state
nobody interleaves with. `PROJECT.json` lists each with its reason. Encryption of pushes,
audio coding, image embedding and the drawing of shapes are data to the models above.

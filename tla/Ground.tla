------------------------------- MODULE Ground -------------------------------
(***************************************************************************)
(* Several cards over one pool of worktrees: who holds which lease, who    *)
(* gives it back, and how a card leaves the board: archived by hand or by  *)
(* the PR watch, written to archive.jsonl first, and maybe restored        *)
(* (src/server/server.js, src/server/worktrees.js).                        *)
(*                                                                         *)
(* Workers.tla follows one card and its agent; here kills always succeed   *)
(* and a card has at most one worker record.                               *)
(***************************************************************************)
EXTENDS Naturals, FiniteSets, Sequences, SequencesExt

CONSTANTS
  Card, Slot,
  PrsOf,          \* PrsOf[c]: the pull requests of c's stack
  Serial,         \* TRUE: nobody takes a card off its ground twice at once
  MaxFaults,      \* bound: crashes, restores and pull requests closed together
  MaxLines        \* bound: lines of the archive

ASSUME GroundAssumption ==
  /\ Serial \in BOOLEAN /\ DOMAIN PrsOf = Card /\ \A c \in Card : IsFiniteSet(PrsOf[c])
  /\ MaxFaults \in Nat /\ MaxLines \in Nat
  /\ "none" \notin Card \cup Slot /\ "free" \notin Card

VARIABLES
  board,    \* each card: on the board, its pointer, its PRs, its worker's record
  disk,     \* board.json
  file,     \* archive.jsonl: the cards frozen in it, or a torn line
  pool,     \* pool[s]: the card the pool leased slot s to, or Free
  github,   \* the PRs merged
  shut,     \* the PRs closed without a merge
  heard,    \* <<card, pr>>: merges and closings the owner's queue was told
  job,      \* job[c][k]: a start, a departure or a merge of c under way
  watch,    \* the PR watch: its card, PRs left to ask about, what it found, its copy of the board
  writing,  \* the card between its archive line and the saved board, and for whom
  strays,   \* history: slots the watch gave back under another card, for a card gone from the board
  crashes, restores
world == <<github, shut>>
vars == <<board, disk, file, pool, world, heard, job, watch, writing, strays, crashes, restores>>

None == "none"
Free == "free"
Torn == [card |-> None]
Kind == {"start", "leave", "merge"}
NoJob == [pc |-> "idle", path |-> None, mine |-> FALSE, last |-> FALSE]
NoRec == [slot |-> None, released |-> FALSE]
\* of a card that left the board the tick's copy holds the card as it left
NoCopy == [gone |-> FALSE, at |-> None, ended |-> {}]
NoWatch == [card |-> None, left |-> {}, merged |-> {}, closed |-> {}, todo |-> {},
            old |-> [c \in Card |-> NoCopy]]
NoWriting == [card |-> None, by |-> "leave"]
Pr == UNION {PrsOf[c] : c \in Card}

Init ==
  /\ board = [c \in Card |-> [on |-> TRUE, at |-> None, ended |-> {}, rec |-> NoRec]]
  /\ disk = board /\ file = <<>>
  /\ pool = [s \in Slot |-> Free]
  /\ github = {} /\ shut = {} /\ heard = {} /\ strays = {}
  /\ job = [c \in Card |-> [k \in Kind |-> NoJob]]
  /\ watch = NoWatch /\ writing = NoWriting
  /\ crashes = 0 /\ restores = 0

\* A handler runs to its end: nothing else runs while one writes.
Quiet == writing.card = None
Idle(c) == \A k \in Kind : job[c][k].pc = "idle"
MayLeave(c) == IF Serial THEN Idle(c) /\ watch.card # c ELSE job[c]["leave"].pc = "idle"
Step(c, k, to) == job' = [job EXCEPT ![c][k] = to]
Goes(c, k, pc) == job' = [job EXCEPT ![c][k].pc = pc]
Claims(c, s) == board[c].rec.slot = s /\ ~board[c].rec.released
HasRec(c) == board[c].rec.slot # None
Saved == disk' = board'
Faults == crashes + restores + Cardinality(shut)
Gone(c) == watch.old[c].gone
Pointer(c) == IF Gone(c) THEN watch.old[c].at ELSE board[c].at
Ended(c) == IF Gone(c) THEN watch.old[c].ended ELSE board[c].ended
CopyStays(c) ==
  IF ~Gone(c) /\ (c \in watch.todo \/ watch.card = c)
  THEN [watch EXCEPT !.old[c] = [gone |-> TRUE, at |-> board[c].at, ended |-> board[c].ended]]
  ELSE watch
Looked == [NoWatch EXCEPT !.todo = watch.todo, !.old = [watch.old EXCEPT ![watch.card] = NoCopy]]

--------------------------------------------------------------------------
(* A start leases a slot under the clone's lock, and binds its record      *)
(* when the agent is up.                                                   *)
Lease(c) ==
  /\ Quiet /\ board[c].on /\ ~HasRec(c) /\ Idle(c)
  /\ \E s \in Slot :
       /\ pool[s] = Free /\ pool' = [pool EXCEPT ![s] = c]
       /\ Step(c, "start", [pc |-> "bind", path |-> s, mine |-> TRUE, last |-> FALSE])
  /\ UNCHANGED <<board, disk, file, world, heard, watch, writing, crashes, restores, strays>>

Bind(c) ==
  LET s == job[c]["start"].path IN
  /\ Quiet /\ job[c]["start"].pc = "bind"
  /\ IF board[c].on
     THEN /\ board' = [board EXCEPT ![c].at = s, ![c].rec = [slot |-> s, released |-> FALSE]]
          /\ Saved /\ UNCHANGED pool
     ELSE pool' = [pool EXCEPT ![s] = Free] /\ UNCHANGED <<board, disk>>
  /\ Step(c, "start", NoJob)
  /\ UNCHANGED <<file, world, heard, watch, writing, crashes, restores, strays>>

--------------------------------------------------------------------------
(* Off the ground: killed, hooks, teardown, release, and the record goes.  *)
(* An archive and a merge are its last release point: there it goes even   *)
(* when the ground does not.                                               *)
PathOf(c, at) == IF HasRec(c) THEN board[c].rec.slot ELSE at
Departs(pc, c, at, last) == [pc |-> pc, path |-> PathOf(c, at), mine |-> HasRec(c), last |-> last]

Handoff(c) ==
  /\ Quiet /\ MayLeave(c) /\ board[c].on /\ HasRec(c) /\ ~board[c].rec.released
  /\ Step(c, "leave", Departs("check", c, board[c].at, FALSE))
  /\ UNCHANGED <<board, disk, file, pool, world, heard, watch, writing, crashes, restores, strays>>

Hooked(c, k) ==
  /\ Quiet /\ job[c][k].pc = "hooks" /\ Goes(c, k, "check")
  /\ UNCHANGED <<board, disk, file, pool, world, heard, watch, writing, crashes, restores, strays>>

\* worktreeHolder: another card's record stands on the path; only a record
\* that has not released its slot is its own claim, and is not asked.
HeldByOther(c, s) == \E d \in Card \ {c} : Claims(d, s)
Holder(c, s) == ~Claims(c, s) /\ HeldByOther(c, s)
Newer(c, k) == HasRec(c) /\ ~job[c][k].mine      \* a worker bound since the departure
Over(c, k) == IF k = "merge" THEN Goes(c, k, "archive") ELSE Step(c, k, NoJob)
Checks(c, k) ==
  LET s == job[c][k].path IN
  /\ Quiet /\ job[c][k].pc = "check"
  /\ IF s = None \/ Newer(c, k) \/ Holder(c, s) THEN Over(c, k)
     ELSE Goes(c, k, IF job[c][k].mine /\ ~board[c].rec.released THEN "teardown" ELSE "return")
  /\ UNCHANGED <<board, disk, file, pool, world, heard, watch, writing, crashes, restores, strays>>

TornDown(c, k) ==
  /\ Quiet /\ job[c][k].pc = "teardown" /\ Goes(c, k, "return")
  /\ UNCHANGED <<board, disk, file, pool, world, heard, watch, writing, crashes, restores, strays>>

\* releaseWorktree, under the clone's lock: refused while it holds work.
Stray(c, k, s) == k = "merge" /\ Gone(c) /\ pool[s] \notin {c, Free}
Returns(c, k) ==
  LET s == job[c][k].path IN
  /\ job[c][k].pc = "return"
  /\ \/ /\ pool' = [pool EXCEPT ![s] = Free] /\ Goes(c, k, "commit")
        /\ strays' = IF Stray(c, k, s) THEN strays \cup {s} ELSE strays
     \/ /\ UNCHANGED <<pool, strays>>
        /\ IF job[c][k].last /\ job[c][k].mine THEN Goes(c, k, "kept") ELSE Over(c, k)
  /\ UNCHANGED <<board, disk, file, world, heard, watch, writing, crashes, restores>>

Kept(c) == [slot |-> board[c].rec.slot, released |-> FALSE]
Dropped(c) == NoRec
Commits(c, k) ==
  /\ Quiet /\ job[c][k].pc = "commit"
  /\ board' = [board EXCEPT ![c].at = IF board[c].on THEN None ELSE @, ![c].rec = IF job[c][k].mine THEN Dropped(c) ELSE @]
  /\ Saved /\ Over(c, k)
  /\ UNCHANGED <<file, pool, world, heard, watch, writing, crashes, restores, strays>>

Keeps(c, k) ==
  /\ Quiet /\ job[c][k].pc = "kept"
  /\ board' = [board EXCEPT ![c].rec = NoRec]
  /\ Saved /\ Over(c, k)
  /\ UNCHANGED <<file, pool, world, heard, watch, writing, crashes, restores, strays>>

--------------------------------------------------------------------------
(* Off the board: the line first, then the board; and back.                *)
Frozen(c, by) == IF by = "merge" THEN [card |-> c, at |-> Pointer(c), ended |-> Ended(c)]
                 ELSE [card |-> c, at |-> board[c].at, ended |-> board[c].ended]
BoardFirst(c, by) == /\ board' = [board EXCEPT ![c].on = FALSE]
                     /\ Saved /\ UNCHANGED file
LineFirst(c, by) == file' = Append(file, Frozen(c, by)) /\ UNCHANGED <<board, disk>>
Archives(c, by) ==
  /\ Quiet /\ Len(file) < MaxLines
  /\ LineFirst(c, by)
  /\ writing' = [card |-> c, by |-> by]

ArchiveByHand(c) ==
  /\ board[c].on /\ MayLeave(c) /\ job[c]["start"].pc = "idle"
  /\ Archives(c, "leave")
  /\ UNCHANGED <<pool, world, heard, job, watch, crashes, restores, strays>>

Merged(c) == job[c]["merge"].pc = "archive"
ArchiveMerged(c) ==
  /\ Merged(c) /\ Archives(c, "merge")
  /\ UNCHANGED <<pool, world, heard, job, watch, crashes, restores, strays>>

\* Whoever has the card's id goes, a card restored meanwhile too; a merge ends the worker
\* bound to it by then, and leaves that one's ground.
OffBoard ==
  LET c == writing.card
      merge == writing.by = "merge" IN
  /\ ~Quiet
  /\ board' = [board EXCEPT ![c].on = FALSE, ![c].rec = IF merge THEN NoRec ELSE @] /\ Saved
  /\ writing' = NoWriting
  /\ IF merge THEN Step(c, "merge", NoJob) /\ watch' = Looked
     ELSE Step(c, "leave", Departs("hooks", c, board[c].at, TRUE)) /\ watch' = CopyStays(c)
  /\ UNCHANGED <<file, pool, world, heard, crashes, restores, strays>>

\* readArchive gives nothing at all when one line does not parse.
Readable == \A i \in DOMAIN file : file[i] # Torn
Lines(c) == {i \in DOMAIN file : file[i].card = c}
Restore(c) ==
  /\ Quiet /\ ~board[c].on /\ Faults < MaxFaults /\ Readable
  /\ restores' = restores + 1
  /\ \E i \in Lines(c) :
       /\ \A j \in Lines(c) : j <= i
       /\ board' = [board EXCEPT ![c].on = TRUE, ![c].at = file[i].at,
                                 ![c].ended = file[i].ended]
  /\ Saved
  /\ UNCHANGED <<file, pool, world, heard, job, watch, writing, crashes, strays>>

--------------------------------------------------------------------------
(* The PR watch: one tick at a time, one card and one question at a time,  *)
(* over a copy of the board as it was when the tick began: a card that has *)
(* left the board since is asked about, and finished, as it left.          *)
Open(c) == PrsOf[c] \ Ended(c)
Ticks ==
  /\ Quiet /\ watch = NoWatch
  /\ watch' = [watch EXCEPT !.todo = {c \in Card : board[c].on /\ Open(c) # {}}]
  /\ watch'.todo # {}
  /\ UNCHANGED <<board, disk, file, pool, world, heard, job, writing, crashes, restores, strays>>

WatchBegins(c) ==
  /\ Quiet /\ watch.card = None /\ c \in watch.todo
  /\ Serial => job[c]["leave"].pc = "idle"
  /\ watch' = [NoWatch EXCEPT !.card = c, !.left = Open(c), !.todo = watch.todo \ {c}, !.old = watch.old]
  /\ UNCHANGED <<board, disk, file, pool, world, heard, job, writing, crashes, restores, strays>>

\* What an answer does to the card: at once; a merge to the owner: after the last answer.
Signal(c, found) == {<<c, p>> : p \in found}
AllThisTick(c, found) == PrsOf[c] \subseteq found
NoneOpen(c, found) == Open(c) \subseteq found
Asks(p) ==
  LET c == watch.card
      found == watch.merged \cup ({p} \cap github)
      closed == watch.closed \cup ({p} \cap shut)
      now == {p} \cap (github \cup shut)
      done == watch.left = {p}
      finished == done /\ found # {} /\ NoneOpen(c, found \cup now)
      asked == [watch EXCEPT !.left = @ \ {p}, !.merged = found, !.closed = closed]
  IN
  /\ Quiet /\ p \in watch.left
  /\ board' = IF Gone(c) THEN board ELSE [board EXCEPT ![c].ended = @ \cup now]
  /\ heard' = heard \cup {<<c, q>> : q \in {p} \cap shut} \cup (IF done THEN Signal(c, found) ELSE {})
  /\ watch' = IF done /\ ~finished THEN Looked
              ELSE IF Gone(c) THEN [asked EXCEPT !.old[c].ended = @ \cup now] ELSE asked
  /\ IF finished THEN Step(c, "merge", Departs("hooks", c, Pointer(c), TRUE)) ELSE UNCHANGED job
  /\ IF done /\ ~finished /\ found \cup closed # {} THEN Saved ELSE UNCHANGED disk
  /\ UNCHANGED <<file, pool, world, writing, crashes, restores, strays>>

--------------------------------------------------------------------------
(* The world.                                                              *)
Merge(p) ==
  /\ p \notin github \cup shut /\ github' = github \cup {p} /\ UNCHANGED shut
  /\ UNCHANGED <<board, disk, file, pool, heard, job, watch, writing, crashes, restores, strays>>

Close(p) ==
  /\ p \notin github \cup shut /\ Faults < MaxFaults /\ shut' = shut \cup {p}
  /\ UNCHANGED <<board, disk, file, pool, github, heard, job, watch, writing, crashes, restores, strays>>

\* Any other handler saves the board, with whatever it holds by then.
OtherSaves ==
  /\ Quiet /\ disk # board /\ disk' = board
  /\ UNCHANGED <<board, file, pool, world, heard, job, watch, writing, crashes, restores, strays>>

\* A crash may cut the line being appended; what was saved comes back.
Cut == IF Quiet THEN {file} ELSE {file, Append(Front(file), Torn)}
Crash ==
  /\ Faults < MaxFaults /\ crashes' = crashes + 1
  /\ file' \in Cut
  /\ board' = disk /\ disk' = disk
  /\ job' = [c \in Card |-> [k \in Kind |-> NoJob]]
  /\ watch' = NoWatch /\ writing' = NoWriting
  /\ UNCHANGED <<pool, world, heard, restores, strays>>

--------------------------------------------------------------------------
Departure(c, k) == Hooked(c, k) \/ Checks(c, k) \/ TornDown(c, k) \/ Returns(c, k)
                   \/ Commits(c, k) \/ Keeps(c, k)
Watching == Ticks \/ (\E c \in Card : WatchBegins(c)) \/ (\E p \in Pr : Asks(p))
Leaving(c) == ArchiveMerged(c) \/ \E k \in {"leave", "merge"} : Departure(c, k)

Next ==
  \/ \E c \in Card : \/ Lease(c) \/ Bind(c) \/ Handoff(c) \/ ArchiveByHand(c) \/ Restore(c)
                     \/ Leaving(c)
  \/ OffBoard \/ Watching \/ OtherSaves \/ Crash
  \/ \E p \in Pr : Merge(p) \/ Close(p)

Spec == Init /\ [][Next]_vars

\* Promises settle, a release gets its turn, and the tick walks every card.
Fairness ==
  /\ \A c \in Card : WF_vars(Leaving(c)) /\ WF_vars(Bind(c)) /\ SF_vars(WatchBegins(c))
  /\ WF_vars(Watching) /\ WF_vars(OffBoard)
FairSpec == Spec /\ Fairness

--------------------------------------------------------------------------
TypeOK ==
  /\ board \in [Card -> [on : BOOLEAN, at : Slot \cup {None}, ended : SUBSET Pr,
                         rec : [slot : Slot \cup {None}, released : BOOLEAN]]]
  /\ disk \in [Card -> [on : BOOLEAN, at : Slot \cup {None}, ended : SUBSET Pr,
                        rec : [slot : Slot \cup {None}, released : BOOLEAN]]]
  /\ \A i \in DOMAIN file : file[i].card \in Card \cup {None}
  /\ pool \in [Slot -> Card \cup {Free}] /\ strays \subseteq Slot
  /\ github \subseteq Pr /\ shut \subseteq Pr /\ heard \subseteq Card \X Pr
  /\ job \in [Card -> [Kind -> [pc : {"idle", "bind", "hooks", "check", "teardown", "return",
                                      "commit", "kept", "archive"},
                                path : Slot \cup {None}, mine : BOOLEAN, last : BOOLEAN]]]
  /\ watch \in [card : Card \cup {None}, left : SUBSET Pr, merged : SUBSET Pr, closed : SUBSET Pr,
                todo : SUBSET Card,
                old : [Card -> [gone : BOOLEAN, at : Slot \cup {None}, ended : SUBSET Pr]]]
  /\ writing \in [card : Card \cup {None}, by : Kind]
  /\ crashes \in 0..MaxFaults /\ restores \in 0..MaxFaults

\* The archive line is written before the board is saved: whenever the server
\* dies, a card is on the saved board or frozen in the archive.
CardKept == \A c \in Card : disk[c].on \/ Lines(c) # {}

\* A worker's record is the claim on its slot: while it is unreleased the pool
\* has leased the slot to that card and to nobody else. (Not after a crash
\* between the return and the saved board, nor once a card restored with a
\* pointer leaves again.)
Lost(c, s) == Claims(c, s) /\ pool[s] # c /\ \A k \in Kind : job[c][k].pc # "commit"
LeaseIsMine == \A c \in Card, s \in Slot : Lost(c, s) => crashes + restores > 0 \/ s \in strays
\* Refuted, by a crash, a restore, or a tick that finishes a card gone from the board.
LeaseIsAlwaysMine == \A c \in Card, s \in Slot : ~Lost(c, s)

\* A merge the board knows of is one its owner was told of, or is about to be;
\* a crash between the answers about one stack can lose it.
Untold(c, p) == p \in board[c].ended /\ <<c, p>> \notin heard /\ watch.card # c
MergeIsTold == \A c \in Card : \A p \in PrsOf[c] :
                 Untold(c, p) => crashes > 0 /\ Cardinality(PrsOf[c]) > 1
MergeIsAlwaysTold == \A c \in Card : \A p \in PrsOf[c] : ~Untold(c, p)

\* A card whose whole stack has merged leaves the board.
Landed(c) == PrsOf[c] # {} /\ PrsOf[c] \subseteq github
MergedLeaves == \A c \in Card : board[c].on /\ Landed(c) ~> ~board[c].on \/ crashes > 0 \/ restores > 0
\* A merge is told and lands: its owner hears of it and the card leaves the board.
MergeLands == []MergeIsTold /\ MergedLeaves
MergedAlwaysLeaves == \A c \in Card : board[c].on /\ Landed(c) ~> ~board[c].on

\* Refuted: a stack with nothing open any more, one of it merged unseen, leaves the board.
Settled(c) == PrsOf[c] \subseteq github \cup shut /\ (PrsOf[c] \cap github) \ board[c].ended # {}
SettledLeaves == \A c \in Card : board[c].on /\ Settled(c) ~> ~board[c].on \/ crashes > 0 \/ restores > 0

\* The card-archived hooks have the worktree they are told of.
HookHasGround == \A c \in Card, k \in Kind :
  job[c][k].pc = "hooks" /\ job[c][k].mine => pool[job[c][k].path] = c

\* A card off the board can be restored.
Restorable == \A c \in Card : ~board[c].on => Readable

\* Only a card on the board is archived.
ArchivedFromBoard == ~Quiet => board[writing.card].on
=============================================================================

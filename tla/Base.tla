-------------------------------- MODULE Base --------------------------------
(***************************************************************************)
(* What a new worker's checkout stands on.  A board starts cards on its    *)
(* own clone of a repository (src/server/worktrees.js): it fetches, takes  *)
(* the tip of origin by value, and gets a checkout either off a pool that  *)
(* every workspace of the machine shares, and that is backed by a clone of *)
(* its own, or under its own clone.  Operations on one clone queue behind  *)
(* one another.  Two boards take no turns: they share the pool's refs.     *)
(*                                                                         *)
(* The history of origin is a line: a commit is its number, and a ref      *)
(* holds the commits up to its own.  0 is no commit.  A clone without an   *)
(* origin/HEAD, which has no tip to check, is left out.  Ground has the    *)
(* life of a checkout after this; Workers has the rest of a start.         *)
(***************************************************************************)
EXTENDS Naturals, FiniteSets, Sequences

CONSTANTS
  Board, Home,   \* the workspaces of one machine, and one of them
  Shared, Own,   \* cards: ids that are on every board, and ids only Home has
  Slot,        \* the pool's checkouts
  MaxTip,      \* bound: how far origin grows
  MaxStarts,   \* bounds: starts of each card
  Trouble,     \* what may happen besides: see TroubleKinds
  MaxTrouble   \* bound: of them all together

TroubleKinds == {"offline",  \* a fetch of origin fails
  "carry",     \* the tip cannot be carried into the pool's checkout
  "nopool",    \* treehouse is not there, or has nothing to lease
  "kept",      \* a lease of the pool is not given back
  "git",       \* a git command fails, or a checkout is not what it should be
  "clone"}     \* the clone of a new project fails, or the server stops in it
NoSlot == ""     \* of a start without a checkout of the pool
BaseAssumption ==
  /\ Home \in Board /\ Shared \cap Own = {} /\ {MaxTip, MaxTrouble} \subseteq Nat
  /\ MaxStarts \in [Shared \cup Own -> Nat]
  /\ Trouble \subseteq TroubleKinds /\ NoSlot \notin Slot

VARIABLES
  tip,       \* origin's default branch
  clone,     \* each board's clone: how far along its making, and its origin/HEAD
  lock,      \* projectQueues: who waits on that clone, the first at work
  pool,      \* the pool's refs: its origin/HEAD, and bc-base/<card> of each card
  lease,     \* slot -> who holds it, and where its HEAD is
  dirs,      \* the checkouts under the clones, with their HEAD
  job,       \* per board and card: its start, its worker or its release
  remains,   \* history: the slots and the directories a command failed to take back
  starts, troubles   \* history: starts of each; what happened besides
vars == <<tip, clone, lock, pool, lease, dirs, job, remains, starts, troubles>>

Card == Shared \cup Own
Key == (Board \X Shared) \cup ({Home} \X Own)
Free == [by |-> <<>>, head |-> 0]
Idle == [at |-> "idle", base |-> 0, asked |-> 0, warned |-> FALSE, slot |-> NoSlot, own |-> FALSE]
Befall(K) == /\ K \subseteq Trouble /\ Cardinality(troubles \cup K) <= MaxTrouble
             /\ troubles' = troubles \cup K
Befalls(k) == Befall({k})
Holder(k) == lock[k[1]] # <<>> /\ Head(lock[k[1]]) = k[2]        \* its turn on the clone
Pops(w) == lock' = [lock EXCEPT ![w] = Tail(@)]
PopsUnlessFailed(w) == UNCHANGED lock                           \* (a mutant's)
PopsAfterFailure(w) == Pops(w)
Job(k, j) == job' = [job EXCEPT ![k] = j]
At(k, where) == job[k].at = where /\ Holder(k)
Head_(k) == IF job[k].slot # NoSlot THEN lease[job[k].slot].head ELSE dirs[k]

-----------------------------------------------------------------------------
(* Registering the project *)
AddProject(w) ==
  /\ clone[w].st = "none" /\ clone' = [clone EXCEPT ![w].st = "cloning"]
  /\ UNCHANGED <<tip, lock, pool, lease, dirs, job, remains, starts, troubles>>
Cloned(w) ==
  /\ clone[w].st = "cloning" /\ clone' = [clone EXCEPT ![w] = [st |-> "ready", ref |-> tip]]
  /\ UNCHANGED <<tip, lock, pool, lease, dirs, job, remains, starts, troubles>>
\* a failed clone takes its directory with it; a server that stops leaves one nobody registered
CloneFails(w) ==
  /\ clone[w].st = "cloning" /\ Befalls("clone")
  /\ \E st \in {"none", "torn"} : clone' = [clone EXCEPT ![w].st = st]
  /\ UNCHANGED <<tip, lock, pool, lease, dirs, job, remains, starts>>

-----------------------------------------------------------------------------
(* createWorktree *)
WithProjectLock(k, where) ==
  /\ lock' = [lock EXCEPT ![k[1]] = Append(@, k[2])] /\ Job(k, [job[k] EXCEPT !.at = where, !.asked = IF where = "fetch" THEN tip ELSE @])
CreateWorktree(k) ==
  /\ job[k].at = "idle" /\ clone[k[1]].st = "ready" /\ starts[k] < MaxStarts[k[2]]
  /\ WithProjectLock(k, "fetch") /\ starts' = [starts EXCEPT ![k] = @ + 1]
  /\ UNCHANGED <<tip, clone, pool, lease, dirs, remains, troubles>>
\* the sha is taken by value; a fetch that fails warns, and what the clone knew is the base
NotFetched(w) == clone[w].ref                                   \* (a mutant's)
Fetched(w) == tip
FreshBase(k) ==
  /\ At(k, "fetch")
  /\ \/ /\ clone' = [clone EXCEPT ![k[1]].ref = Fetched(k[1])] /\ UNCHANGED troubles
        /\ Job(k, [job[k] EXCEPT !.at = "get", !.base = Fetched(k[1])])
     \/ /\ Befalls("offline") /\ UNCHANGED clone
        /\ Job(k, [job[k] EXCEPT !.at = "get", !.base = clone[k[1]].ref, !.warned = TRUE])
  /\ UNCHANGED <<tip, lock, pool, lease, dirs, remains, starts>>
TreehouseGet(k) ==
  /\ At(k, "get")
  /\ \E s \in Slot : /\ lease[s].by = <<>> /\ lease' = [lease EXCEPT ![s].by = k]
                     /\ Job(k, [job[k] EXCEPT !.at = "carry", !.slot = s])
  /\ UNCHANGED <<tip, clone, lock, pool, dirs, remains, starts, troubles>>
TreehouseFails(k) ==
  /\ At(k, "get") /\ Job(k, [job[k] EXCEPT !.at = "add"])
  /\ IF \A s \in Slot : lease[s].by # <<>> THEN UNCHANGED troubles ELSE Befalls("nopool")
  /\ UNCHANGED <<tip, clone, lock, pool, lease, dirs, remains, starts>>
\* it leases, and answers with no path, or one that is not there: nobody gives that back
TreehouseLoses(k) ==
  /\ At(k, "get") /\ Job(k, [job[k] EXCEPT !.at = "add"]) /\ Befalls("kept")
  /\ \E s \in Slot : /\ lease[s].by = <<>> /\ lease' = [lease EXCEPT ![s].by = k]
                     /\ remains' = [remains EXCEPT !.slots = @ \cup {s}]
  /\ UNCHANGED <<tip, clone, lock, pool, dirs, starts>>
\* into the pool's refs, under the card's own name, then out of them
ApplyBase(k) ==
  /\ At(k, "carry") /\ pool' = [pool EXCEPT !.base[k[2]] = clone[k[1]].ref]
  /\ Job(k, [job[k] EXCEPT !.at = "checkout"])
  /\ UNCHANGED <<tip, clone, lock, lease, dirs, remains, starts, troubles>>
Checkout(k) ==
  /\ At(k, "checkout") /\ lease' = [lease EXCEPT ![job[k].slot].head = pool.base[k[2]]]
  /\ Job(k, [job[k] EXCEPT !.at = "assert"])
  /\ UNCHANGED <<tip, clone, lock, pool, dirs, remains, starts, troubles>>
\* or the pool's own idea of origin, and a warning
CarryFails(k) ==
  /\ job[k].at \in {"carry", "checkout"} /\ Holder(k) /\ Befalls("carry")
  /\ lease' = [lease EXCEPT ![job[k].slot].head = pool.origin]
  /\ Job(k, [job[k] EXCEPT !.at = "assert", !.warned = TRUE])
  /\ UNCHANGED <<tip, clone, lock, pool, dirs, remains, starts>>
\* the one command that takes the ground back, over the troubles that led to it: what it says
\* is not looked at, and it may fail
LeaveIt(k, others) == Befall(others) /\ UNCHANGED <<lease, dirs, remains>>     \* (a mutant's)
Stays(k) == IF job[k].own THEN [remains EXCEPT !.dirs = @ \cup {k}]
                          ELSE [remains EXCEPT !.slots = @ \cup {job[k].slot}]
TakenBack(k, others) ==
  \/ /\ Befall(others) /\ UNCHANGED remains
     /\ IF job[k].own THEN dirs' = [dirs EXCEPT ![k] = 0] /\ UNCHANGED lease
        ELSE lease' = [lease EXCEPT ![job[k].slot].by = <<>>] /\ UNCHANGED dirs
  \/ /\ Befall(others \cup {IF job[k].own THEN "git" ELSE "kept"}) /\ remains' = Stays(k)
     /\ UNCHANGED <<lease, dirs>>
\* or nothing: the lease goes back, and the start is refused
ApplyBaseFails(k) ==
  /\ job[k].at \in {"carry", "checkout"} /\ Holder(k) /\ TakenBack(k, {"carry"})
  /\ Job(k, Idle) /\ PopsAfterFailure(k[1])
  /\ UNCHANGED <<tip, clone, pool, starts>>
\* a directory that is there already ends every start of the card that comes this way
PathExists(k) ==
  /\ At(k, "add") /\ dirs[k] # 0 /\ Job(k, Idle) /\ PopsAfterFailure(k[1])
  /\ UNCHANGED <<tip, clone, pool, lease, dirs, remains, starts, troubles>>
WorktreeAdd(k) ==
  /\ At(k, "add") /\ dirs[k] = 0 /\ dirs' = [dirs EXCEPT ![k] = clone[k[1]].ref]
  /\ Job(k, [job[k] EXCEPT !.at = "assert", !.own = TRUE])
  /\ UNCHANGED <<tip, clone, lock, pool, lease, remains, starts, troubles>>
\* an add that fails, or is stopped after two minutes, may leave what it had made
WorktreeAddFails(k) ==
  /\ At(k, "add") /\ dirs[k] = 0 /\ Job(k, Idle) /\ PopsAfterFailure(k[1])
  /\ Befalls("git")
  /\ \/ UNCHANGED <<dirs, remains>>
     \/ /\ dirs' = [dirs EXCEPT ![k] = clone[k[1]].ref]
        /\ remains' = [remains EXCEPT !.dirs = @ \cup {k}]
  /\ UNCHANGED <<tip, clone, pool, lease, starts>>
AnyBase(k) == TRUE                                             \* (a mutant's)
OnBase(k) == Head_(k) = job[k].base
\* the last look: a checkout of its own, on the tip that was fetched
Asserted(k) ==
  /\ At(k, "assert") /\ OnBase(k) /\ Job(k, [job[k] EXCEPT !.at = "stands"]) /\ Pops(k[1])
  /\ UNCHANGED <<tip, clone, pool, lease, dirs, remains, starts, troubles>>
\* nothing half made survives a refusal, unless taking it back fails too
Refused(k) ==
  /\ At(k, "assert") /\ ~OnBase(k) /\ TakenBack(k, {}) /\ Job(k, Idle) /\ PopsAfterFailure(k[1])
  /\ UNCHANGED <<tip, clone, pool, starts>>
NotIsolated(k) ==
  /\ At(k, "assert") /\ OnBase(k) /\ TakenBack(k, {"git"}) /\ Job(k, Idle) /\ PopsAfterFailure(k[1])
  /\ UNCHANGED <<tip, clone, pool, starts>>

-----------------------------------------------------------------------------
(* releaseWorktree, of a worker that committed nothing *)
ReleaseWorktree(k) ==
  /\ job[k].at = "stands" /\ WithProjectLock(k, "probe")
  /\ UNCHANGED <<tip, clone, pool, lease, dirs, remains, starts, troubles>>
\* a commit is held when a branch, a tag or a remote's ref of that store reaches it
Held(k) == IF job[k].own THEN dirs[k] <= clone[k[1]].ref
           ELSE \E r \in {pool.origin} \cup {pool.base[c] : c \in Card} : Head_(k) <= r
Released(k) ==
  /\ At(k, "probe") /\ Held(k) /\ Job(k, Idle) /\ Pops(k[1])
  /\ IF job[k].own THEN dirs' = [dirs EXCEPT ![k] = 0] /\ UNCHANGED lease
     ELSE lease' = [lease EXCEPT ![job[k].slot].by = <<>>] /\ UNCHANGED dirs
  /\ UNCHANGED <<tip, clone, pool, remains, starts, troubles>>
NotReleased(k) ==
  /\ At(k, "probe") /\ (Held(k) => Befalls("git")) /\ (~Held(k) => UNCHANGED troubles)
  /\ Job(k, [job[k] EXCEPT !.at = IF Held(k) THEN "stands" ELSE "stuck"]) /\ Pops(k[1])
  /\ UNCHANGED <<tip, clone, pool, lease, dirs, remains, starts>>

OriginGrows ==
  /\ tip < MaxTip /\ tip' = tip + 1
  /\ UNCHANGED <<clone, lock, pool, lease, dirs, job, remains, starts, troubles>>
\* somebody fetches in the clone that backs the pool
PoolFetches ==
  /\ pool.origin # tip /\ pool' = [pool EXCEPT !.origin = tip]
  /\ UNCHANGED <<tip, clone, lock, lease, dirs, job, remains, starts, troubles>>

Init ==
  /\ tip = 1 \* the other boards have the project already
  /\ clone = [w \in Board |-> IF w = Home THEN [st |-> "none", ref |-> 0] ELSE [st |-> "ready", ref |-> 1]]
  /\ lock = [w \in Board |-> <<>>] /\ pool = [origin |-> 1, base |-> [c \in Card |-> 0]]
  /\ lease = [s \in Slot |-> Free] /\ dirs = [k \in Key |-> 0]
  /\ job = [k \in Key |-> Idle] /\ starts = [k \in Key |-> 0] /\ troubles = {}
  /\ remains = [slots |-> {}, dirs |-> {}]
Gets(k) == FreshBase(k) \/ TreehouseGet(k) \/ TreehouseFails(k) \/ TreehouseLoses(k) \/ ApplyBase(k)
  \/ Checkout(k) \/ CarryFails(k) \/ WorktreeAdd(k)
Refuses(k) == ApplyBaseFails(k) \/ PathExists(k) \/ WorktreeAddFails(k) \/ Refused(k) \/ NotIsolated(k)
AtWork(k) == Gets(k) \/ Refuses(k) \/ Asserted(k) \/ Released(k) \/ NotReleased(k)
Next ==
  \/ \E w \in Board : AddProject(w) \/ Cloned(w) \/ CloneFails(w)
  \/ \E k \in Key : CreateWorktree(k) \/ AtWork(k) \/ ReleaseWorktree(k)
  \/ OriginGrows \/ PoolFetches
\* every command an operation runs ends, or is stopped after two minutes (run)
Fairness == \A w \in Board : WF_vars(\E k \in Key : k[1] = w /\ AtWork(k))
Spec == Init /\ [][Next]_vars /\ Fairness

-----------------------------------------------------------------------------
Stands == {k \in Key : job[k].at = "stands"}
(* A worker that starts stands on the tip its own start fetched, whichever *)
(* board wrote the pool's refs meanwhile, and whatever could be carried.   *)
OnFetchedTip == \A k \in Stands : Head_(k) = job[k].base
(* Unless the card was warned, that tip is no older than origin was when   *)
(* the start was asked for, however long it waited for the clone.          *)
FreshOrWarned == \A k \in Stands : job[k].warned \/ job[k].base >= job[k].asked
(* A refusal leaves no lease in the pool and no checkout under the clone:  *)
(* what is held, a start at work or a worker holds, but for what the one   *)
(* command that takes it back failed over.  A slot that is left serves no  *)
(* other card, and a directory that is left no other start of its own.     *)
NothingLeft ==
  /\ \A s \in Slot : lease[s].by # <<>> => s \in remains.slots \/ job[lease[s].by].slot = s
  /\ \A k \in Key : dirs[k] # 0 => k \in remains.dirs \/ job[k].own
  /\ \A k \in Key : job[k].slot \notin remains.slots /\ (k \in remains.dirs => dirs[k] # 0 /\ ~job[k].own)
(* Whoever waits for the clone gets its turn, and is through with it, even *)
(* behind an operation that failed.                                        *)
Waits(k) == \E i \in 1..Len(lock[k[1]]) : lock[k[1]][i] = k[2]
QueueMoves == \A c \in Card : []<>(~Waits(<<Home, c>>))

(* Refuted: with nothing having failed, a start is not refused over what   *)
(* another board's start left in the pool's refs.                          *)
NoContender == \A k \in Key : troubles = {} /\ job[k].at = "assert" => OnBase(k)
(* Refuted: a refusal leaves nothing half made, whatever failed.           *)
NothingSurvives == \A k \in Key : dirs[k] # 0 => job[k].own
(* Refuted with "offline": a worker that committed nothing is released.    *)
CleanReleased == \A k \in Key : job[k].at # "stuck"
(* Refuted with "clone": a project whose clone failed can be added again.  *)
NameStaysFree == \A w \in Board : clone[w].st # "torn"
=============================================================================

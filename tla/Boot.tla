-------------------------------- MODULE Boot --------------------------------
(***************************************************************************)
(* One workspace, the servers started for it and the commands that start   *)
(* and stop them: the renamed state directory, the pid file, the board     *)
(* read at boot and saved at every change, the charter moved to its file,  *)
(* the port, and bc-axi's ensureServer, open --host and stop (server.js,   *)
(* statedir.js, cli/bc-axi).                                               *)
(*                                                                         *)
(* A board is the set of changes it holds; the first server to run is the  *)
(* old name's, when the workspace starts on the old directory.             *)
(***************************************************************************)
EXTENDS Integers, FiniteSets

CONSTANTS Callers, Ports, Pids, MaxChanges, Legacy, Charters, Trouble, MaxTrouble

(* no process has the pid 0; an old workspace starts with its server running *)
ASSUME BootAssumption ==
  /\ Pids \subseteq Nat \ {0} /\ {Legacy, Charters} \subseteq BOOLEAN /\ MaxChanges \in Nat
  /\ Legacy => 1 \in Pids /\ 1 \in Ports

VARIABLES
  dir,            \* the state directory on disk: "old" name or "new"
  pidfile,        \* the pid in server.pid, 0 for no file
  disk,           \* board.json: [set, key], or Broken
  charter,        \* the charter's file: "none" "moved" "edited"
  log,            \* whether server.log holds the last words of the server last started
  proc,           \* Pids -> process
  listening,      \* Ports -> the pid that holds it, 0 for none, Other for another program
  worn,           \* Pids -> how the program looks that wears a dead server's pid, "none" when none does
  call,           \* Callers -> what the command is doing
  acked,          \* changes a client was told are saved
  stray, reason, overlap,  \* history: a stranger was signalled, callers with an excuse, boots that overlapped
  troubles
vars == <<dir, pidfile, disk, charter, log, proc, listening, worn, call, acked, stray, reason,
          overlap, troubles>>
files == <<dir, pidfile, disk, charter, log>>
history == <<stray, reason, overlap>>

Other == -1
Broken == [set |-> {-1}, key |-> FALSE]
Booting == {"born", "checked", "loaded", "ready"}
Live(p) == proc[p].st \in Booting \cup {"up"}
Coming(q) == \E p \in Pids : proc[p].port = q /\ Live(p)
NoProcess == [st |-> "none", port |-> 0, mem |-> {}, key |-> FALSE, home |-> "new"]
Gone == [NoProcess EXCEPT !.st = "gone"]
Trouble1(t) ==
  /\ t \in Trouble \ troubles /\ Cardinality(troubles) < MaxTrouble /\ troubles' = troubles \cup {t}
Excused == reason' = Callers
Recycled(p) == worn[p] # "none"
Mistakable(p) == worn[p] \in {"server.js", "unreadable"}

(* ------------------------------ the server boots ------------------------------ *)
PidAlive(p) == p # 0 /\ (Live(p) \/ Recycled(p))
(* by its command line: any program with an argument called server.js is taken for ours, *)
(* and a command line that cannot be read says nothing                                   *)
LooksLikeOurs(p) ==
  CASE worn[p] = "unreadable" -> "unknown" [] worn[p] = "other" -> "no" [] OTHER -> "yes"
TrustsStrangers(p) == PidAlive(p) /\ LooksLikeOurs(p) = "no"
(* a live pid is not enough, unless nothing speaks against it *)
OwnedByAnother(p) == PidAlive(p) /\ LooksLikeOurs(p) # "no"

(* the old directory is renamed whoever uses it *)
MigrateStateDir == dir' = "new"
CheckPid(p) ==
  /\ proc[p].st = "born" /\ MigrateStateDir
  /\ proc' = [proc EXCEPT ![p] = IF OwnedByAnother(pidfile) THEN Gone ELSE [@ EXCEPT !.st = "checked"]]
  /\ IF OwnedByAnother(pidfile) /\ (pidfile = p \/ Mistakable(pidfile)) THEN Excused ELSE UNCHANGED reason
  /\ UNCHANGED <<pidfile, disk, charter, log, listening, worn, call, acked, stray, overlap, troubles>>
LoadBoard == IF disk = Broken THEN {} ELSE disk.set
TakePid(p) ==
  /\ proc[p].st = "checked" /\ pidfile' = p
  /\ proc' = [proc EXCEPT ![p].st = "loaded", ![p].mem = LoadBoard, ![p].key = disk.key]
  /\ UNCHANGED <<dir, disk, charter, log, listening, worn, call, acked, history, troubles>>
Saved(mem, key) == disk' = [set |-> mem, key |-> key]
(* the charter goes to its file unless there is one, and its key leaves the board; *)
(* where the file cannot be written the key stays for the next boot                *)
MigrateCharters(p) ==
  /\ proc[p].st = "loaded"
  /\ \/ /\ proc[p].key /\ charter' = IF charter = "none" THEN "moved" ELSE charter
        /\ Saved(proc[p].mem, FALSE) /\ UNCHANGED troubles
        /\ proc' = [proc EXCEPT ![p].key = FALSE, ![p].st = "ready"]
     \/ /\ IF proc[p].key THEN charter = "none" /\ Trouble1("unwritable") ELSE UNCHANGED troubles
        /\ proc' = [proc EXCEPT ![p].st = "ready"] /\ UNCHANGED <<charter, disk>>
  /\ UNCHANGED <<dir, pidfile, log, listening, worn, call, acked, history>>
Cleanup(p) == pidfile' = IF pidfile = p THEN 0 ELSE pidfile
Listen(p) ==
  LET q == proc[p].port
  IN  /\ proc[p].st = "ready"
      /\ IF listening[q] = 0
         THEN /\ listening' = [listening EXCEPT ![q] = p] /\ proc' = [proc EXCEPT ![p].st = "up"]
              /\ UNCHANGED <<pidfile, log, reason>>
         ELSE /\ Cleanup(p) /\ log' = TRUE /\ proc' = [proc EXCEPT ![p] = Gone]
              /\ IF listening[q] = Other THEN Excused ELSE UNCHANGED reason
              /\ UNCHANGED listening
      /\ UNCHANGED <<dir, disk, charter, worn, call, acked, stray, overlap, troubles>>

(* ------------------------------ the server runs ------------------------------ *)
SavesLater(p, n) == UNCHANGED disk
SaveBoard(p, n) == Saved(proc[p].mem \cup {n}, proc[p].key)
(* a change is in memory and on disk before its answer goes out *)
Change(p) ==
  /\ proc[p].st = "up" /\ proc[p].home = dir /\ Cardinality(acked) < MaxChanges
  /\ LET n == Cardinality(acked) + 1
     IN  /\ proc' = [proc EXCEPT ![p].mem = @ \cup {n}] /\ SaveBoard(p, n) /\ acked' = acked \cup {n}
  /\ UNCHANGED <<dir, pidfile, charter, log, listening, worn, call, history, troubles>>
EditsCharter ==
  /\ charter = "moved" /\ charter' = "edited"
  /\ UNCHANGED <<dir, pidfile, disk, log, proc, listening, worn, call, acked, history, troubles>>
Freed(p) == [q \in Ports |-> IF listening[q] = p THEN 0 ELSE listening[q]]
Crash(p) ==
  /\ Live(p) /\ Trouble1("crash")
  /\ proc' = [proc EXCEPT ![p] = Gone] /\ listening' = Freed(p) /\ Excused
  /\ UNCHANGED <<files, worn, call, acked, stray, overlap>>
Recycle(p) ==
  /\ proc[p].st = "gone" /\ p = pidfile /\ "recycled" \in Trouble
  /\ \E w \in {"none", "other", "server.js", "unreadable"} : worn' = [worn EXCEPT ![p] = w]
  /\ UNCHANGED <<files, proc, listening, call, acked, history, troubles>>
PortTaken(q) ==
  /\ listening[q] = 0 /\ Trouble1("taken") /\ listening' = [listening EXCEPT ![q] = Other]
  /\ UNCHANGED <<files, proc, worn, call, acked, history>>
HandEdit ==
  /\ Trouble1("edit") /\ disk' = Broken
  /\ UNCHANGED <<dir, pidfile, charter, log, proc, listening, worn, call, acked, history>>

(* ------------------------------ bc-axi ------------------------------ *)
(* the command renames the old directory only when its server is not running *)
Command(c, q) ==
  /\ call[c].st = "idle" /\ call' = [call EXCEPT ![c] = [st |-> "asks", port |-> q]]
  /\ dir' = IF PidAlive(pidfile) THEN dir ELSE "new"
  /\ UNCHANGED <<pidfile, disk, charter, log, proc, listening, worn, acked, history, troubles>>
Idle == [st |-> "idle", port |-> 1]
Ended(c) == call' = [call EXCEPT ![c] = Idle]
ServerUp(q) == listening[q] \in Pids
(* a new pid, or the very one the file of a dead server names *)
NextPid(p) ==
  \/ proc[p].st = "none" /\ \A o \in Pids : o < p => proc[o].st # "none"
  \/ proc[p].st = "gone" /\ p = pidfile /\ ~Recycled(p) /\ "recycled" \in Trouble
(* asked on the port, whatever workspace answers; nobody there: start one and wait *)
EnsureServer(c) ==
  LET q == call[c].port
  IN  /\ call[c].st = "asks"
      /\ \/ /\ ServerUp(q) /\ Ended(c)
            /\ UNCHANGED <<proc, log, reason, overlap, troubles>>
         \/ \E p \in Pids :
              /\ NextPid(p) /\ IF ServerUp(q) THEN Trouble1("slow") ELSE UNCHANGED troubles
              /\ log' = FALSE /\ reason' = reason \ {c}
              /\ overlap' = (overlap \/ \E o \in Pids : proc[o].st \in Booting)
              /\ proc' = [proc EXCEPT ![p].st = "born", ![p].port = q]
              /\ call' = [call EXCEPT ![c].st = "waits"]
      /\ UNCHANGED <<dir, pidfile, disk, charter, listening, worn, acked, stray>>
Answers(c) ==
  /\ call[c].st = "waits" /\ ServerUp(call[c].port) /\ Ended(c)
  /\ UNCHANGED <<files, proc, listening, worn, acked, history, troubles>>
NeverGivesUp(c) == Answers(c)
(* twenty polls without an answer, whatever still boots: "server failed to start" *)
GivesUp(c) ==
  /\ call[c].st = "waits" /\ Ended(c)
  /\ IF ServerUp(call[c].port) THEN Trouble1("slow") ELSE UNCHANGED troubles
  /\ UNCHANGED <<files, proc, listening, worn, acked, history>>
(* stop, and open --host on a board bound elsewhere: the pid file first, the answer next *)
StopTarget(q) == IF pidfile # 0 THEN pidfile ELSE listening[q]
Stops(c, q) ==
  LET p == StopTarget(q)
  IN  /\ call[c].st = "idle" /\ p \in Pids /\ PidAlive(p)
      /\ stray' = (stray \/ Recycled(p)) /\ Ended(c)
      /\ IF Live(p) THEN /\ proc' = [proc EXCEPT ![p] = Gone] /\ Cleanup(p)
                         /\ listening' = Freed(p) /\ Excused
                    ELSE UNCHANGED <<proc, pidfile, listening, reason>>
      /\ UNCHANGED <<dir, disk, charter, log, worn, acked, overlap, troubles>>
First == [st |-> "up", port |-> 1, mem |-> {}, key |-> FALSE, home |-> "old"]
Init ==
  /\ dir = (IF Legacy THEN "old" ELSE "new") /\ disk = [set |-> {}, key |-> Charters]
  /\ charter = "none" /\ log = FALSE /\ worn = [p \in Pids |-> "none"] /\ acked = {} /\ stray = FALSE /\ reason = {}
  /\ pidfile = (IF Legacy THEN 1 ELSE 0)
  /\ proc = [p \in Pids |-> IF Legacy /\ p = 1 THEN First ELSE NoProcess]
  /\ listening = [q \in Ports |-> IF Legacy /\ q = 1 THEN 1 ELSE 0]
  /\ call = [c \in Callers |-> Idle] /\ overlap = FALSE /\ troubles = {}
Next ==
  \/ \E p \in Pids : CheckPid(p) \/ TakePid(p) \/ MigrateCharters(p) \/ Listen(p) \/ Change(p)
                     \/ Crash(p) \/ Recycle(p)
  \/ EditsCharter \/ HandEdit \/ \E q \in Ports : PortTaken(q)
  \/ \E c \in Callers : EnsureServer(c) \/ Answers(c) \/ GivesUp(c)
                        \/ \E q \in Ports : Command(c, q) \/ Stops(c, q)
(* a process that was started runs, a command that waits ends *)
Fairness ==
  /\ \A p \in Pids : WF_vars(CheckPid(p) \/ TakePid(p) \/ MigrateCharters(p) \/ Listen(p))
  /\ \A c \in Callers : WF_vars(EnsureServer(c)) /\ WF_vars(Answers(c) \/ GivesUp(c))
Spec == Init /\ [][Next]_vars /\ Fairness

(* ------------------------------- properties -------------------------------- *)
(* Servers whose boots did not overlap never own one workspace together, whatever ports   *)
(* they were given: two of them would save the one board over each other (server.js       *)
(* "single instance per workspace").                                                      *)
OneOwner == overlap \/ Cardinality({p \in Pids : proc[p].st = "up"}) <= 1
(* What a client was told is saved is on disk or with the server that runs, through        *)
(* crashes, restarts, renames and migrations.                                             *)
AckedKept == overlap \/ "edit" \in troubles \/ acked \subseteq disk.set \cup UNION {proc[p].mem : p \in {o \in Pids : proc[o].st = "up"}}
(* "server failed to start" is said only while a server of the workspace is alive, still     *)
(* booting, slow or on another port, or when one was killed, stopped, kept off its port or  *)
(* took the program that wears the pid in the file for a server: a pid file left by a crash *)
(* never keeps a board down by itself, nor one worn by a program that shows it is another.  *)
FailsForAReason == [][\A c \in Callers : GivesUp(c) =>
  c \in reason \/ \E p \in Pids : Live(p)]_vars
(* A command that waits for a server ends.                                                *)
EnsureEnds == \A c \in Callers : call[c].st = "waits" ~> call[c].st # "waits"
(* And whatever it said, a server it was for comes up, but for those same reasons: that the *)
(* command gave up while the boot went on takes no board away.                             *)
BoardComes == \A c \in Callers :
  call[c].st = "waits" ~> c \in reason \/ \E p \in Pids : proc[p].st = "up"
(* Refuted: a recycled pid does not block a real boot (server.js 290).                     *)
RecycledNeverBlocks == [][\A p \in Pids : CheckPid(p) /\ proc'[p].st = "gone" =>
  \E o \in Pids \ {p} : Live(o)]_vars
(* Refuted: what never answered is said to have failed, not what still boots (bc-axi 276).  *)
GivesUpOnTheDead == [][\A c \in Callers : GivesUp(c) => ~Coming(call[c].port)]_vars
(* Refuted: the pid file makes a server the only one of its workspace (server.js).         *)
OneOwnerAlways == Cardinality({p \in Pids : proc[p].st = "up"}) <= 1
(* Refuted: stop signals servers only.                                                    *)
StopsOurs == ~stray
(* Refuted: nothing that was saved is lost.                                               *)
AckedAlwaysKept == acked \subseteq disk.set \cup UNION {proc[p].mem : p \in {o \in Pids : proc[o].st = "up"}}
(* Refuted: a failed boot leaves a trace (bc-axi "a failed auto-boot leaves a trace").     *)
LeavesTrace == [][\A c \in Callers : GivesUp(c) /\ c \notin reason => log]_vars
(* Refuted: a running server's directory stays where it is (statedir.js isLive).           *)
LiveDirStays == \A p \in Pids : proc[p].st = "up" => proc[p].home = dir
=============================================================================

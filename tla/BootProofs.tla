----------------------------- MODULE BootProofs -----------------------------
(***************************************************************************)
(* Theorems about module Boot, for every value of its constants: servers   *)
(* whose boots do not overlap never share a workspace, what a client was   *)
(* told is saved stays saved, and no start fails for nothing.              *)
(***************************************************************************)
EXTENDS Boot, FiniteSetTheorems, TLAPS

States == {"none", "born", "checked", "loaded", "ready", "up", "gone"}
Process == [st : States, port : Ports \cup {0}, mem : SUBSET Nat, key : BOOLEAN, home : {"old", "new"}]

Calls == {Idle} \cup [st : {"asks", "waits"}, port : Ports]

Looks == {"none", "other", "server.js", "unreadable"}

\* A process that has written its pid and not ended.
Claims(p) == proc[p].st \in {"loaded", "ready", "up"}

Shape ==
  /\ proc \in [Pids -> Process]
  /\ pidfile \in Pids \cup {0}
  /\ call \in [Callers -> Calls]
  /\ disk.key \in BOOLEAN /\ overlap \in BOOLEAN
  /\ acked \subseteq Nat /\ IsFiniteSet(acked)
  /\ worn \in [Pids -> Looks] /\ \A p \in Pids : Recycled(p) => proc[p].st = "gone"
  /\ (disk = Broken /\ "edit" \in troubles) \/ disk.set \subseteq Nat

\* Boots that do not overlap: one boots at a time, whoever claims the workspace has its
\* pid in the file, and nobody that found the file free boots beside a running server.
Alone ==
  /\ \A p, o \in Pids : proc[p].st \in Booting /\ proc[o].st \in Booting => p = o
  /\ \A p \in Pids : Claims(p) => pidfile = p
  /\ \A p, o \in Pids : proc[p].st = "checked" => proc[o].st # "up"

\* What was acknowledged is on disk and in the memory of whoever may write the disk next.
Safe ==
  /\ acked \subseteq disk.set
  /\ \A p \in Pids : Claims(p) => acked \subseteq proc[p].mem

BootInv ==
  /\ Shape
  /\ ~overlap => Alone
  /\ ~overlap /\ "edit" \notin troubles => Safe

-----------------------------------------------------------------------------
LEMMA BootInit == Init => BootInv
<1> SUFFICES ASSUME Init PROVE BootInv
  OBVIOUS
<1>1. First \in Process \/ ~Legacy
  BY BootAssumption DEF First, Process, States
<1>2. NoProcess \in Process
  BY DEF NoProcess, Process, States
<1>3. proc \in [Pids -> Process]
  BY <1>1, <1>2 DEF Init
<1>4. \A p \in Pids : proc[p].st = "none" \/ (proc[p].st = "up" /\ p = 1 /\ pidfile = 1)
  BY DEF Init, First, NoProcess
<1>5. Shape
  BY <1>3, BootAssumption, FS_EmptySet DEF Init, Shape, Calls, Recycled, Looks
<1>6. Alone
  BY <1>4 DEF Alone, Claims, Booting
<1>7. Safe
  BY DEF Init, Safe
<1> QED BY <1>5, <1>6, <1>7 DEF BootInv

\* Steps that touch no process, no pid file and no acknowledged change.
LEMMA Aside ==
  ASSUME BootInv, UNCHANGED <<pidfile, disk, proc, worn, acked, overlap>>,
         call' \in [Callers -> Calls],
         troubles \subseteq troubles'
  PROVE  BootInv'
<1>1. Shape'
  BY DEF BootInv, Shape, Recycled
<1>2. ~overlap => Alone'
  BY DEF BootInv, Alone, Claims
<1>3. ~overlap /\ "edit" \notin troubles' => Safe'
  BY DEF BootInv, Safe, Claims
<1> QED BY <1>1, <1>2, <1>3 DEF BootInv

\* A process ends, and takes its pid file along or leaves it.
LEMMA Ends ==
  ASSUME BootInv, NEW p \in Pids, proc[p].st # "gone", proc' = [proc EXCEPT ![p] = Gone],
         pidfile' \in {pidfile, IF pidfile = p THEN 0 ELSE pidfile},
         UNCHANGED <<disk, worn, acked, overlap>>, troubles \subseteq troubles',
         call' \in [Callers -> Calls]
  PROVE  BootInv'
<1>0. Gone \in Process /\ Gone.st = "gone"
  BY DEF Gone, NoProcess, Process, States
<1>1. /\ proc'[p] = Gone
      /\ \A o \in Pids : o # p => proc'[o] = proc[o]
      /\ proc' \in [Pids -> Process]
  BY <1>0 DEF BootInv, Shape
<1>2. Shape'
  BY <1>0, <1>1 DEF BootInv, Shape, Recycled
<1>3. \A o \in Pids : o # p /\ Claims(o) => Claims(o)' /\ proc'[o].mem = proc[o].mem
  BY <1>1 DEF Claims
<1>4. ~Claims(p)' /\ proc'[p].st \notin Booting \cup {"up"}
  BY <1>0, <1>1 DEF Claims, Booting
<1>5. ASSUME Alone PROVE Alone'
  <2>1. \A o \in Pids : Claims(o)' => pidfile' = o
    BY <1>1, <1>4, <1>5 DEF Alone, Claims, BootInv, Shape
  <2>2. \A q, o \in Pids : proc'[q].st \in Booting /\ proc'[o].st \in Booting => q = o
    BY <1>1, <1>4, <1>5 DEF Alone
  <2>3. \A q, o \in Pids : proc'[q].st = "checked" => proc'[o].st # "up"
    BY <1>0, <1>1, <1>5 DEF Alone
  <2> QED BY <2>1, <2>2, <2>3 DEF Alone
<1>6. ASSUME Safe PROVE Safe'
  BY <1>1, <1>4, <1>6 DEF Safe, Claims
<1> QED BY <1>2, <1>5, <1>6 DEF BootInv

-----------------------------------------------------------------------------
\* A server that passed the check found no other that claims the workspace.
LEMMA CheckAlone ==
  ASSUME BootInv, NEW p \in Pids, CheckPid(p)
  PROVE  BootInv'
<1>0. troubles \subseteq troubles' /\ UNCHANGED <<pidfile, disk, worn, call, acked, overlap>>
  BY DEF CheckPid, history
<1>1. CASE OwnedByAnother(pidfile)
  <2>1. proc' = [proc EXCEPT ![p] = Gone] /\ proc[p].st # "gone"
    BY <1>1 DEF CheckPid
  <2> QED BY <1>0, <2>1, Ends DEF BootInv, Shape
<1>2. CASE ~OwnedByAnother(pidfile)
  <2>1. proc' = [proc EXCEPT ![p].st = "checked"] /\ proc[p].st = "born"
    BY <1>2 DEF CheckPid
  <2>2. proc[p] \in Process
    BY DEF BootInv, Shape
  <2>3. /\ proc'[p].st = "checked" /\ proc'[p].mem = proc[p].mem
        /\ \A o \in Pids : o # p => proc'[o] = proc[o]
        /\ proc' \in [Pids -> Process]
    BY <2>1, <2>2 DEF BootInv, Shape, Process, States
  <2>4. Shape'
    BY <1>0, <2>1, <2>3 DEF BootInv, Shape, Recycled
  <2>5. \A o \in Pids : Claims(o)' => Claims(o) /\ o # p
    BY <2>1, <2>3 DEF Claims
  <2>6. ASSUME Alone PROVE Alone'
    <3>1. \A o \in Pids : proc[o].st # "up"
      <4> SUFFICES ASSUME NEW o \in Pids, proc[o].st = "up" PROVE FALSE
        OBVIOUS
      <4>1. pidfile = o /\ o # 0
        BY <2>6, BootAssumption DEF Alone, Claims
      <4>2. ~Recycled(o)
        BY DEF BootInv, Shape
      <4> QED BY <1>2, <4>1, <4>2 DEF OwnedByAnother, PidAlive, LooksLikeOurs, Live, Recycled
    <3>2. \A q, o \in Pids : proc'[q].st \in Booting /\ proc'[o].st \in Booting => q = o
      BY <2>1, <2>3, <2>6 DEF Alone, Booting
    <3>3. \A o \in Pids : Claims(o)' => pidfile' = o
      BY <1>0, <2>5, <2>6 DEF Alone
    <3>4. \A o \in Pids : proc'[o].st # "up"
      BY <2>3, <3>1
    <3> QED BY <3>2, <3>3, <3>4 DEF Alone
  <2>7. ASSUME Safe PROVE Safe'
    BY <1>0, <2>3, <2>5, <2>7 DEF Safe
  <2> QED BY <1>0, <2>4, <2>6, <2>7 DEF BootInv
<1> QED BY <1>1, <1>2

LEMMA TakeAlone ==
  ASSUME BootInv, NEW p \in Pids, TakePid(p)
  PROVE  BootInv'
<1>0. /\ pidfile' = p /\ proc[p].st = "checked"
      /\ proc' = [proc EXCEPT ![p].st = "loaded", ![p].mem = LoadBoard, ![p].key = disk.key]
      /\ UNCHANGED <<disk, worn, call, acked, overlap, troubles>>
  BY DEF TakePid, history
<1>1. proc[p] \in Process /\ LoadBoard \in SUBSET Nat /\ disk.key \in BOOLEAN
  BY DEF BootInv, Shape, LoadBoard
<1>2. /\ proc'[p].st = "loaded" /\ proc'[p].mem = LoadBoard
      /\ \A o \in Pids : o # p => proc'[o] = proc[o]
      /\ proc' \in [Pids -> Process]
  BY <1>0, <1>1 DEF BootInv, Shape, Process, States
<1>3. Shape'
  BY <1>0, <1>2 DEF BootInv, Shape, Recycled
<1>4. ASSUME Alone PROVE Alone' /\ \A o \in Pids : Claims(o)' => o = p
  <2>1. \A o \in Pids : o # p => ~Claims(o)
    BY <1>0, <1>4 DEF Alone, Claims, Booting
  <2>2. \A o \in Pids : Claims(o)' => o = p
    BY <1>2, <2>1 DEF Claims
  <2>3. \A q, o \in Pids : proc'[q].st \in Booting /\ proc'[o].st \in Booting => q = o
    BY <1>0, <1>2, <1>4 DEF Alone, Booting
  <2>4. \A o \in Pids : proc'[o].st # "up"
    BY <1>2, <2>2 DEF Claims
  <2> QED BY <1>0, <2>2, <2>3, <2>4 DEF Alone
<1>5. ASSUME ~overlap, "edit" \notin troubles PROVE Safe'
  <2>1. disk.set \subseteq Nat /\ acked \subseteq disk.set
    BY <1>5 DEF BootInv, Shape, Safe
  <2>2. disk # Broken
    BY <2>1 DEF Broken
  <2> QED BY <1>0, <1>2, <1>4, <1>5, <2>1, <2>2 DEF Safe, LoadBoard, BootInv
<1> QED BY <1>0, <1>3, <1>4, <1>5 DEF BootInv

\* A server that claims the workspace moves on, with the memory it had.
LEMMA MovesOn ==
  ASSUME BootInv, NEW p \in Pids, NEW st \in {"ready", "up"},
         proc[p].st = (IF st = "ready" THEN "loaded" ELSE "ready"),
         proc'[p] \in Process, proc'[p].st = st, proc'[p].mem = proc[p].mem,
         \A o \in Pids : o # p => proc'[o] = proc[o],
         proc' \in [Pids -> Process],
         disk' = disk \/ (disk'.set = proc[p].mem /\ disk'.key \in BOOLEAN),
         UNCHANGED <<pidfile, worn, call, acked, overlap>>, troubles \subseteq troubles'
  PROVE  BootInv'
<1>1. proc[p] \in Process /\ proc[p].mem \subseteq Nat
  BY DEF BootInv, Shape, Process
<1>2. Shape'
  <2>1. (disk' = Broken /\ "edit" \in troubles') \/ disk'.set \subseteq Nat
    BY <1>1 DEF BootInv, Shape
  <2>2. disk'.key \in BOOLEAN
    BY DEF BootInv, Shape
  <2> QED BY <2>1, <2>2 DEF BootInv, Shape, Recycled
<1>3. \A o \in Pids : (Claims(o)' <=> Claims(o)) /\ proc'[o].mem = proc[o].mem
  BY DEF Claims
<1>4. ASSUME Alone PROVE Alone'
  <2>1. \A o \in Pids : Claims(o)' => pidfile' = o
    BY <1>3, <1>4 DEF Alone
  <2>2. \A o \in Pids : proc'[o].st \in Booting => proc[o].st \in Booting
    BY DEF Booting
  <2>3. \A q, o \in Pids : proc'[q].st \in Booting /\ proc'[o].st \in Booting => q = o
    BY <1>4, <2>2 DEF Alone
  <2>4. ASSUME NEW q \in Pids, NEW o \in Pids, proc'[q].st = "checked" PROVE proc'[o].st # "up"
    <3>1. q # p /\ proc[q].st = "checked"
      BY <2>4
    <3>2. proc[p].st \notin Booting
      BY <1>4, <3>1 DEF Alone, Booting
    <3> QED BY <3>2 DEF Booting
  <2> QED BY <2>1, <2>3, <2>4 DEF Alone
<1>5. ASSUME Safe PROVE Safe'
  <2>1. Claims(p)
    BY DEF Claims
  <2> QED BY <1>3, <1>5, <2>1 DEF Safe
<1> QED BY <1>2, <1>4, <1>5 DEF BootInv

LEMMA MigrateAlone ==
  ASSUME BootInv, NEW p \in Pids, MigrateCharters(p)
  PROVE  BootInv'
<1>1. proc[p] \in Process
  BY DEF BootInv, Shape
<1>2. CASE /\ disk' = [set |-> proc[p].mem, key |-> FALSE] /\ UNCHANGED troubles
           /\ proc' = [proc EXCEPT ![p].key = FALSE, ![p].st = "ready"]
  <2>1. /\ proc'[p] \in Process /\ proc'[p].st = "ready" /\ proc'[p].mem = proc[p].mem
        /\ \A o \in Pids : o # p => proc'[o] = proc[o]
        /\ proc' \in [Pids -> Process]
    BY <1>1, <1>2 DEF BootInv, Shape, Process, States
  <2> QED BY <1>2, <2>1, MovesOn DEF MigrateCharters, history
<1>3. CASE /\ troubles \subseteq troubles' /\ UNCHANGED disk
           /\ proc' = [proc EXCEPT ![p].st = "ready"]
  <2>1. /\ proc'[p] \in Process /\ proc'[p].st = "ready" /\ proc'[p].mem = proc[p].mem
        /\ \A o \in Pids : o # p => proc'[o] = proc[o]
        /\ proc' \in [Pids -> Process]
    BY <1>1, <1>3 DEF BootInv, Shape, Process, States
  <2> QED BY <1>3, <2>1, MovesOn DEF MigrateCharters, history
<1> QED BY <1>2, <1>3 DEF MigrateCharters, Saved, Trouble1

LEMMA ListenAlone ==
  ASSUME BootInv, NEW p \in Pids, Listen(p)
  PROVE  BootInv'
<1>1. proc[p] \in Process /\ proc[p].st = "ready"
  BY DEF BootInv, Shape, Listen
<1>2. UNCHANGED <<disk, worn, call, acked, overlap, troubles>>
  BY DEF Listen
<1>3. CASE proc' = [proc EXCEPT ![p].st = "up"] /\ UNCHANGED pidfile
  <2>1. /\ proc'[p] \in Process /\ proc'[p].st = "up" /\ proc'[p].mem = proc[p].mem
        /\ \A o \in Pids : o # p => proc'[o] = proc[o]
        /\ proc' \in [Pids -> Process]
    BY <1>1, <1>3 DEF BootInv, Shape, Process, States
  <2> QED BY <1>1, <1>2, <1>3, <2>1, MovesOn
<1>4. CASE proc' = [proc EXCEPT ![p] = Gone] /\ Cleanup(p)
  BY <1>1, <1>2, <1>4, Ends DEF Cleanup, BootInv, Shape
<1> QED BY <1>3, <1>4 DEF Listen

\* A change is in the memory of the one server that runs and on the disk before it is
\* acknowledged.
LEMMA ChangeSafe ==
  ASSUME BootInv, NEW p \in Pids, Change(p)
  PROVE  BootInv'
<1> DEFINE n == Cardinality(acked) + 1
<1>0. n \in Nat
  BY FS_CardinalityType DEF BootInv, Shape
<1>1. /\ proc[p] \in Process /\ proc[p].st = "up"
      /\ proc' = [proc EXCEPT ![p].mem = @ \cup {n}]
      /\ disk' = [set |-> proc[p].mem \cup {n}, key |-> proc[p].key]
      /\ acked' = acked \cup {n}
      /\ UNCHANGED <<pidfile, worn, call, overlap, troubles>>
  BY DEF Change, SaveBoard, Saved, history, BootInv, Shape
<1>2. /\ proc'[p].st = "up" /\ proc'[p].mem = proc[p].mem \cup {n}
      /\ \A o \in Pids : o # p => proc'[o] = proc[o]
      /\ proc' \in [Pids -> Process]
  BY <1>0, <1>1 DEF BootInv, Shape, Process
<1>3. Shape'
  <2>1. IsFiniteSet(acked')
    BY <1>1, FS_AddElement DEF BootInv, Shape
  <2>2. disk'.set \subseteq Nat /\ disk'.key \in BOOLEAN
    BY <1>0, <1>1 DEF Process
  <2> QED BY <1>0, <1>1, <1>2, <2>1, <2>2 DEF BootInv, Shape, Recycled
<1>4. \A o \in Pids : proc'[o].st = proc[o].st
  BY <1>1, <1>2
<1>5. ASSUME Alone PROVE Alone'
  BY <1>1, <1>4, <1>5 DEF Alone, Claims
<1>6. ASSUME Alone, Safe PROVE Safe'
  <2>1. \A o \in Pids : Claims(o)' => o = p
    BY <1>1, <1>4, <1>6 DEF Alone, Claims
  <2>2. acked \subseteq proc[p].mem
    BY <1>1, <1>6 DEF Safe, Claims
  <2> QED BY <1>1, <1>2, <2>1, <2>2 DEF Safe
<1> QED BY <1>1, <1>3, <1>5, <1>6 DEF BootInv

\* A start beside a boot under way is an overlap; any other finds nobody booting.
LEMMA StartAlone ==
  ASSUME BootInv, NEW c \in Callers, EnsureServer(c)
  PROVE  BootInv'
<1>0. UNCHANGED <<pidfile, disk, worn, acked>> /\ call[c] \in [st : {"asks"}, port : Ports]
  BY DEF EnsureServer, BootInv, Shape, Calls, Idle
<1>1. CASE Ended(c) /\ UNCHANGED <<proc, overlap, troubles>>
  BY <1>0, <1>1, Aside DEF Ended, Calls, BootInv, Shape
<1>2. ASSUME NEW p \in Pids, NextPid(p), troubles \subseteq troubles',
             overlap' = (overlap \/ \E o \in Pids : proc[o].st \in Booting),
             proc' = [proc EXCEPT ![p].st = "born", ![p].port = call[c].port],
             call' = [call EXCEPT ![c].st = "waits"]
      PROVE  BootInv'
  <2>1. proc[p] \in Process /\ proc[p].st \in {"none", "gone"} /\ ~Recycled(p)
    BY <1>2 DEF BootInv, Shape, NextPid
  <2>2. /\ proc'[p].st = "born" /\ proc'[p].mem = proc[p].mem
        /\ \A o \in Pids : o # p => proc'[o] = proc[o]
        /\ proc' \in [Pids -> Process]
    BY <1>0, <1>2, <2>1 DEF BootInv, Shape, Process, States
  <2>3. call' \in [Callers -> Calls]
    <3>1. [call[c] EXCEPT !.st = "waits"] \in Calls
      BY <1>0 DEF Calls
    <3> QED BY <1>2, <3>1 DEF BootInv, Shape
  <2>4. Shape'
    BY <1>0, <1>2, <2>1, <2>2, <2>3 DEF BootInv, Shape, Recycled
  <2>5. \A o \in Pids : Claims(o)' => Claims(o) /\ o # p
    BY <2>2 DEF Claims
  <2>6. ASSUME ~overlap' PROVE ~overlap /\ Alone'
    <3>1. ~overlap /\ \A o \in Pids : proc[o].st \notin Booting
      BY <1>2, <2>6
    <3>2. \A o \in Pids : o # p => proc'[o].st \notin Booting
      BY <2>2, <3>1
    <3>3. \A o \in Pids : proc'[o].st # "checked"
      BY <2>2, <3>2 DEF Booting
    <3> QED BY <1>0, <2>5, <3>1, <3>2, <3>3 DEF Alone, BootInv
  <2>7. ASSUME Safe PROVE Safe'
    BY <1>0, <2>2, <2>5, <2>7 DEF Safe
  <2> QED BY <1>2, <2>4, <2>6, <2>7 DEF BootInv
<1> QED BY <1>0, <1>1, <1>2 DEF EnsureServer, Trouble1

LEMMA BootStep == BootInv /\ [Next]_vars => BootInv'
<1> SUFFICES ASSUME BootInv, [Next]_vars PROVE BootInv'
  OBVIOUS
<1> USE DEF history, files
<1>1. CASE UNCHANGED vars
  BY <1>1, Aside DEF vars, BootInv, Shape
<1>2. ASSUME NEW p \in Pids,
             CheckPid(p) \/ TakePid(p) \/ MigrateCharters(p) \/ Listen(p) \/ Change(p)
      PROVE  BootInv'
  BY <1>2, CheckAlone, TakeAlone, MigrateAlone, ListenAlone, ChangeSafe
<1>3. ASSUME NEW p \in Pids, Crash(p) PROVE BootInv'
  BY <1>3, Ends DEF Crash, Trouble1, Live, Booting, BootInv, Shape
<1>4. ASSUME NEW p \in Pids, Recycle(p) PROVE BootInv'
  BY <1>4 DEF Recycle, BootInv, Shape, Alone, Safe, Claims, Recycled, Looks
<1>5. CASE HandEdit
  <2>1. /\ disk' = Broken /\ "edit" \in troubles'
        /\ UNCHANGED <<pidfile, proc, worn, call, acked, overlap>>
    BY <1>5 DEF HandEdit, Trouble1
  <2> QED BY <2>1 DEF Broken, BootInv, Shape, Alone, Claims, Recycled
<1>6. ASSUME EditsCharter \/ \E q \in Ports : PortTaken(q) PROVE BootInv'
  BY <1>6, Aside DEF EditsCharter, PortTaken, Trouble1, BootInv, Shape
<1>7. ASSUME NEW c \in Callers, EnsureServer(c) PROVE BootInv'
  BY <1>7, StartAlone
<1>8. ASSUME NEW c \in Callers, Answers(c) \/ GivesUp(c) PROVE BootInv'
  <2>1. call' = [call EXCEPT ![c] = Idle] /\ troubles \subseteq troubles'
    BY <1>8 DEF Answers, GivesUp, Ended, Trouble1
  <2> QED BY <1>8, <2>1, Aside DEF Answers, GivesUp, Calls, BootInv, Shape
<1>9. ASSUME NEW c \in Callers, NEW q \in Ports, Command(c, q) PROVE BootInv'
  BY <1>9, Aside DEF Command, Calls, BootInv, Shape
<1>10. ASSUME NEW c \in Callers, NEW q \in Ports, Stops(c, q) PROVE BootInv'
  <2>1. call' \in [Callers -> Calls]
    BY <1>10 DEF Stops, Ended, Calls, BootInv, Shape
  <2> DEFINE p == StopTarget(q)
  <2>2. p \in Pids /\ UNCHANGED <<disk, worn, acked, overlap, troubles>>
    BY <1>10 DEF Stops
  <2>3. CASE Live(p)
    <3>1. proc' = [proc EXCEPT ![p] = Gone] /\ Cleanup(p) /\ proc[p].st # "gone"
      BY <1>10, <2>3 DEF Stops, Live, Booting
    <3> HIDE DEF p
    <3> QED BY <2>1, <2>2, <3>1, Ends DEF Cleanup
  <2>4. CASE ~Live(p)
    <3>1. UNCHANGED <<proc, pidfile>>
      BY <1>10, <2>4 DEF Stops
    <3> QED BY <2>1, <2>2, <3>1, Aside
  <2> QED BY <2>3, <2>4
<1> QED BY <1>1, <1>2, <1>3, <1>4, <1>5, <1>6, <1>7, <1>8, <1>9, <1>10 DEF Next

-----------------------------------------------------------------------------
\* Servers whose boots do not overlap never own one workspace together: the pid file,
\* checked at boot and dropped at the end, keeps the second out, crashes and pids that
\* another program wears included.
THEOREM OneServerPerWorkspace == Spec => []OneOwner
<1>1. ASSUME BootInv PROVE OneOwner
  <2> SUFFICES ASSUME ~overlap PROVE Cardinality({p \in Pids : proc[p].st = "up"}) <= 1
    BY DEF OneOwner
  <2> DEFINE Up == {p \in Pids : proc[p].st = "up"}
  <2>1. Up \subseteq {pidfile}
    BY <1>1 DEF BootInv, Alone, Claims
  <2>2. Cardinality(Up) <= Cardinality({pidfile})
    BY <2>1, FS_Subset, FS_Singleton
  <2> QED BY <2>2, FS_Singleton
<1> QED BY <1>1, BootInit, BootStep, PTL DEF Spec

\* A change a client was told is saved is on disk, or with the server that runs, through
\* crashes, stops, restarts and the moving of the charter.
THEOREM SavedStaysSaved == Spec => []AckedKept
<1>1. BootInv => AckedKept
  BY DEF BootInv, Safe, AckedKept
<1> QED BY <1>1, BootInit, BootStep, PTL DEF Spec

-----------------------------------------------------------------------------
(* A port is held by a server that is up, and the pid file names one that wrote it. *)
Held ==
  /\ listening \in [Ports -> Pids \cup {0, Other}]
  /\ \A q \in Ports : listening[q] \in Pids => proc[listening[q]].st = "up"
  /\ \A p \in Pids : Live(p) => proc[p].port \in Ports
  /\ pidfile # 0 => proc[pidfile].st \in {"born", "loaded", "ready", "up", "gone"}
(* A command that waits has its excuse, or somebody to wait for. *)
Waited == \A c \in Callers : call[c].st = "waits" => c \in reason \/ \E p \in Pids : Live(p)
WaitInv == BootInv /\ Held /\ Waited

LEMMA WaitInit == Init => Held /\ Waited
<1> SUFFICES ASSUME Init PROVE Held /\ Waited
  OBVIOUS
<1>1. \A p \in Pids : Live(p) => p = 1 /\ proc[p] = First /\ Legacy
  BY DEF Init, Live, Booting, NoProcess
<1>2. listening \in [Ports -> Pids \cup {0, Other}]
  BY BootAssumption DEF Init
<1>3. \A q \in Ports : listening[q] \in Pids => proc[listening[q]].st = "up"
  BY BootAssumption DEF Init, First
<1>4. \A p \in Pids : Live(p) => proc[p].port \in Ports
  <2>1. First.port = 1 /\ (Legacy => 1 \in Ports)
    BY BootAssumption DEF First
  <2> QED BY <1>1, <2>1
<1>5. pidfile # 0 => proc[pidfile].st = "up"
  BY BootAssumption DEF Init, First
<1>6. Waited
  BY DEF Init, Waited, Idle
<1> QED BY <1>2, <1>3, <1>4, <1>5, <1>6 DEF Held

(* A server moves on and holds what it held. *)
Moves(p, r) ==
  /\ proc' = [proc EXCEPT ![p] = r] /\ Live(p) /\ r.port = proc[p].port
  /\ r.st \in Booting \cup {"up"} /\ (proc[p].st = "up" => r.st = "up")
  /\ listening' \in [Ports -> Pids \cup {0, Other}]
  /\ \A q \in Ports : listening'[q] = listening[q] \/ (listening'[q] = p /\ r.st = "up")
  /\ pidfile' = pidfile \/ (pidfile' = p /\ r.st = "loaded")
  /\ pidfile = p => r.st \in {"loaded", "ready", "up"}
  /\ UNCHANGED <<call, reason>>
LEMMA HoldsOn == ASSUME WaitInv, NEW p \in Pids, NEW r, Moves(p, r) PROVE Held' /\ Waited'
<1>1. proc'[p] = r /\ \A o \in Pids \ {p} : proc'[o] = proc[o]
  BY DEF WaitInv, BootInv, Shape, Moves
<1>2. \A o \in Pids : Live(o) => Live(o)' /\ proc'[o].port = proc[o].port
  BY <1>1 DEF Live, Moves
<1>3. \A q \in Ports : listening'[q] \in Pids => proc'[listening'[q]].st = "up"
  BY <1>1 DEF WaitInv, Held, Moves
<1>4. \A o \in Pids : Live(o)' => proc'[o].port \in Ports
  BY <1>1 DEF WaitInv, Held, Live, Moves
<1>5. pidfile' # 0 => proc'[pidfile'].st \in {"born", "loaded", "ready", "up", "gone"}
  BY <1>1 DEF WaitInv, Held, BootInv, Shape, Moves
<1>6. Waited'
  BY <1>2 DEF WaitInv, Waited, Moves
<1>7. listening' \in [Ports -> Pids \cup {0, Other}]
  BY DEF Moves
<1> QED BY <1>3, <1>4, <1>5, <1>6, <1>7 DEF Held

\* A server ends: its port is free, and who waits has an excuse or another to wait for.
LEMMA EndsHeld ==
  ASSUME WaitInv, NEW p \in Pids, proc' = [proc EXCEPT ![p] = Gone],
         pidfile' \in {pidfile, IF pidfile = p THEN 0 ELSE pidfile},
         listening' = Freed(p) \/ (UNCHANGED listening /\ proc[p].st # "up")
  PROVE  Held'
<1>0. Gone.st = "gone"
  BY DEF Gone, NoProcess
<1>1. proc'[p] = Gone /\ \A o \in Pids \ {p} : proc'[o] = proc[o]
  BY DEF WaitInv, BootInv, Shape
<1>2. listening' \in [Ports -> Pids \cup {0, Other}]
  BY DEF WaitInv, Held, Freed
<1>3. \A q \in Ports : listening'[q] \in Pids => proc'[listening'[q]].st = "up"
  <2>1. \A q \in Ports : listening'[q] \in Pids => listening'[q] = listening[q] /\ listening[q] # p
    BY BootAssumption DEF WaitInv, Held, Freed
  <2> QED BY <1>1, <2>1 DEF WaitInv, Held
<1>4. \A o \in Pids : Live(o)' => proc'[o].port \in Ports
  BY <1>0, <1>1 DEF WaitInv, Held, Live, Booting
<1>5. pidfile' # 0 => proc'[pidfile'].st \in {"born", "loaded", "ready", "up", "gone"}
  BY <1>0, <1>1 DEF WaitInv, Held, BootInv, Shape
<1> QED BY <1>2, <1>3, <1>4, <1>5 DEF Held

LEMMA WaitStep == WaitInv /\ [Next]_vars => Held' /\ Waited'
<1> SUFFICES ASSUME WaitInv, [Next]_vars PROVE Held' /\ Waited'
  OBVIOUS
<1> USE DEF history, files
<1>0. /\ proc \in [Pids -> Process] /\ listening \in [Ports -> Pids \cup {0, Other}]
      /\ call \in [Callers -> Calls] /\ pidfile \in Pids \cup {0}
  BY DEF WaitInv, BootInv, Shape, Held
<1>1. ASSUME UNCHANGED <<proc, listening, pidfile>>,
             \A c \in Callers : call'[c].st = "waits" => call[c].st = "waits" /\ (c \in reason => c \in reason')
      PROVE  Held' /\ Waited'
  BY <1>1 DEF WaitInv, Held, Waited, Live
<1>2. CASE UNCHANGED vars
  BY <1>1, <1>2 DEF vars
<1>3. ASSUME NEW p \in Pids, CheckPid(p) PROVE Held' /\ Waited'
  <2>1. proc[p].st = "born" /\ Live(p) /\ UNCHANGED <<pidfile, listening, call>>
    BY <1>3 DEF CheckPid, Live, Booting
  <2>2. CASE OwnedByAnother(pidfile)
    <3>1. proc' = [proc EXCEPT ![p] = Gone]
      BY <1>3, <2>2 DEF CheckPid
    <3>2. Held'
      BY <2>1, <3>1, EndsHeld
    <3>3. CASE pidfile # p /\ Live(pidfile)
      <4>1. pidfile \in Pids
        BY <1>0, <2>2 DEF OwnedByAnother, PidAlive
      <4>2. Live(pidfile)'
        BY <1>0, <2>1, <3>1, <3>3, <4>1 DEF Live
      <4> QED BY <2>1, <3>2, <4>1, <4>2 DEF Waited
    <3>4. CASE ~(pidfile # p /\ Live(pidfile))
      <4>1. pidfile = p \/ Mistakable(pidfile)
        BY <1>0, <2>2, <3>4 DEF OwnedByAnother, PidAlive, LooksLikeOurs, Recycled, Mistakable, Looks, WaitInv, BootInv, Shape
      <4>2. reason' = Callers
        BY <1>3, <2>2, <4>1 DEF CheckPid, Excused
      <4> QED BY <3>2, <4>2 DEF Waited
    <3> QED BY <3>3, <3>4
  <2>3. CASE ~OwnedByAnother(pidfile)
    <3> DEFINE r == [proc[p] EXCEPT !.st = "checked"]
    <3>1. proc' = [proc EXCEPT ![p] = r] /\ UNCHANGED reason
      BY <1>3, <2>3 DEF CheckPid
    <3>2. r.port = proc[p].port /\ r.st = "checked"
      BY <1>0 DEF Process
    <3>4. pidfile # p
      <4>1. p # 0 /\ worn[p] = "none"
        BY <2>1, BootAssumption DEF WaitInv, BootInv, Shape, Recycled
      <4> QED BY <2>1, <2>3, <4>1 DEF OwnedByAnother, PidAlive, LooksLikeOurs
    <3>3. Moves(p, r)
      BY <1>0, <2>1, <3>1, <3>2, <3>4 DEF Moves, Booting
    <3> QED BY <3>3, HoldsOn
  <2> QED BY <2>2, <2>3
<1>4. ASSUME NEW p \in Pids, TakePid(p) PROVE Held' /\ Waited'
  <2> DEFINE r == [proc[p] EXCEPT !.st = "loaded", !.mem = LoadBoard, !.key = disk.key]
  <2>1. /\ proc[p].st = "checked" /\ Live(p) /\ UNCHANGED <<listening, call, reason>>
        /\ pidfile' = p /\ proc' = [proc EXCEPT ![p] = r]
    BY <1>0, <1>4 DEF TakePid, Live, Booting
  <2>2. r.port = proc[p].port /\ r.st = "loaded"
    BY <1>0 DEF Process
  <2>3. Moves(p, r)
    BY <1>0, <2>1, <2>2 DEF Moves, Booting
  <2> QED BY <2>3, HoldsOn
<1>5. ASSUME NEW p \in Pids, MigrateCharters(p) PROVE Held' /\ Waited'
  <2>1. PICK r \in {[proc[p] EXCEPT !.key = FALSE, !.st = "ready"], [proc[p] EXCEPT !.st = "ready"]} :
          proc' = [proc EXCEPT ![p] = r]
    BY <1>0, <1>5 DEF MigrateCharters
  <2>2. proc[p].st = "loaded" /\ Live(p) /\ UNCHANGED <<pidfile, listening, call, reason>>
    BY <1>5 DEF MigrateCharters, Live, Booting
  <2>3. r.port = proc[p].port /\ r.st = "ready"
    BY <1>0, <2>1 DEF Process
  <2>4. Moves(p, r)
    BY <1>0, <2>1, <2>2, <2>3 DEF Moves, Booting
  <2> QED BY <2>4, HoldsOn
<1>6. ASSUME NEW p \in Pids, Listen(p) PROVE Held' /\ Waited'
  <2> DEFINE q == proc[p].port
  <2>1. proc[p].st = "ready" /\ Live(p) /\ UNCHANGED call
    BY <1>6 DEF Listen, Live, Booting
  <2>2. q \in Ports
    BY <2>1 DEF WaitInv, Held
  <2>3. CASE listening[q] = 0
    <3> DEFINE r == [proc[p] EXCEPT !.st = "up"]
    <3>1. /\ listening' = [listening EXCEPT ![q] = p] /\ proc' = [proc EXCEPT ![p] = r]
          /\ UNCHANGED <<pidfile, reason>>
      BY <1>0, <1>6, <2>3 DEF Listen
    <3>2. r.port = proc[p].port /\ r.st = "up"
      BY <1>0 DEF Process
    <3>3. \A o \in Ports : listening'[o] = listening[o] \/ listening'[o] = p
      BY <1>0, <3>1
    <3>4. listening' \in [Ports -> Pids \cup {0, Other}]
      BY <1>0, <2>2, <3>1
    <3>5. Moves(p, r)
      BY <1>0, <2>1, <3>1, <3>2, <3>3, <3>4 DEF Moves
    <3> QED BY <3>5, HoldsOn
  <2>4. CASE listening[q] # 0
    <3>1. proc' = [proc EXCEPT ![p] = Gone] /\ Cleanup(p) /\ UNCHANGED listening
      BY <1>6, <2>4 DEF Listen
    <3>2. Held'
      BY <2>1, <3>1, EndsHeld DEF Cleanup
    <3>3. CASE listening[q] = Other
      <4>1. Excused
        BY <1>6, <2>4, <3>3 DEF Listen
      <4>2. Waited'
        BY <2>1, <4>1 DEF Excused, Waited
      <4> QED BY <3>2, <4>2
    <3>4. CASE listening[q] # Other
      <4>1. PICK o \in Pids : o = listening[q]
        BY <1>0, <2>2, <2>4, <3>4
      <4>2. proc[o].st = "up"
        BY <2>2, <4>1 DEF WaitInv, Held
      <4>3. proc'[o].st = "up"
        BY <1>0, <2>1, <3>1, <4>2
      <4>4. Live(o)'
        BY <4>3 DEF Live
      <4> QED BY <3>2, <4>4 DEF Waited
    <3> QED BY <3>3, <3>4
  <2> QED BY <2>3, <2>4
<1>7. ASSUME NEW p \in Pids, Change(p) PROVE Held' /\ Waited'
  <2> DEFINE r == [proc[p] EXCEPT !.mem = @ \cup {Cardinality(acked) + 1}]
  <2>1. /\ proc[p].st = "up" /\ Live(p) /\ UNCHANGED <<pidfile, listening, call, reason>>
        /\ proc' = [proc EXCEPT ![p] = r]
    BY <1>0, <1>7 DEF Change, Live
  <2>2. r.port = proc[p].port /\ r.st = "up"
    BY <1>0, <2>1 DEF Process
  <2>3. Moves(p, r)
    BY <1>0, <2>1, <2>2 DEF Moves
  <2> QED BY <2>3, HoldsOn
<1>8. ASSUME NEW p \in Pids, Crash(p) PROVE Held' /\ Waited'
  <2>1. /\ proc' = [proc EXCEPT ![p] = Gone] /\ listening' = Freed(p) /\ Excused
        /\ UNCHANGED <<pidfile, call>>
    BY <1>8 DEF Crash
  <2> QED BY <2>1, EndsHeld DEF Excused, Waited
<1>9. ASSUME NEW c \in Callers, NEW q \in Ports, Stops(c, q) PROVE Held' /\ Waited'
  <2> DEFINE p == StopTarget(q)
  <2>1. p \in Pids /\ call' = [call EXCEPT ![c] = Idle]
    BY <1>9 DEF Stops, Ended
  <2>2. \A d \in Callers : call'[d].st = "waits" => call[d].st = "waits"
    BY <1>0, <2>1 DEF Idle
  <2>3. CASE Live(p)
    <3>1. proc' = [proc EXCEPT ![p] = Gone] /\ Cleanup(p) /\ listening' = Freed(p) /\ Excused
      BY <1>9, <2>3 DEF Stops
    <3> HIDE DEF p
    <3>2. Held'
      BY <2>1, <3>1, EndsHeld DEF Cleanup
    <3> QED BY <2>2, <3>1, <3>2 DEF Excused, Waited
  <2>4. CASE ~Live(p)
    <3>1. UNCHANGED <<proc, pidfile, listening, reason>>
      BY <1>9, <2>4 DEF Stops
    <3> QED BY <1>1, <2>2, <3>1
  <2> QED BY <2>3, <2>4
<1>10. ASSUME NEW c \in Callers, EnsureServer(c) PROVE Held' /\ Waited'
  <2>1. CASE Ended(c) /\ UNCHANGED <<proc, reason>>
    <3>1. UNCHANGED <<proc, listening, pidfile, reason>>
      BY <1>10, <2>1 DEF EnsureServer
    <3>2. \A d \in Callers : call'[d].st = "waits" => call[d].st = "waits"
      BY <1>0, <2>1 DEF Ended, Idle
    <3> QED BY <1>1, <3>1, <3>2
  <2>2. ASSUME NEW p \in Pids, NextPid(p),
               proc' = [proc EXCEPT ![p].st = "born", ![p].port = call[c].port]
        PROVE  Held' /\ Waited'
    <3>1. /\ proc'[p].st = "born" /\ proc'[p].port = call[c].port
          /\ \A o \in Pids \ {p} : proc'[o] = proc[o]
      BY <1>0, <2>2 DEF Process
    <3>2. proc[p].st \in {"none", "gone"} /\ call[c].port \in Ports /\ UNCHANGED <<pidfile, listening>>
      BY <1>0, <1>10, <2>2 DEF NextPid, EnsureServer, Calls, Idle
    <3>3. Live(p)' /\ \E o \in Pids : Live(o)'
      BY <3>1 DEF Live, Booting
    <3>4. \A q \in Ports : listening'[q] \in Pids => proc'[listening'[q]].st = "up"
      BY <3>1, <3>2 DEF WaitInv, Held
    <3>5. \A o \in Pids : Live(o)' => proc'[o].port \in Ports
      BY <3>1, <3>2 DEF WaitInv, Held, Live
    <3>6. pidfile' # 0 => proc'[pidfile'].st \in {"born", "loaded", "ready", "up", "gone"}
      BY <1>0, <3>1, <3>2 DEF WaitInv, Held
    <3> QED BY <1>0, <3>2, <3>3, <3>4, <3>5, <3>6 DEF Held, Waited
  <2> QED BY <1>10, <2>1, <2>2 DEF EnsureServer
<1>11. ASSUME NEW c \in Callers, Answers(c) \/ GivesUp(c) PROVE Held' /\ Waited'
  <2>1. call' = [call EXCEPT ![c] = Idle] /\ UNCHANGED <<proc, listening, pidfile, reason>>
    BY <1>11 DEF Answers, GivesUp, Ended
  <2>2. \A d \in Callers : call'[d].st = "waits" => call[d].st = "waits"
    BY <1>0, <2>1 DEF Idle
  <2> QED BY <1>1, <2>1, <2>2
<1>12. ASSUME NEW c \in Callers, NEW q \in Ports, Command(c, q) PROVE Held' /\ Waited'
  <2>1. \A d \in Callers : call'[d].st = "waits" => call[d].st = "waits"
    BY <1>0, <1>12 DEF Command
  <2> QED BY <1>1, <1>12, <2>1 DEF Command
<1>13. ASSUME NEW q \in Ports, PortTaken(q) PROVE Held' /\ Waited'
  <2>1. listening' = [listening EXCEPT ![q] = Other] /\ UNCHANGED <<proc, pidfile, call, reason>>
    BY <1>13 DEF PortTaken
  <2>2. listening' \in [Ports -> Pids \cup {0, Other}]
    BY <1>0, <2>1
  <2>3. \A o \in Ports : listening'[o] \in Pids => listening'[o] = listening[o]
    BY <1>0, <2>1, BootAssumption DEF Other
  <2> QED BY <2>1, <2>2, <2>3 DEF WaitInv, Held, Waited, Live
<1>14. ASSUME EditsCharter \/ HandEdit \/ \E p \in Pids : Recycle(p) PROVE Held' /\ Waited'
  BY <1>1, <1>14 DEF EditsCharter, HandEdit, Recycle
<1> QED BY <1>2, <1>3, <1>4, <1>5, <1>6, <1>7, <1>8, <1>9, <1>10, <1>11, <1>12, <1>13, <1>14 DEF Next

\* "server failed to start" is said only while a server of the workspace is alive, or when
\* one was killed, stopped, kept off its port or mistook a program for a server: a pid file
\* left by a crash keeps no board down by itself, nor one worn by a program that shows it is
\* another (server.js 297-306, bc-axi 294-299).
THEOREM NeverFailsForNothing == Spec => FailsForAReason
<1>1. WaitInv => \A c \in Callers : GivesUp(c) => c \in reason \/ \E p \in Pids : Live(p)
  BY DEF WaitInv, Waited, GivesUp
<1>2. Spec => []WaitInv
  BY WaitInit, WaitStep, BootInit, BootStep, PTL DEF Spec, WaitInv
<1> QED BY <1>1, <1>2, PTL DEF FailsForAReason
=============================================================================

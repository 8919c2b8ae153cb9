---------------------------- MODULE GroundProofs ----------------------------
(***************************************************************************)
(* Theorems about module Ground, for every value of its constants: a card  *)
(* is on the saved board or in the archive whenever the server dies, and a *)
(* worker's record on a slot means that the pool leased it that slot.      *)
(***************************************************************************)
EXTENDS Ground, SequenceTheorems, FiniteSetTheorems, TLAPS

Records == [slot : Slot \cup {None}, released : {FALSE}]
CardStates == [on : BOOLEAN, at : Slot \cup {None}, ended : SUBSET Pr, rec : Records]
Frozens == [card : Card, at : Slot \cup {None}, ended : SUBSET Pr] \cup {Torn}
Pcs == {"idle", "bind", "hooks", "check", "teardown", "return", "commit", "kept", "archive"}
Jobs == [pc : Pcs, path : Slot \cup {None}, mine : BOOLEAN, last : BOOLEAN]
Copies == [gone : BOOLEAN, at : Slot \cup {None}, ended : SUBSET Pr]
Watches == [card : Card \cup {None}, left : SUBSET Pr, merged : SUBSET Pr, closed : SUBSET Pr,
            todo : SUBSET Card, old : [Card -> Copies]]

Shape ==
  /\ board \in [Card -> CardStates] /\ disk \in [Card -> CardStates]
  /\ file \in Seq(Frozens)
  /\ pool \in [Slot -> Card \cup {Free}]
  /\ github \subseteq Pr /\ shut \subseteq Pr
  /\ job \in [Card -> [Kind -> Jobs]]
  /\ watch \in Watches
  /\ writing \in [card : Card \cup {None}, by : {"leave", "merge"}]
  /\ crashes \in Nat /\ restores \in Nat

-----------------------------------------------------------------------------
(* The archive.                                                            *)

\* The lines of the archive no crash can tear: all but the one being appended.
Whole == 1..(IF Quiet THEN Len(file) ELSE Len(file) - 1)
InArchive(c) == \E i \in Whole : file[i].card = c

ArchiveInv ==
  /\ \A c \in Card : ~board[c].on => InArchive(c)
  /\ \A c \in Card : ~disk[c].on => InArchive(c)
  /\ ~Quiet => Len(file) > 0 /\ file[Len(file)].card = writing.card

-----------------------------------------------------------------------------
(* The leases, as long as nothing crashed and no card came back.           *)

Ways == {"leave", "merge"}
OnItsWay(c, k) == job[c][k].pc \in {"hooks", "check", "teardown", "return", "commit", "kept"}

\* Leased to the card, or given back under it by a tick that finished a card gone from the board.
Leased(c, s) == pool[s] = c \/ s \in strays

\* Whoever starts holds its slot and has no record yet.
Starter(c) ==
  /\ job[c]["start"].pc \in {"idle", "bind"}
  /\ job[c]["start"].pc = "bind" =>
       job[c]["start"].path \in Slot /\ Leased(c, job[c]["start"].path) /\ ~HasRec(c)

\* The pool leased the slot of every record, until the slot is returned.
Recorded(c) ==
  /\ \A s \in Slot : Claims(c, s) => Leased(c, s) \/ \E k \in Ways : job[c][k].pc = "commit"
  /\ board[c].on /\ ~HasRec(c) /\ job[c]["merge"].pc # "archive" => board[c].at = None

\* Whoever leaves does so with the slot of its record, or with none, unless the tick finishes
\* a card gone from the board.
Leaver(c, k) ==
  /\ job[c][k].pc # "bind"
  /\ OnItsWay(c, k) /\ job[c][k].mine =>
       /\ HasRec(c) /\ board[c].rec.slot = job[c][k].path
       /\ job[c][k].pc # "commit" => Leased(c, job[c][k].path)
  /\ OnItsWay(c, k) /\ ~job[c][k].mine => job[c][k].path = None \/ (k = "merge" /\ Gone(c))
  /\ job[c][k].pc \in {"teardown", "kept"} => job[c][k].mine
  /\ job[c][k].pc = "kept" => job[c][k].last
  /\ k = "leave" /\ OnItsWay(c, k) /\ job[c][k].last => ~board[c].on
  /\ job[c][k].pc \in {"return", "commit"} => job[c][k].path # None

\* A card that left since the tick began holds no ground but what its departure takes.
Left(c) == Gone(c) =>
  /\ ~board[c].on /\ job[c]["start"].pc = "idle"
  /\ HasRec(c) => OnItsWay(c, "leave") /\ job[c]["leave"].mine /\ job[c]["leave"].last

Grounded(c) == Starter(c) /\ Recorded(c) /\ Left(c) /\ \A k \in Ways : Leaver(c, k)

\* One departure at a time, for a card is taken off its ground by one at a time.
OneLeaves ==
  /\ \A c \in Card : job[c]["merge"].pc # "idle" => watch.card = c /\ watch.left = {}
  /\ \A c \in Card : watch.card = c => (board[c].on \/ Gone(c)) /\ job[c]["leave"].pc = "idle"
  /\ \A c \in watch.todo : c # watch.card /\ (board[c].on \/ Gone(c))
  /\ ~Quiet /\ writing.by = "merge" => job[writing.card]["merge"].pc = "archive"
  /\ ~Quiet /\ writing.by = "leave" =>
       Idle(writing.card) /\ watch.card # writing.card /\ board[writing.card].on

LeaseInv == (\A c \in Card : Grounded(c)) /\ OneLeaves

-----------------------------------------------------------------------------
LEMMA ShapeInit == Init => Shape
<1> SUFFICES ASSUME Init PROVE Shape
  OBVIOUS
<1>1. [on |-> TRUE, at |-> None, ended |-> {}, rec |-> NoRec] \in CardStates
  BY DEF CardStates, NoRec, Records
<1>2. NoJob \in Jobs
  BY DEF NoJob, Jobs, Pcs
<1>3. NoWatch \in Watches
  BY DEF NoWatch, NoCopy, Watches, Copies
<1>4. board \in [Card -> CardStates] /\ disk \in [Card -> CardStates]
  BY <1>1 DEF Init
<1>5. job \in [Card -> [Kind -> Jobs]]
  BY <1>2 DEF Init
<1>6. file \in Seq(Frozens) /\ pool \in [Slot -> Card \cup {Free}]
  BY DEF Init
<1>7. writing \in [card : Card \cup {None}, by : {"leave", "merge"}]
  BY DEF Init, NoWriting
<1> QED BY <1>3, <1>4, <1>5, <1>6, <1>7 DEF Init, Shape

\* A card's entry, or a job, takes another of its shape.
LEMMA CardChanges ==
  ASSUME NEW b \in [Card -> CardStates], NEW c \in Card
  PROVE  /\ \A on \in BOOLEAN : [b EXCEPT ![c].on = on] \in [Card -> CardStates]
         /\ \A at \in Slot \cup {None} : [b EXCEPT ![c].at = at] \in [Card -> CardStates]
         /\ \A m \in SUBSET Pr : [b EXCEPT ![c].ended = m] \in [Card -> CardStates]
         /\ \A rec \in Records : [b EXCEPT ![c].rec = rec] \in [Card -> CardStates]
<1>1. b[c] \in CardStates
  OBVIOUS
<1>2. \A to \in CardStates : [b EXCEPT ![c] = to] \in [Card -> CardStates]
  OBVIOUS
<1>3. \A on \in BOOLEAN : [b[c] EXCEPT !.on = on] \in CardStates
  BY <1>1 DEF CardStates
<1>4. \A at \in Slot \cup {None} : [b[c] EXCEPT !.at = at] \in CardStates
  BY <1>1 DEF CardStates
<1>5. \A m \in SUBSET Pr : [b[c] EXCEPT !.ended = m] \in CardStates
  BY <1>1 DEF CardStates
<1>6. \A rec \in Records : [b[c] EXCEPT !.rec = rec] \in CardStates
  BY <1>1 DEF CardStates
<1> QED BY <1>2, <1>3, <1>4, <1>5, <1>6

LEMMA JobChanges ==
  ASSUME Shape, NEW c \in Card, NEW k \in Kind
  PROVE  /\ \A to \in Jobs : Step(c, k, to) => job' \in [Card -> [Kind -> Jobs]]
         /\ \A pc \in Pcs : Goes(c, k, pc) => job' \in [Card -> [Kind -> Jobs]]
         /\ Over(c, k) => job' \in [Card -> [Kind -> Jobs]]
<1>1. job \in [Card -> [Kind -> Jobs]] /\ job[c] \in [Kind -> Jobs] /\ job[c][k] \in Jobs
  BY DEF Shape
<1>2. \A to \in Jobs : [job[c] EXCEPT ![k] = to] \in [Kind -> Jobs]
  BY <1>1
<1>3. ASSUME NEW to \in Jobs, Step(c, k, to) PROVE job' \in [Card -> [Kind -> Jobs]]
  BY <1>1, <1>2, <1>3 DEF Step
<1>4. ASSUME NEW pc \in Pcs, Goes(c, k, pc)
      PROVE  job' \in [Card -> [Kind -> Jobs]]
  <2>1. [job[c][k] EXCEPT !.pc = pc] \in Jobs
    BY <1>1 DEF Jobs
  <2>2. job' = [job EXCEPT ![c] = [job[c] EXCEPT ![k] = [job[c][k] EXCEPT !.pc = pc]]]
    BY <1>4 DEF Goes
  <2> QED BY <1>1, <1>2, <2>1, <2>2
<1>5. NoJob \in Jobs /\ "archive" \in Pcs
  BY DEF NoJob, Jobs, Pcs
<1> QED BY <1>3, <1>4, <1>5 DEF Over

LEMMA Departing ==
  ASSUME Shape, NEW c \in Card, NEW pc \in {"hooks", "check"}, NEW at \in Slot \cup {None},
         NEW last \in BOOLEAN
  PROVE  /\ Departs(pc, c, at, last) \in Jobs /\ Departs(pc, c, at, last).pc = pc
         /\ Departs(pc, c, at, last).path = PathOf(c, at)
         /\ Departs(pc, c, at, last).mine = HasRec(c) /\ Departs(pc, c, at, last).last = last
BY DEF Shape, CardStates, Records, Departs, PathOf, HasRec, Jobs, Pcs

\* What the tick's copy holds of a card.
LEMMA Copied ==
  ASSUME Shape, NEW c \in Card
  PROVE  /\ Pointer(c) \in Slot \cup {None} /\ Ended(c) \subseteq Pr /\ Gone(c) \in BOOLEAN
         /\ \A by : Frozen(c, by) \in Frozens /\ Frozen(c, by).card = c
<1>1. board[c] \in CardStates /\ watch.old[c] \in Copies
  BY DEF Shape, Watches
<1> QED BY <1>1 DEF CardStates, Copies, Pointer, Ended, Gone, Frozen, Frozens

\* The last line of the archive, torn.
LEMMA TornLine ==
  ASSUME Shape, Len(file) > 0
  PROVE  LET f == Append(Front(file), Torn) IN
         /\ f \in Seq(Frozens) /\ Len(f) = Len(file) /\ f[Len(file)] = Torn
         /\ \A i \in 1..(Len(file) - 1) : f[i] = file[i]
<1> DEFINE n == Len(file)
           h == Front(file)
<1>1. file \in Seq(Frozens) /\ n \in Nat \ {0} /\ Torn \in Frozens
  BY DEF Shape, Frozens
<1>2. h = [i \in 1..(n - 1) |-> file[i]]
  <2>1. h = SubSeq(file, 1, n - 1)
    BY DEF Front
  <2>2. SubSeq(file, 1, n - 1) = [i \in 1..(n - 1) |-> file[i]]
    BY <1>1
  <2> QED BY <2>1, <2>2
<1>3. \A i \in 1..(n - 1) : file[i] \in Frozens
  BY <1>1, ElementOfSeq
<1> HIDE DEF h, n
<1>4. h \in Seq(Frozens) /\ Len(h) = n - 1
  BY <1>1, <1>2, <1>3
<1>5. /\ Append(h, Torn) \in Seq(Frozens) /\ Len(Append(h, Torn)) = n
      /\ Append(h, Torn)[n] = Torn
      /\ \A i \in 1..(n - 1) : Append(h, Torn)[i] = h[i]
  BY <1>1, <1>4
<1> QED BY <1>2, <1>5 DEF h, n

LEMMA ShapeNext == Shape /\ (~Quiet => Len(file) > 0) /\ [Next]_vars => Shape'
<1> SUFFICES ASSUME Shape, ~Quiet => Len(file) > 0, [Next]_vars PROVE Shape'
  OBVIOUS
<1>1. /\ board \in [Card -> CardStates] /\ disk \in [Card -> CardStates]
      /\ file \in Seq(Frozens) /\ pool \in [Slot -> Card \cup {Free}]
      /\ job \in [Card -> [Kind -> Jobs]] /\ watch \in Watches
      /\ writing \in [card : Card \cup {None}, by : {"leave", "merge"}]
      /\ crashes \in Nat /\ restores \in Nat /\ github \subseteq Pr /\ shut \subseteq Pr
  BY DEF Shape
<1>2. /\ NoRec \in Records /\ NoJob \in Jobs /\ NoWatch \in Watches /\ None \in Slot \cup {None}
      /\ NoCopy \in Copies
  BY DEF NoRec, Records, NoJob, Jobs, Pcs, NoWatch, NoCopy, Watches, Copies
<1>3. {"start", "leave", "merge"} = Kind
  BY DEF Kind
<1>4. Looked \in Watches
  BY <1>1, <1>2 DEF Looked, NoWatch, Watches
<1>5. \A c \in Card : board[c] \in CardStates /\ [Kind -> Jobs] # {} /\ job[c] \in [Kind -> Jobs]
  BY <1>1
<1>6. ASSUME NEW c \in Card, Lease(c) PROVE Shape'
  <2> DEFINE to(s) == [pc |-> "bind", path |-> s, mine |-> TRUE, last |-> FALSE]
  <2>1. PICK s \in Slot : pool' = [pool EXCEPT ![s] = c] /\ Step(c, "start", to(s))
    BY <1>6 DEF Lease
  <2>2. to(s) \in Jobs
    BY DEF Jobs, Pcs
  <2> HIDE DEF to
  <2>3. job' \in [Card -> [Kind -> Jobs]]
    BY <1>3, <2>1, <2>2, JobChanges
  <2>4. pool' \in [Slot -> Card \cup {Free}]
    BY <1>1, <2>1
  <2> QED BY <1>6, <2>3, <2>4 DEF Lease, Shape, world
<1>7. ASSUME NEW c \in Card, Bind(c) PROVE Shape'
  <2> DEFINE s == job[c]["start"].path
             rec == [slot |-> s, released |-> FALSE]
  <2>1. s \in Slot \cup {None} /\ rec \in Records
    BY <1>1, <1>3 DEF Jobs, Records
  <2>2. job' \in [Card -> [Kind -> Jobs]]
    BY <1>2, <1>3, <1>7, JobChanges DEF Bind
  <2>3. CASE board[c].on
    <3>1. board' = [[board EXCEPT ![c].at = s] EXCEPT ![c].rec = rec] /\ disk' = board' /\ pool' = pool
      BY <1>7, <2>3 DEF Bind, Saved
    <3> HIDE DEF s, rec
    <3>2. board' \in [Card -> CardStates]
      BY <1>1, <2>1, <3>1, CardChanges
    <3> QED BY <1>7, <2>2, <3>1, <3>2 DEF Bind, Shape, world
  <2>4. CASE ~board[c].on
    <3>1. pool' = [pool EXCEPT ![s] = Free] /\ UNCHANGED <<board, disk>>
      BY <1>7, <2>4 DEF Bind
    <3>2. pool' \in [Slot -> Card \cup {Free}]
      BY <1>1, <3>1
    <3> QED BY <1>7, <2>2, <3>1, <3>2 DEF Bind, Shape, world
  <2> QED BY <2>3, <2>4
<1>8. ASSUME NEW c \in Card, Handoff(c) PROVE Shape'
  <2>1. Step(c, "leave", Departs("check", c, board[c].at, FALSE)) /\ board[c].at \in Slot \cup {None}
    BY <1>5, <1>8 DEF Handoff, CardStates
  <2>2. job' \in [Card -> [Kind -> Jobs]]
    BY <1>3, <2>1, JobChanges, Departing
  <2> QED BY <1>8, <2>2 DEF Handoff, Shape, world
<1>9. ASSUME NEW c \in Card, NEW k \in Kind, Departure(c, k) PROVE Shape'
  <2>1. CASE Hooked(c, k)
    BY <1>9, <2>1, JobChanges DEF Hooked, Shape, Pcs, world
  <2>2. CASE Checks(c, k)
    <3>1. job' \in [Card -> [Kind -> Jobs]]
      BY <2>2, JobChanges DEF Checks, Pcs
    <3> QED BY <2>2, <3>1 DEF Checks, Shape, world
  <2>3. CASE TornDown(c, k)
    BY <1>9, <2>3, JobChanges DEF TornDown, Shape, Pcs, world
  <2>4. CASE Returns(c, k)
    <3>1. job' \in [Card -> [Kind -> Jobs]]
      BY <2>4, JobChanges DEF Returns, Pcs
    <3>2. pool' \in [Slot -> Card \cup {Free}]
      BY <1>1, <2>4 DEF Returns
    <3> QED BY <2>4, <3>1, <3>2 DEF Returns, Shape, world
  <2>5. CASE Commits(c, k)
    <3> DEFINE at == IF board[c].on THEN None ELSE board[c].at
    <3>1. at \in Slot \cup {None}
      BY <1>5 DEF CardStates
    <3> DEFINE rec == IF job[c][k].mine THEN NoRec ELSE board[c].rec
    <3>5. rec \in Records
      BY <1>2, <1>5 DEF CardStates
    <3>2. board' = [[board EXCEPT ![c].at = at] EXCEPT ![c].rec = rec] /\ disk' = board'
      BY <2>5 DEF Commits, Saved, Dropped
    <3> HIDE DEF at, rec
    <3>3. board' \in [Card -> CardStates]
      BY <1>1, <1>2, <3>1, <3>2, <3>5, CardChanges
    <3>4. job' \in [Card -> [Kind -> Jobs]]
      BY <2>5, JobChanges DEF Commits
    <3> QED BY <2>5, <3>2, <3>3, <3>4 DEF Commits, Shape, world
  <2>6. CASE Keeps(c, k)
    <3>1. board' \in [Card -> CardStates] /\ disk' = board'
      BY <1>1, <1>2, <2>6, CardChanges DEF Keeps, Saved
    <3>2. job' \in [Card -> [Kind -> Jobs]]
      BY <2>6, JobChanges DEF Keeps
    <3> QED BY <2>6, <3>1, <3>2 DEF Keeps, Shape, world
  <2> QED BY <1>9, <2>1, <2>2, <2>3, <2>4, <2>5, <2>6 DEF Departure
<1>10. ASSUME NEW c \in Card, ArchiveByHand(c) \/ ArchiveMerged(c) PROVE Shape'
  <2>1. PICK by \in {"leave", "merge"} :
          file' = Append(file, Frozen(c, by)) /\ UNCHANGED <<board, disk>> /\ writing' = [card |-> c, by |-> by]
    BY <1>10 DEF ArchiveByHand, ArchiveMerged, Archives, LineFirst
  <2>2. file' \in Seq(Frozens)
    BY <1>1, <2>1, Copied
  <2> QED BY <1>10, <2>1, <2>2 DEF ArchiveByHand, ArchiveMerged, Shape, world
<1>11. CASE OffBoard
  <2> DEFINE c == writing.card
  <2>1. c \in Card /\ writing.by \in {"leave", "merge"}
    BY <1>1, <1>11 DEF OffBoard, Quiet
  <2> DEFINE rec == IF writing.by = "merge" THEN NoRec ELSE board[c].rec
  <2>2. board' = [[board EXCEPT ![c].on = FALSE] EXCEPT ![c].rec = rec] /\ disk' = board'
    BY <1>11 DEF OffBoard, Saved
  <2>7. rec \in Records /\ board[c].at \in Slot \cup {None} /\ board[c].ended \in SUBSET Pr
    BY <1>2, <1>5, <2>1 DEF CardStates
  <2>8. \/ Step(c, "merge", NoJob) /\ watch' = Looked
        \/ Step(c, "leave", Departs("hooks", c, board[c].at, TRUE)) /\ watch' = CopyStays(c)
    BY <1>11 DEF OffBoard
  <2> HIDE DEF c, rec
  <2>3. board' \in [Card -> CardStates]
    BY <1>1, <2>1, <2>2, <2>7, CardChanges
  <2>4. job' \in [Card -> [Kind -> Jobs]]
    BY <1>2, <1>3, <2>1, <2>7, <2>8, JobChanges, Departing
  <2>5. watch' \in Watches
    <3>1. [gone |-> TRUE, at |-> board[c].at, ended |-> board[c].ended] \in Copies
      BY <2>7 DEF Copies
    <3>2. CopyStays(c) \in Watches
      BY <1>1, <3>1 DEF CopyStays, Watches
    <3> QED BY <1>4, <2>8, <3>2
  <2>6. writing' \in [card : Card \cup {None}, by : {"leave", "merge"}]
    BY <1>11 DEF OffBoard, NoWriting
  <2> QED BY <1>11, <2>2, <2>3, <2>4, <2>5, <2>6 DEF OffBoard, Shape, world
<1>12. ASSUME NEW c \in Card, Restore(c) PROVE Shape'
  <2>1. PICK i \in Lines(c) :
          board' = [[[board EXCEPT ![c].on = TRUE] EXCEPT ![c].at = file[i].at]
                      EXCEPT ![c].ended = file[i].ended]
    BY <1>12 DEF Restore
  <2>2. i \in 1..Len(file) /\ file[i] \in Frozens /\ file[i] # Torn
    <3>1. i \in 1..Len(file) /\ file[i].card = c
      BY <1>1 DEF Lines
    <3>2. file[i] \in Frozens
      BY <1>1, <3>1, ElementOfSeq
    <3>3. Torn.card \notin Card
      BY GroundAssumption DEF Torn, None
    <3> QED BY <3>1, <3>2, <3>3
  <2>3. file[i].at \in Slot \cup {None} /\ file[i].ended \in SUBSET Pr
    BY <2>2 DEF Frozens
  <2>4. board' \in [Card -> CardStates]
    <3> DEFINE b1 == [board EXCEPT ![c].on = TRUE]
               b2 == [b1 EXCEPT ![c].at = file[i].at]
    <3>1. b1 \in [Card -> CardStates]
      BY <1>1, CardChanges
    <3>2. board' = [b2 EXCEPT ![c].ended = file[i].ended]
      BY <2>1
    <3> HIDE DEF b1
    <3>3. b2 \in [Card -> CardStates]
      BY <2>3, <3>1, CardChanges
    <3> HIDE DEF b2
    <3> QED BY <2>3, <3>2, <3>3, CardChanges
  <2>5. disk' = board' /\ restores' \in Nat
    BY <1>1, <1>12 DEF Restore, Saved
  <2> QED BY <1>12, <2>4, <2>5 DEF Restore, Shape, world
<1>13. CASE Ticks
  <2>1. watch' \in Watches
    BY <1>1, <1>13 DEF Ticks, Watches
  <2> QED BY <1>13, <2>1 DEF Ticks, Shape, world
<1>14. ASSUME NEW c \in Card, WatchBegins(c) PROVE Shape'
  <2>1. Open(c) \subseteq Pr
    BY GroundAssumption DEF Open, Pr
  <2>2. watch' \in Watches
    BY <1>1, <1>2, <1>14, <2>1 DEF WatchBegins, Watches, NoWatch
  <2> QED BY <1>14, <2>2 DEF WatchBegins, Shape, world
<1>15. ASSUME NEW p \in Pr, Asks(p) PROVE Shape'
  <2> DEFINE c == watch.card
             found == watch.merged \cup ({p} \cap github)
             closed == watch.closed \cup ({p} \cap shut)
             now == {p} \cap (github \cup shut)
             asked == [watch EXCEPT !.left = @ \ {p}, !.merged = found, !.closed = closed]
  <2>1. p \in watch.left /\ watch.left \subseteq Pr /\ found \subseteq Pr /\ closed \subseteq Pr
        /\ now \subseteq Pr
    BY <1>1, <1>15 DEF Asks, Watches
  <2>2. c \in Card \cup {None}
    BY <1>1 DEF Watches
  <2>3. board' = board \/ board' = [board EXCEPT ![c].ended = @ \cup now]
    BY <1>15 DEF Asks
  <2>4. watch' \in {Looked, asked} \/ watch' = [asked EXCEPT !.old[c].ended = @ \cup now]
    BY <1>15 DEF Asks
  <2>5. job' = job \/ Step(c, "merge", Departs("hooks", c, Pointer(c), TRUE))
    BY <1>15 DEF Asks
  <2>6. disk' = board' \/ disk' = disk
    BY <1>15 DEF Asks, Saved
  <2>7. asked \in Watches
    <3> HIDE DEF found, closed
    <3> QED BY <1>1, <2>1 DEF Watches
  <2> HIDE DEF found, closed, now, asked, c
  <2>8. board' \in [Card -> CardStates]
    <3>1. CASE c \in Card
      <4> DEFINE m == board[c].ended \cup now
      <4>1. m \in SUBSET Pr
        BY <1>5, <2>1, <3>1 DEF CardStates
      <4>2. board' = board \/ board' = [board EXCEPT ![c].ended = m]
        BY <2>3
      <4> HIDE DEF m
      <4>3. [board EXCEPT ![c].ended = m] \in [Card -> CardStates]
        BY <1>1, <3>1, <4>1, CardChanges
      <4> QED BY <1>1, <4>2, <4>3
    <3>2. CASE c \notin Card
      BY <1>1, <2>3, <3>2
    <3> QED BY <3>1, <3>2
  <2>9. watch' \in Watches
    <3>1. CASE c \in Card
      <4>1. asked.old[c] \in Copies
        BY <2>7, <3>1 DEF Watches
      <4>2. [asked.old[c] EXCEPT !.ended = @ \cup now] \in Copies
        BY <2>1, <4>1 DEF Copies
      <4>3. [asked EXCEPT !.old[c].ended = @ \cup now] \in Watches
        BY <2>7, <3>1, <4>2 DEF Watches
      <4> QED BY <1>4, <2>4, <2>7, <4>3
    <3>2. CASE c \notin Card
      <4>1. [asked EXCEPT !.old[c].ended = @ \cup now] = asked
        BY <2>7, <3>2 DEF Watches
      <4> QED BY <1>4, <2>4, <2>7, <4>1
    <3> QED BY <3>1, <3>2
  <2>10. job' \in [Card -> [Kind -> Jobs]]
    <3>1. CASE c \in Card
      BY <1>1, <1>3, <2>5, <3>1, JobChanges, Departing, Copied
    <3>2. CASE c \notin Card
      BY <1>1, <2>5, <3>2 DEF Step
    <3> QED BY <3>1, <3>2
  <2> QED BY <1>1, <1>15, <2>6, <2>8, <2>9, <2>10 DEF Asks, Shape, world
<1>16. ASSUME NEW p \in Pr, Merge(p) \/ Close(p) PROVE Shape'
  BY <1>16 DEF Merge, Close, Shape
<1>17. CASE OtherSaves
  BY <1>17 DEF OtherSaves, Shape, world
<1>18. CASE Crash
  <2>1. file' \in Seq(Frozens)
    BY <1>1, <1>18, TornLine DEF Crash, Cut
  <2>2. job' \in [Card -> [Kind -> Jobs]] /\ watch' \in Watches
    BY <1>2, <1>18 DEF Crash
  <2>3. writing' \in [card : Card \cup {None}, by : {"leave", "merge"}]
    BY <1>18 DEF Crash, NoWriting
  <2>4. crashes' \in Nat
    BY <1>1, <1>18 DEF Crash
  <2> QED BY <1>1, <1>18, <2>1, <2>2, <2>3, <2>4 DEF Crash, Shape, world
<1>19. CASE UNCHANGED vars
  BY <1>19 DEF vars, world, Shape
<1> QED BY <1>6, <1>7, <1>8, <1>9, <1>10, <1>11, <1>12, <1>13, <1>14, <1>15, <1>16, <1>17, <1>18,
           <1>19 DEF Next, Leaving, Watching, Kind

-----------------------------------------------------------------------------
LEMMA ArchiveInit == Init => ArchiveInv
BY DEF Init, ArchiveInv, Quiet, NoWriting

\* No line but the one under way is lost, and nothing leaves the board without its line.
LEMMA ArchiveKept ==
  ASSUME ArchiveInv, \A i \in Whole : i \in Whole' /\ file'[i] = file[i],
         \A c \in Card : ~board'[c].on => ~board[c].on \/ ~disk[c].on \/ InArchive(c)',
         disk' = board' \/ disk' = disk,
         ~Quiet' => Len(file') > 0 /\ file'[Len(file')].card = writing'.card
  PROVE  ArchiveInv'
<1>1. \A c \in Card : InArchive(c) => InArchive(c)'
  BY DEF InArchive
<1> QED BY <1>1 DEF ArchiveInv

LEMMA ArchiveNext == Shape /\ ArchiveInv /\ [Next]_vars => ArchiveInv'
<1> SUFFICES ASSUME Shape, ArchiveInv, [Next]_vars PROVE ArchiveInv'
  OBVIOUS
<1>1. /\ board \in [Card -> CardStates] /\ disk \in [Card -> CardStates]
      /\ file \in Seq(Frozens) /\ Len(file) \in Nat
      /\ ~Quiet => Len(file) > 0 /\ file[Len(file)].card = writing.card
      /\ writing.card \in Card \cup {None} /\ None \notin Card
  BY GroundAssumption DEF Shape, ArchiveInv, None
<1>2. ASSUME UNCHANGED <<file, writing>>, disk' = board' \/ disk' = disk,
             \A c \in Card : ~board'[c].on => ~board[c].on
      PROVE  ArchiveInv'
  BY <1>1, <1>2, ArchiveKept DEF Whole, Quiet
<1>3. CASE UNCHANGED <<file, writing, board, disk>>
  BY <1>2, <1>3
<1>4. ASSUME NEW c \in Card, Lease(c) \/ Handoff(c) PROVE ArchiveInv'
  BY <1>3, <1>4 DEF Lease, Handoff
<1>5. ASSUME NEW c \in Card, Bind(c) PROVE ArchiveInv'
  <2>1. \A d \in Card : board'[d].on = board[d].on
    BY <1>1, <1>5 DEF Bind, CardStates
  <2> QED BY <1>2, <1>5, <2>1 DEF Bind, Saved
<1>6. ASSUME NEW c \in Card, NEW k \in Kind, Departure(c, k) PROVE ArchiveInv'
  <2>1. CASE Hooked(c, k) \/ Checks(c, k) \/ TornDown(c, k) \/ Returns(c, k)
    BY <1>3, <2>1 DEF Hooked, Checks, TornDown, Returns
  <2>2. CASE Commits(c, k) \/ Keeps(c, k)
    <3>1. \A d \in Card : board'[d].on = board[d].on
      BY <1>1, <2>2 DEF Commits, Keeps, CardStates
    <3> QED BY <1>2, <2>2, <3>1 DEF Commits, Keeps, Saved
  <2> QED BY <1>6, <2>1, <2>2 DEF Departure
<1>7. ASSUME NEW c \in Card, ArchiveByHand(c) \/ ArchiveMerged(c) PROVE ArchiveInv'
  <2>1. PICK by \in {"leave", "merge"} :
          /\ Quiet /\ file' = Append(file, Frozen(c, by)) /\ UNCHANGED <<board, disk>>
          /\ writing'.card = c
    BY <1>7 DEF ArchiveByHand, ArchiveMerged, Archives, LineFirst
  <2>2. Frozen(c, by) \in Frozens /\ Frozen(c, by).card = c
    BY Copied
  <2>3. /\ Len(file') = Len(file) + 1 /\ file'[Len(file) + 1] = Frozen(c, by)
        /\ \A i \in 1..Len(file) : file'[i] = file[i]
    BY <1>1, <2>1, <2>2
  <2>4. Whole = 1..Len(file) /\ Whole' = 1..Len(file)
    BY <1>1, <2>1, <2>3 DEF Whole, Quiet
  <2> QED BY <1>1, <2>1, <2>2, <2>3, <2>4, ArchiveKept
<1>8. CASE OffBoard
  <2>6. PICK c \in Card : c = writing.card
    BY <1>1, <1>8 DEF OffBoard, Quiet
  <2>1. /\ ~Quiet /\ Quiet' /\ file' = file /\ disk' = board'
        /\ \A d \in Card : d # c => board'[d] = board[d]
    BY <1>1, <1>8, <2>6 DEF OffBoard, Saved, Quiet, NoWriting
  <2>2. Whole = 1..(Len(file) - 1) /\ Whole' = 1..Len(file) /\ Len(file) \in Whole'
    BY <1>1, <2>1 DEF Whole
  <2>3. InArchive(c)'
    <3>1. file[Len(file)].card = c
      BY <1>1, <2>1, <2>6
    <3> QED BY <2>1, <2>2, <3>1 DEF InArchive
  <2>4. \A d \in Card : d # c => board'[d].on = board[d].on
    BY <1>1, <2>1
  <2>5. \A d \in Card : ~board'[d].on => ~board[d].on \/ InArchive(d)'
    BY <2>3, <2>4
  <2> QED BY <1>1, <2>1, <2>2, <2>5, ArchiveKept
<1>9. ASSUME NEW c \in Card, Restore(c) PROVE ArchiveInv'
  <2>1. \A d \in Card : ~board'[d].on => ~board[d].on
    BY <1>1, <1>9 DEF Restore, CardStates
  <2> QED BY <1>2, <1>9, <2>1 DEF Restore, Saved
<1>10. CASE Ticks \/ OtherSaves \/ \E c \in Card : WatchBegins(c)
  BY <1>2, <1>10 DEF Ticks, OtherSaves, WatchBegins
<1>11. ASSUME NEW p \in Pr, Asks(p) PROVE ArchiveInv'
  <2>1. \A d \in Card : board'[d].on = board[d].on
    BY <1>1, <1>11 DEF Asks, CardStates
  <2> QED BY <1>2, <1>11, <2>1 DEF Asks, Saved
<1>12. ASSUME NEW p \in Pr, Merge(p) \/ Close(p) PROVE ArchiveInv'
  BY <1>3, <1>12 DEF Merge, Close
<1>13. CASE Crash
  <2>1. board' = disk /\ disk' = disk /\ Quiet' /\ file' \in Cut
    BY <1>13 DEF Crash, Quiet, NoWriting
  <2>2. /\ \A i \in Whole : file'[i] = file[i]
        /\ Len(file') = Len(file)
    BY <1>1, <2>1, TornLine DEF Cut, Whole
  <2>3. \A i \in Whole : i \in Whole'
    BY <1>1, <2>1, <2>2 DEF Whole
  <2> QED BY <2>1, <2>2, <2>3, ArchiveKept
<1>14. CASE UNCHANGED vars
  BY <1>3, <1>14 DEF vars
<1> QED BY <1>4, <1>5, <1>6, <1>7, <1>8, <1>9, <1>10, <1>11, <1>12, <1>13, <1>14
        DEF Next, Leaving, Watching, Kind

\* The archive line is written before the board without the card is saved, and a crash tears
\* at most the line being written: whenever the server dies, every card is on the saved board
\* or frozen in the archive (server.js archiveCard).
THEOREM NoCardIsLost == Spec => []CardKept
<1>1. ArchiveInv /\ Shape => CardKept
  <2> SUFFICES ASSUME ArchiveInv, Shape, NEW c \in Card, ~disk[c].on PROVE Lines(c) # {}
    BY DEF CardKept
  <2>1. PICK i \in Whole : file[i].card = c
    BY DEF ArchiveInv, InArchive
  <2>2. i \in DOMAIN file
    BY <2>1 DEF Whole, Shape
  <2> QED BY <2>1, <2>2 DEF Lines
<1>2. Shape /\ ArchiveInv /\ [Next]_vars => (Shape /\ ArchiveInv)'
  BY ShapeNext, ArchiveNext DEF ArchiveInv
<1> QED BY <1>1, <1>2, ShapeInit, ArchiveInit, PTL DEF Spec

-----------------------------------------------------------------------------
(* How the leases are kept.                                                *)

OnlyJob(c, k) == \A d \in Card : \A j \in Kind : d # c \/ j # k => job'[d][j] = job[d][j]

LEMMA Stepped ==
  ASSUME Shape, NEW c \in Card, NEW k \in Kind, NEW to, Step(c, k, to)
  PROVE  OnlyJob(c, k) /\ job'[c][k] = to
BY DEF Shape, Step, OnlyJob

LEMMA Moved ==
  ASSUME Shape, NEW c \in Card, NEW k \in Kind, NEW pc, Goes(c, k, pc)
  PROVE  /\ OnlyJob(c, k) /\ job'[c][k].pc = pc /\ job'[c][k].path = job[c][k].path
         /\ job'[c][k].mine = job[c][k].mine /\ job'[c][k].last = job[c][k].last
BY DEF Shape, Goes, OnlyJob, Jobs

LEMMA Finished ==
  ASSUME Shape, NEW c \in Card, NEW k \in Kind, Over(c, k)
  PROVE  OnlyJob(c, k) /\ job'[c][k].pc \in {"idle", "archive"}
         /\ (k # "merge" => job'[c][k].pc = "idle") /\ (k = "merge" => job'[c][k].pc = "archive")
BY Stepped, Moved DEF Over, NoJob

LEMMA LeaseShapes ==
  ASSUME Shape
  PROVE  /\ \A c \in Card : /\ board[c].at \in Slot \cup {None} /\ board[c].rec.slot \in Slot \cup {None}
                            /\ board[c].rec.released = FALSE
                            /\ \A s \in Slot : Claims(c, s) <=> board[c].rec.slot = s
                            /\ HasRec(c) => Claims(c, board[c].rec.slot) /\ board[c].rec.slot \in Slot
         /\ None \notin Slot /\ None \notin Card /\ Free \notin Card
         /\ Ways = {"leave", "merge"} /\ Kind = {"start", "leave", "merge"}
<1>1. \A c \in Card : board[c] \in CardStates
  BY DEF Shape
<1>2. None \notin Slot /\ None \notin Card /\ Free \notin Card
  BY GroundAssumption DEF None, Free
<1>3. Ways = {"leave", "merge"} /\ Kind = {"start", "leave", "merge"}
  BY DEF Ways, Kind
<1> QED BY <1>1, <1>2, <1>3 DEF CardStates, Records, Claims, HasRec

\* Nothing of a card but its place on the board and what ended.
SameGround(d) ==
  /\ board'[d].on => board[d].on
  /\ board'[d].at = board[d].at /\ board'[d].rec = board[d].rec
  /\ job[d]["merge"].pc # "idle" /\ Gone(d) => Gone(d)'

KeepsLeases(d) == \A s \in Slot : Leased(d, s) => Leased(d, s)'

\* One departure of a card moves, and had not returned its slot.
LEMMA OneMoves ==
  ASSUME Shape, NEW c \in Card, Grounded(c), SameGround(c), KeepsLeases(c),
         NEW k \in Ways, \A j \in Kind : j # k => job'[c][j] = job[c][j],
         job[c][k].pc \notin {"commit", "archive"}, Left(c)', Leaver(c, k)'
  PROVE  Grounded(c)'
<1>1. Ways = {"leave", "merge"} /\ Kind = {"start", "leave", "merge"}
  BY LeaseShapes
<1>2. HasRec(c)' <=> HasRec(c)
  BY DEF SameGround, HasRec
<1>3. \A s \in Slot : Claims(c, s)' <=> Claims(c, s)
  BY DEF SameGround, Claims
<1>4. Starter(c)'
  BY <1>1, <1>2 DEF Grounded, Starter, KeepsLeases
<1>5. Recorded(c)'
  BY <1>1, <1>2, <1>3 DEF Grounded, Recorded, KeepsLeases, SameGround
<1>6. ASSUME NEW j \in Ways, j # k PROVE Leaver(c, j)'
  <2>1. job'[c][j] = job[c][j] /\ (OnItsWay(c, j)' <=> OnItsWay(c, j)) /\ Leaver(c, j)
    BY <1>1, <1>6 DEF OnItsWay, Grounded
  <2>2. HasRec(c) => board[c].rec.slot \in Slot
    BY LeaseShapes
  <2>3. j = "merge" /\ OnItsWay(c, j) /\ Gone(c) => Gone(c)'
    BY DEF SameGround, OnItsWay
  <2> QED BY <1>2, <2>1, <2>2, <2>3 DEF Leaver, SameGround, KeepsLeases
<1> QED BY <1>4, <1>5, <1>6 DEF Grounded

LEMMA Untouched ==
  ASSUME Shape, NEW d \in Card, Grounded(d), SameGround(d), KeepsLeases(d), Gone(d)' => Gone(d),
         \A j \in Kind : job'[d][j] = job[d][j]
  PROVE  Grounded(d)'
<1>1. Ways = {"leave", "merge"} /\ Kind = {"start", "leave", "merge"}
  BY LeaseShapes
<1>2. (HasRec(d)' <=> HasRec(d)) /\ \A s \in Slot : Claims(d, s)' <=> Claims(d, s)
  BY DEF SameGround, HasRec, Claims
<1>3. Starter(d)'
  BY <1>1, <1>2 DEF Grounded, Starter, KeepsLeases
<1>4. Recorded(d)'
  BY <1>1, <1>2 DEF Grounded, Recorded, KeepsLeases, SameGround
<1>5. Left(d)'
  BY <1>1, <1>2 DEF Grounded, Left, SameGround, OnItsWay
<1>6. ASSUME NEW j \in Ways PROVE Leaver(d, j)'
  <2>1. job'[d][j] = job[d][j] /\ (OnItsWay(d, j)' <=> OnItsWay(d, j)) /\ Leaver(d, j)
    BY <1>1, <1>6 DEF OnItsWay, Grounded
  <2>2. HasRec(d) => board[d].rec.slot \in Slot
    BY LeaseShapes
  <2>3. j = "merge" /\ OnItsWay(d, j) /\ Gone(d) => Gone(d)'
    BY DEF SameGround, OnItsWay
  <2> QED BY <1>2, <2>1, <2>2, <2>3 DEF Leaver, SameGround, KeepsLeases
<1> QED BY <1>3, <1>4, <1>5, <1>6 DEF Grounded

LEMMA NoneMoves ==
  ASSUME Shape, LeaseInv, UNCHANGED <<job, pool, strays>>, \A d \in Card : SameGround(d),
         \A d \in Card : Gone(d)' => Gone(d), OneLeaves'
  PROVE  LeaseInv'
<1>1. \A d \in Card : KeepsLeases(d)
  BY DEF KeepsLeases, Leased
<1> QED BY <1>1, Untouched DEF LeaseInv

\* A card begins to leave, or the tick to finish one that left.
LEMMA OneDeparts ==
  ASSUME Shape, LeaseInv, UNCHANGED <<pool, strays>>, \A d \in Card : SameGround(d),
         NEW c \in Card, NEW k \in Ways, \A j \in Ways : job[c][j].pc = "idle",
         NEW pc \in {"hooks", "check"}, NEW at \in Slot \cup {None}, NEW last \in BOOLEAN,
         Step(c, k, Departs(pc, c, at, last)),
         (board[c].on /\ at = board[c].at) \/ (k = "merge" /\ Gone(c)'),
         Left(c)', last /\ k = "leave" => ~board'[c].on,
         \A d \in Card : d # c => (Gone(d)' => Gone(d)), OneLeaves'
  PROVE  LeaseInv'
<1>1. Ways = {"leave", "merge"} /\ Kind = {"start", "leave", "merge"} /\ None \notin Slot
  BY LeaseShapes
<1>2. OnlyJob(c, k) /\ job'[c][k] = Departs(pc, c, at, last)
  BY <1>1, Stepped
<1>3. /\ job'[c][k].pc = pc /\ job'[c][k].path = PathOf(c, at)
      /\ job'[c][k].mine = HasRec(c) /\ job'[c][k].last = last
  BY <1>2, Departing
<1>4. (HasRec(c)' <=> HasRec(c)) /\ board'[c].rec = board[c].rec
  BY DEF SameGround, HasRec
<1>5. \A d \in Card : KeepsLeases(d)
  BY DEF KeepsLeases, Leased
<1>6. HasRec(c) => PathOf(c, at) = board[c].rec.slot /\ Leased(c, board[c].rec.slot)
                   /\ board[c].rec.slot \in Slot
  BY LeaseShapes DEF PathOf, LeaseInv, Grounded, Recorded
<1>7. ~HasRec(c) => PathOf(c, at) = None \/ (k = "merge" /\ Gone(c)')
  BY <1>1 DEF PathOf, LeaseInv, Grounded, Recorded
<1>8. Leaver(c, k)'
  <2>1. HasRec(c) => Leased(c, job[c][k].path)'
    BY <1>3, <1>6 DEF Leased
  <2> QED BY <1>3, <1>4, <1>6, <1>7, <2>1 DEF Leaver, OnItsWay
<1>9. Grounded(c)'
  BY <1>1, <1>2, <1>5, <1>8, OneMoves DEF OnlyJob, LeaseInv
<1>10. \A d \in Card : d # c => Grounded(d)'
  BY <1>2, <1>5, Untouched DEF OnlyJob, LeaseInv
<1> QED BY <1>9, <1>10 DEF LeaseInv

\* A departure on its way disturbs none of the others.
LEMMA AloneStays ==
  ASSUME LeaseInv, Shape, NEW c \in Card, NEW k \in Ways, OnlyJob(c, k), OnItsWay(c, k),
         UNCHANGED <<watch, writing>>, \A d \in Card : board'[d].on = board[d].on
  PROVE  OneLeaves'
<1>1. k \in Kind /\ Ways = {"leave", "merge"} /\ Kind = {"start", "leave", "merge"}
  BY LeaseShapes
<1>2. job[c][k].pc # "idle" /\ job[c][k].pc # "archive"
  BY DEF OnItsWay
<1>3. \A d \in Card : \A j \in Kind : d # c \/ j # k => job'[d][j] = job[d][j]
  BY DEF OnlyJob
<1>4. OneLeaves /\ writing.card \in Card \cup {None} /\ (Quiet' <=> Quiet) /\ (~Quiet => writing.card \in Card)
  BY DEF LeaseInv, Shape, Quiet
<1>5. \A d \in Card : job'[d]["merge"].pc # "idle" => watch.card = d /\ watch.left = {}
  BY <1>1, <1>2, <1>3, <1>4 DEF OneLeaves
<1>6. \A d \in Card : watch.card = d => (board'[d].on \/ Gone(d)) /\ job'[d]["leave"].pc = "idle"
  BY <1>1, <1>2, <1>3, <1>4 DEF OneLeaves
<1>7. ~Quiet /\ writing.by = "merge" => job'[writing.card]["merge"].pc = "archive"
  BY <1>1, <1>2, <1>3, <1>4 DEF OneLeaves
<1>8. ~Quiet /\ writing.by = "leave" =>
        Idle(writing.card)' /\ watch.card # writing.card /\ board'[writing.card].on
  BY <1>1, <1>2, <1>3, <1>4 DEF OneLeaves, Idle
<1>9. (\A d \in Card : Gone(d)' <=> Gone(d)) /\ watch.todo \subseteq Card
  BY DEF Gone, Shape, Watches
<1>10. \A d \in watch.todo : d # watch.card /\ (board'[d].on \/ Gone(d)')
  BY <1>4, <1>9 DEF OneLeaves
<1> QED BY <1>4, <1>5, <1>6, <1>7, <1>8, <1>9, <1>10 DEF OneLeaves

LEMMA LeaseKeeps ==
  ASSUME LeaseInv, Shape, NEW c \in Card, Lease(c)
  PROVE  LeaseInv'
<1> DEFINE to(s) == [pc |-> "bind", path |-> s, mine |-> TRUE, last |-> FALSE]
<1>1. PICK s \in Slot : pool[s] = Free /\ pool' = [pool EXCEPT ![s] = c] /\ Step(c, "start", to(s))
  BY DEF Lease
<1>2. Ways = {"leave", "merge"} /\ Kind = {"start", "leave", "merge"} /\ Free \notin Card
  BY LeaseShapes
<1>3. OnlyJob(c, "start") /\ job'[c]["start"] = to(s)
  BY <1>1, <1>2, Stepped
<1>4. pool'[s] = c /\ \A r \in Slot : r # s => pool'[r] = pool[r]
  BY <1>1 DEF Shape
<1>5. /\ board' = board /\ UNCHANGED <<watch, writing, strays>> /\ Quiet /\ ~HasRec(c) /\ Quiet'
      /\ board[c].on /\ job[c]["merge"].pc = "idle"
      /\ \A d \in Card : Gone(d)' <=> Gone(d)
  BY <1>2 DEF Lease, Idle, Quiet, Gone
<1>6. \A d \in Card : \A j \in Ways : job'[d][j] = job[d][j]
  BY <1>2, <1>3 DEF OnlyJob
<1>7. \A d \in Card : KeepsLeases(d) /\ SameGround(d)
  BY <1>1, <1>2, <1>4, <1>5 DEF KeepsLeases, Leased, SameGround
<1>8. \A d \in Card : d # c => Grounded(d)'
  BY <1>2, <1>3, <1>5, <1>7, Untouched DEF OnlyJob, LeaseInv
<1>9. Starter(c)'
  BY <1>1, <1>3, <1>4, <1>5 DEF Starter, Leased, HasRec
<1>10. Grounded(c) /\ ~Gone(c)
  BY <1>5 DEF LeaseInv, Grounded, Left
<1>11. Recorded(c)'
  BY <1>2, <1>5, <1>6, <1>7, <1>10 DEF Grounded, Recorded, Claims, HasRec, KeepsLeases
<1>12. ASSUME NEW j \in Ways PROVE Leaver(c, j)'
  <2>1. OnItsWay(c, j)' <=> OnItsWay(c, j)
    BY <1>6 DEF OnItsWay
  <2> QED BY <1>5, <1>6, <1>10, <2>1 DEF Grounded, Leaver, HasRec
<1>13. Grounded(c)'
  BY <1>5, <1>9, <1>10, <1>11, <1>12 DEF Grounded, Left
<1>14. OneLeaves'
  BY <1>2, <1>5, <1>6 DEF LeaseInv, OneLeaves, Shape, Watches
<1> QED BY <1>8, <1>13, <1>14 DEF LeaseInv

LEMMA BindKeeps ==
  ASSUME LeaseInv, Shape, NEW c \in Card, Bind(c)
  PROVE  LeaseInv'
<1> DEFINE s == job[c]["start"].path
<1>1. Ways = {"leave", "merge"} /\ Kind = {"start", "leave", "merge"} /\ None \notin Slot
  BY LeaseShapes
<1>2. /\ s \in Slot /\ Leased(c, s) /\ ~HasRec(c) /\ ~Gone(c) /\ Grounded(c)
  BY DEF Bind, LeaseInv, Grounded, Starter, Left
<1>3. /\ Step(c, "start", NoJob) /\ UNCHANGED <<watch, writing, strays>> /\ Quiet /\ Quiet'
      /\ \A d \in Card : Gone(d)' <=> Gone(d)
  BY DEF Bind, Quiet, Gone
<1>4. OnlyJob(c, "start") /\ job'[c]["start"].pc = "idle"
  BY <1>1, <1>3, Stepped DEF NoJob
<1>5. \A d \in Card : \A j \in Ways : job'[d][j] = job[d][j]
  BY <1>1, <1>4 DEF OnlyJob
<1>6. \A j \in Ways : OnItsWay(c, j) => ~job[c][j].mine
  BY <1>2 DEF Grounded, Leaver
<1>7. ASSUME NEW j \in Ways PROVE Leaver(c, j)'
  <2>1. (OnItsWay(c, j)' <=> OnItsWay(c, j)) /\ board'[c].on = board[c].on
    BY <1>5 DEF OnItsWay, Bind, Shape, CardStates
  <2> QED BY <1>2, <1>3, <1>5, <1>6, <2>1 DEF Grounded, Leaver, OnItsWay
<1>8. Starter(c)' /\ Left(c)'
  BY <1>2, <1>3, <1>4 DEF Starter, Left
<1>9. CASE board[c].on
  <2>1. board' = [board EXCEPT ![c].at = s, ![c].rec = [slot |-> s, released |-> FALSE]] /\ pool' = pool
    BY <1>9 DEF Bind
  <2>2. /\ \A d \in Card : d # c => board'[d] = board[d]
        /\ board'[c].rec = [slot |-> s, released |-> FALSE]
        /\ \A d \in Card : board'[d].on = board[d].on
    BY <2>1 DEF Shape, CardStates
  <2>3. \A d \in Card : KeepsLeases(d)
    BY <1>3, <2>1 DEF KeepsLeases, Leased
  <2>4. \A d \in Card : d # c => Grounded(d)'
    BY <1>1, <1>3, <1>4, <2>2, <2>3, Untouched DEF OnlyJob, LeaseInv, SameGround
  <2>5. Recorded(c)'
    BY <1>1, <1>2, <2>2, <2>3 DEF Recorded, Claims, HasRec, KeepsLeases
  <2>6. OneLeaves'
    BY <1>1, <1>3, <1>5, <2>2 DEF LeaseInv, OneLeaves, Shape, Watches
  <2> QED BY <1>7, <1>8, <2>4, <2>5, <2>6 DEF LeaseInv, Grounded
<1>10. CASE ~board[c].on
  <2>1. board' = board /\ pool' = [pool EXCEPT ![s] = Free]
    BY <1>10 DEF Bind
  <2>2. \A r \in Slot : r # s => pool'[r] = pool[r]
    BY <2>1 DEF Shape
  <2>3. \A d \in Card : d # c => KeepsLeases(d)
    BY <1>2, <1>3, <2>2 DEF KeepsLeases, Leased
  <2>4. \A d \in Card : d # c => Grounded(d)'
    BY <1>1, <1>3, <1>4, <2>1, <2>3, Untouched DEF OnlyJob, LeaseInv, SameGround
  <2>5. Recorded(c)'
    BY <1>1, <1>2, <1>10, <2>1 DEF Recorded, Claims, HasRec
  <2>6. OneLeaves'
    BY <1>1, <1>3, <1>5, <2>1 DEF LeaseInv, OneLeaves, Shape, Watches
  <2> QED BY <1>7, <1>8, <2>4, <2>5, <2>6 DEF LeaseInv, Grounded
<1> QED BY <1>9, <1>10

LEMMA DepartureKeeps ==
  ASSUME LeaseInv, Shape, NEW c \in Card, NEW k \in Ways, Departure(c, k)
  PROVE  LeaseInv'
<1> DEFINE s == job[c][k].path
           mine == job[c][k].mine
<1>1. /\ k \in Kind /\ None \notin Slot /\ Free \notin Card
      /\ Ways = {"leave", "merge"} /\ Kind = {"start", "leave", "merge"}
  BY LeaseShapes
<1>2. Grounded(c) /\ Leaver(c, k) /\ mine \in BOOLEAN
  BY <1>1 DEF LeaseInv, Grounded, Shape, Jobs
<1>3. OnItsWay(c, k) /\ UNCHANGED <<watch, writing>> /\ \A d \in Card : Gone(d)' <=> Gone(d)
  BY DEF Departure, Hooked, Checks, TornDown, Returns, Commits, Keeps, OnItsWay, Gone
<1>4. \A j \in Ways : j # k => job[c][j].pc = "idle"
  BY <1>1, <1>3 DEF LeaseInv, OneLeaves, OnItsWay
<1>5. ~mine /\ s # None => k = "merge" /\ Gone(c) /\ ~HasRec(c)
  BY <1>1, <1>2, <1>3, <1>4 DEF Leaver, Grounded, Left, OnItsWay
<1>6. mine => HasRec(c) /\ board[c].rec.slot = s /\ Claims(c, s) /\ s \in Slot
  BY <1>2, <1>3, LeaseShapes DEF Leaver
<1>7. \A r \in Slot : Claims(c, r) => HasRec(c)
  BY <1>1 DEF Claims, HasRec
<1>8. ASSUME UNCHANGED <<board, pool, strays>>, OnlyJob(c, k), job[c][k].pc # "commit",
             Leaver(c, k)', HasRec(c) /\ k = "leave" /\ Gone(c) => (OnItsWay(c, k) /\ job[c][k].mine /\ job[c][k].last)'
      PROVE  LeaseInv'
  <2>1. \A d \in Card : SameGround(d) /\ KeepsLeases(d)
    BY <1>3, <1>8 DEF SameGround, KeepsLeases, Leased
  <2>2. \A d \in Card : d # c => Grounded(d)'
    BY <1>3, <1>8, <2>1, Untouched DEF OnlyJob, LeaseInv
  <2>3. \A j \in Kind : j # k => job'[c][j] = job[c][j]
    BY <1>8 DEF OnlyJob
  <2>4. Left(c)'
    <3>1. HasRec(c)' <=> HasRec(c)
      BY <1>8 DEF HasRec
    <3>2. CASE k = "leave"
      BY <1>1, <1>2, <1>3, <1>8, <2>3, <3>1, <3>2 DEF Grounded, Left
    <3>3. CASE k = "merge"
      BY <1>1, <1>2, <1>3, <1>8, <2>3, <3>1, <3>3 DEF Grounded, Left, OnItsWay
    <3> QED BY <1>1, <3>2, <3>3
  <2>5. Grounded(c)'
    BY <1>2, <1>3, <1>8, <2>1, <2>3, <2>4, OneMoves DEF OnItsWay
  <2>6. OneLeaves'
    BY <1>3, <1>8, AloneStays
  <2> QED BY <2>2, <2>5, <2>6 DEF LeaseInv
<1>9. ASSUME UNCHANGED <<board, pool, strays>>, NEW pc \in {"check", "teardown", "return", "kept"},
             Goes(c, k, pc), job[c][k].pc # "commit", s = None => pc = "check",
             pc \in {"teardown", "kept"} => mine, pc = "kept" => job[c][k].last
      PROVE  LeaseInv'
  <2>1. /\ OnlyJob(c, k) /\ job'[c][k].pc = pc /\ job'[c][k].path = s
        /\ job'[c][k].mine = mine /\ job'[c][k].last = job[c][k].last
    BY <1>1, <1>9, Moved
  <2>2. OnItsWay(c, k)' /\ (HasRec(c)' <=> HasRec(c)) /\ (Leased(c, s)' <=> Leased(c, s))
    BY <1>9, <2>1 DEF OnItsWay, HasRec, Leased
  <2>3. Leaver(c, k)'
    <3> HIDE DEF s, mine
    <3>1. mine => HasRec(c) /\ board[c].rec.slot = s /\ Leased(c, s)
      BY <1>2, <1>3, <1>9 DEF Leaver, s, mine
    <3>2. ~mine => s = None \/ (k = "merge" /\ Gone(c))
      BY <1>2, <1>3 DEF Leaver, s, mine
    <3>3. k = "leave" /\ job[c][k].last => ~board[c].on
      BY <1>2, <1>3 DEF Leaver
    <3>4. Leased(c, job[c][k].path)' <=> Leased(c, s)
      BY <1>9, <2>1 DEF Leased
    <3> QED BY <1>3, <1>9, <2>1, <2>2, <3>1, <3>2, <3>3, <3>4 DEF Leaver
  <2>4. HasRec(c) /\ k = "leave" /\ Gone(c) => mine /\ job[c][k].last
    BY <1>2 DEF Grounded, Left
  <2> QED BY <1>8, <1>9, <2>1, <2>2, <2>3, <2>4
<1>10. ASSUME UNCHANGED <<board, pool, strays>>, Over(c, k), job[c][k].pc # "commit",
              ~(HasRec(c) /\ k = "leave" /\ Gone(c))
       PROVE  LeaseInv'
  <2>1. OnlyJob(c, k) /\ job'[c][k].pc \in {"idle", "archive"}
    BY <1>1, <1>10, Finished
  <2>2. Leaver(c, k)'
    BY <2>1 DEF Leaver, OnItsWay
  <2> QED BY <1>8, <1>10, <2>1, <2>2
<1>11. CASE Hooked(c, k)
  BY <1>9, <1>11 DEF Hooked
<1>12. CASE Checks(c, k)
  <2>1. /\ UNCHANGED <<board, pool, strays>> /\ job[c][k].pc = "check"
        /\ IF s = None \/ Newer(c, k) \/ Holder(c, s) THEN Over(c, k)
           ELSE Goes(c, k, IF mine /\ ~board[c].rec.released THEN "teardown" ELSE "return")
    BY <1>12 DEF Checks
  <2>2. CASE s = None \/ Newer(c, k) \/ Holder(c, s)
    <3>1. ~mine
      BY <1>1, <1>6, <2>2 DEF Newer, Holder
    <3>2. ~(HasRec(c) /\ k = "leave" /\ Gone(c))
      BY <1>2, <3>1 DEF Grounded, Left
    <3> QED BY <1>10, <2>1, <2>2, <3>2
  <2>3. CASE ~(s = None \/ Newer(c, k) \/ Holder(c, s))
    BY <1>9, <2>1, <2>3
  <2> QED BY <2>2, <2>3
<1>13. CASE TornDown(c, k)
  <2>1. mine
    BY <1>2, <1>13 DEF Leaver, TornDown
  <2> QED BY <1>1, <1>6, <1>9, <1>13, <2>1 DEF TornDown
<1>14. CASE Returns(c, k)
  <2>1. /\ job[c][k].pc = "return" /\ s # None /\ board' = board
        /\ \/ /\ pool' = [pool EXCEPT ![s] = Free] /\ Goes(c, k, "commit")
              /\ strays' = IF Stray(c, k, s) THEN strays \cup {s} ELSE strays
           \/ /\ UNCHANGED <<pool, strays>>
              /\ IF job[c][k].last /\ mine THEN Goes(c, k, "kept") ELSE Over(c, k)
    BY <1>2, <1>14 DEF Returns, Leaver
  <2>2. CASE UNCHANGED <<pool, strays>> /\ job[c][k].last /\ mine /\ Goes(c, k, "kept")
    BY <1>9, <2>1, <2>2
  <2>3. CASE UNCHANGED <<pool, strays>> /\ ~(job[c][k].last /\ mine) /\ Over(c, k)
    <3>1. ~(HasRec(c) /\ k = "leave" /\ Gone(c))
      BY <1>2, <2>3 DEF Grounded, Left
    <3> QED BY <1>10, <2>1, <2>3, <3>1
  <2>4. CASE /\ pool' = [pool EXCEPT ![s] = Free] /\ Goes(c, k, "commit")
             /\ strays' = IF Stray(c, k, s) THEN strays \cup {s} ELSE strays
    <3>1. /\ OnlyJob(c, k) /\ job'[c][k].pc = "commit" /\ job'[c][k].path = s
          /\ job'[c][k].mine = mine /\ job'[c][k].last = job[c][k].last
      BY <1>1, <2>4, Moved
    <3>2. (\A r \in Slot : r # s => pool'[r] = pool[r]) /\ strays \subseteq strays'
      BY <2>4 DEF Shape
    <3>3. s \in Slot => pool[s] \in {c, Free} \/ s \in strays'
      <4>1. CASE mine
        BY <1>2, <1>3, <2>1, <3>2, <4>1 DEF Leaver, Leased
      <4>2. CASE ~mine
        BY <1>5, <2>1, <2>4, <4>2 DEF Stray
      <4> QED BY <1>2, <4>1, <4>2
    <3>4. ASSUME NEW d \in Card, d # c PROVE Grounded(d)'
      <4>1. KeepsLeases(d)
        BY <1>1, <3>2, <3>3, <3>4 DEF KeepsLeases, Leased
      <4>2. SameGround(d)
        BY <1>3, <2>1 DEF SameGround
      <4> QED BY <1>3, <3>1, <3>4, <4>1, <4>2, Untouched DEF OnlyJob, LeaseInv
    <3>5. (HasRec(c)' <=> HasRec(c)) /\ (\A r \in Slot : Claims(c, r)' <=> Claims(c, r)) /\ OnItsWay(c, k)'
      BY <2>1, <3>1 DEF HasRec, Claims, OnItsWay
    <3>6. job'[c]["start"] = job[c]["start"] /\ \A j \in Ways : j # k => job'[c][j] = job[c][j]
      BY <1>1, <3>1 DEF OnlyJob
    <3>7. job[c]["start"].pc = "idle"
      <4>1. CASE mine
        BY <1>2, <1>6, <4>1 DEF Grounded, Starter
      <4>2. CASE ~mine
        BY <1>2, <1>5, <2>1, <4>2 DEF Grounded, Left
      <4> QED BY <1>2, <4>1, <4>2
    <3>8. Starter(c)'
      BY <3>6, <3>7 DEF Starter
    <3>9. Recorded(c)'
      <4>1. ASSUME NEW r \in Slot, Claims(c, r)' PROVE \E j \in Ways : job'[c][j].pc = "commit"
        BY <3>1
      <4>2. job'[c]["merge"].pc # "archive" => job[c]["merge"].pc # "archive"
        BY <1>1, <1>4, <2>1
      <4> QED BY <1>2, <2>1, <3>5, <4>1, <4>2 DEF Grounded, Recorded
    <3>10. Left(c)'
      BY <1>1, <1>2, <1>3, <2>1, <3>1, <3>5, <3>6 DEF Grounded, Left, OnItsWay
    <3>11. Leaver(c, k)'
      BY <1>2, <1>3, <1>6, <2>1, <3>1, <3>5 DEF Leaver
    <3>12. \A j \in Ways : j # k => Leaver(c, j)'
      BY <1>4, <3>6 DEF Leaver, OnItsWay
    <3>13. OneLeaves'
      BY <1>3, <2>1, <3>1, AloneStays
    <3> QED BY <3>4, <3>8, <3>9, <3>10, <3>11, <3>12, <3>13 DEF LeaseInv, Grounded
  <2> QED BY <2>1, <2>2, <2>3, <2>4
<1>15. ASSUME UNCHANGED <<pool, strays>>, Over(c, k), ~HasRec(c)',
              \A d \in Card : d # c => board'[d] = board[d],
              \A d \in Card : board'[d].on = board[d].on,
              k = "leave" /\ board[c].on => board'[c].at = None
       PROVE  LeaseInv'
  <2>1. OnlyJob(c, k) /\ job'[c][k].pc \in {"idle", "archive"} /\ (k = "merge" => job'[c][k].pc = "archive")
    BY <1>1, <1>15, Finished
  <2>2. \A d \in Card : KeepsLeases(d)
    BY <1>15 DEF KeepsLeases, Leased
  <2>3. \A d \in Card : d # c => Grounded(d)'
    BY <1>3, <1>15, <2>1, <2>2, Untouched DEF OnlyJob, LeaseInv, SameGround
  <2>4. job'[c]["start"] = job[c]["start"] /\ \A j \in Ways : j # k => job'[c][j] = job[c][j]
    BY <1>1, <2>1 DEF OnlyJob
  <2>5. Starter(c)'
    BY <1>2, <1>15, <2>2, <2>4 DEF Grounded, Starter, KeepsLeases
  <2>6. Recorded(c)'
    BY <1>1, <1>15, <2>1 DEF Recorded, Claims, HasRec
  <2>7. Left(c)'
    BY <1>2, <1>3, <1>15, <2>4 DEF Grounded, Left
  <2>8. \A j \in Ways : Leaver(c, j)'
    BY <1>4, <2>1, <2>4 DEF Leaver, OnItsWay
  <2>9. OneLeaves'
    BY <1>3, <1>15, <2>1, AloneStays
  <2> QED BY <2>3, <2>5, <2>6, <2>7, <2>8, <2>9 DEF LeaseInv, Grounded
<1>16. CASE Commits(c, k)
  <2>1. /\ UNCHANGED <<pool, strays>> /\ Over(c, k) /\ s # None
        /\ board' = [board EXCEPT ![c].at = IF board[c].on THEN None ELSE @, ![c].rec = IF mine THEN NoRec ELSE @]
    BY <1>2, <1>16 DEF Commits, Dropped, Leaver
  <2>2. /\ \A d \in Card : d # c => board'[d] = board[d]
        /\ board'[c].rec = (IF mine THEN NoRec ELSE board[c].rec) /\ (board[c].on => board'[c].at = None)
        /\ \A d \in Card : board'[d].on = board[d].on
    BY <2>1 DEF Shape, CardStates
  <2>3. ~HasRec(c)'
    BY <1>5, <2>1, <2>2 DEF HasRec, NoRec
  <2> QED BY <1>15, <2>1, <2>2, <2>3
<1>17. CASE Keeps(c, k)
  <2>1. /\ UNCHANGED <<pool, strays>> /\ Over(c, k) /\ board' = [board EXCEPT ![c].rec = NoRec]
        /\ job[c][k].pc = "kept"
    BY <1>17 DEF Keeps
  <2>2. /\ \A d \in Card : d # c => board'[d] = board[d]
        /\ board'[c].rec = NoRec /\ \A d \in Card : board'[d].on = board[d].on
    BY <2>1 DEF Shape, CardStates
  <2>3. ~HasRec(c)'
    BY <2>2 DEF HasRec, NoRec
  <2>4. k = "leave" => ~board[c].on
    BY <1>2, <1>3, <2>1 DEF Leaver
  <2> QED BY <1>15, <2>1, <2>2, <2>3, <2>4
<1> QED BY <1>11, <1>12, <1>13, <1>14, <1>16, <1>17 DEF Departure

\* The card whose departure is written leaves the board.
LEMMA OffKeeps == ASSUME Shape, LeaseInv, OffBoard PROVE LeaseInv'
<1>1. Ways = {"leave", "merge"} /\ Kind = {"start", "leave", "merge"} /\ None \notin Card
  BY LeaseShapes
<1>2. OneLeaves /\ writing.by \in {"leave", "merge"} /\ watch \in Watches /\ board \in [Card -> CardStates]
      /\ \A c \in Card : watch.old[c] \in Copies
  BY DEF LeaseInv, Shape, Watches
<1>3. PICK c \in Card : c = writing.card
  BY DEF OffBoard, Quiet, Shape
<1>4. /\ board' = [board EXCEPT ![c].on = FALSE, ![c].rec = IF writing.by = "merge" THEN NoRec ELSE @]
      /\ UNCHANGED <<pool, strays>> /\ ~Quiet /\ Quiet' /\ writing' = NoWriting
  BY <1>3 DEF OffBoard, Quiet, NoWriting
<1>5. /\ \A d \in Card : d # c => board'[d] = board[d]
      /\ ~board'[c].on /\ board'[c].at = board[c].at
      /\ board'[c].rec = (IF writing.by = "merge" THEN NoRec ELSE board[c].rec)
  BY <1>2, <1>4 DEF CardStates
<1>6. \A d \in Card : KeepsLeases(d)
  BY <1>4 DEF KeepsLeases, Leased
<1>7. CASE writing.by = "merge"
  <2>1. Step(c, "merge", NoJob) /\ watch' = Looked
    BY <1>3, <1>7 DEF OffBoard
  <2>2. OnlyJob(c, "merge") /\ job'[c]["merge"].pc = "idle"
    BY <1>1, <2>1, Stepped DEF NoJob
  <2>3. job[c]["merge"].pc = "archive" /\ watch.card = c /\ job[c]["leave"].pc = "idle"
    BY <1>2, <1>3, <1>4, <1>7 DEF OneLeaves
  <2>4. \A d \in Card : job'[d]["merge"].pc = "idle" /\ job'[d]["leave"] = job[d]["leave"]
    BY <1>1, <1>2, <2>2, <2>3 DEF OneLeaves, OnlyJob
  <2>5. /\ watch'.card = None /\ watch'.todo = watch.todo /\ ~Gone(c)'
        /\ \A d \in Card : d # c => (Gone(d)' <=> Gone(d))
    BY <1>2, <2>1, <2>3 DEF Looked, NoWatch, Watches, Gone, NoCopy
  <2>6. \A d \in Card : d # c => Grounded(d)'
    BY <1>5, <1>6, <2>2, <2>5, Untouched DEF OnlyJob, LeaseInv, SameGround
  <2>7. ~HasRec(c)' /\ \A s \in Slot : ~Claims(c, s)'
    BY <1>5, <1>7, LeaseShapes DEF HasRec, Claims, NoRec
  <2>8. Starter(c)'
    BY <1>1, <1>6, <2>2, <2>7 DEF LeaseInv, Grounded, Starter, OnlyJob, KeepsLeases
  <2>9. Recorded(c)' /\ Left(c)' /\ \A j \in Ways : Leaver(c, j)'
    BY <1>1, <1>5, <2>2, <2>3, <2>4, <2>5, <2>7 DEF Recorded, Left, Leaver, OnItsWay
  <2>10. OneLeaves'
    <3>1. \A d \in watch.todo : d # c /\ d \in Card /\ (board[d].on \/ Gone(d))
      BY <1>2, <2>3 DEF OneLeaves, Watches
    <3>2. \A d \in watch'.todo : d # watch'.card /\ (board'[d].on \/ Gone(d)')
      BY <1>1, <1>5, <2>5, <3>1
    <3> QED BY <1>1, <1>4, <2>4, <2>5, <3>2 DEF OneLeaves
  <2> QED BY <2>6, <2>8, <2>9, <2>10 DEF LeaseInv, Grounded
<1>8. CASE writing.by = "leave"
  <2>1. Step(c, "leave", Departs("hooks", c, board[c].at, TRUE)) /\ watch' = CopyStays(c)
    BY <1>3, <1>8 DEF OffBoard
  <2>2. Idle(c) /\ watch.card # c /\ board[c].on
    BY <1>2, <1>3, <1>4, <1>8 DEF OneLeaves
  <2>3. OnlyJob(c, "leave") /\ board[c].at \in Slot \cup {None}
    BY <1>1, <2>1, Stepped, LeaseShapes
  <2>4. /\ watch'.card = watch.card /\ watch'.left = watch.left /\ watch'.todo = watch.todo
        /\ c \in watch.todo => Gone(c)' 
        /\ \A d \in Card : (Gone(d) => Gone(d)') /\ (d # c => (Gone(d)' <=> Gone(d)))
    BY <1>2, <2>1 DEF CopyStays, Watches, Gone
  <2>5. \A d \in Card : SameGround(d)
    BY <1>5, <1>8, <2>2, <2>4 DEF SameGround
  <2>6. \A j \in Ways : job[c][j].pc = "idle"
    BY <1>1, <2>2 DEF Idle
  <2>7. OneLeaves'
    <3>1. \A d \in Card : job'[d]["merge"].pc # "idle" => watch.card = d /\ watch.left = {}
      BY <1>1, <1>2, <2>3 DEF OneLeaves, OnlyJob
    <3>2. \A d \in Card : watch.card = d => (board'[d].on \/ Gone(d)') /\ job'[d]["leave"].pc = "idle"
      BY <1>1, <1>2, <1>5, <2>2, <2>3, <2>4 DEF OneLeaves, OnlyJob
    <3>3. \A d \in watch.todo : d # watch.card /\ (board'[d].on \/ Gone(d)')
      BY <1>2, <1>5, <2>4 DEF OneLeaves, Watches
    <3> QED BY <1>4, <2>4, <3>1, <3>2, <3>3 DEF OneLeaves
  <2>8. Left(c)'
    <3>1. job'[c]["start"].pc = "idle"
      BY <1>1, <2>2, <2>3 DEF OnlyJob, Idle
    <3>2. job'[c]["leave"] = Departs("hooks", c, board[c].at, TRUE)
      BY <1>1, <2>1, Stepped
    <3>5. LET to == Departs("hooks", c, board[c].at, TRUE)
          IN  to.pc = "hooks" /\ to.mine = HasRec(c) /\ to.last
      BY <2>3, Departing
    <3>3. job'[c]["leave"].pc = "hooks" /\ job'[c]["leave"].mine = HasRec(c) /\ job'[c]["leave"].last
      BY <3>2, <3>5
    <3>4. HasRec(c)' <=> HasRec(c)
      BY <1>5, <1>8 DEF HasRec
    <3> QED BY <1>5, <3>1, <3>3, <3>4 DEF Left, OnItsWay
  <2> QED BY <1>1, <1>4, <1>5, <2>1, <2>2, <2>3, <2>4, <2>5, <2>6, <2>7, <2>8, OneDeparts
<1> QED BY <1>2, <1>7, <1>8

LEMMA AsksKeeps == ASSUME Shape, LeaseInv, NEW p \in Pr, Asks(p) PROVE LeaseInv'
<1> DEFINE found == watch.merged \cup ({p} \cap github)
           closed == watch.closed \cup ({p} \cap shut)
           now == {p} \cap (github \cup shut)
           asked == [watch EXCEPT !.left = @ \ {p}, !.merged = found, !.closed = closed]
<1>0. PICK c : c = watch.card
  OBVIOUS
<1>1. Ways = {"leave", "merge"} /\ Kind = {"start", "leave", "merge"} /\ None \notin Card
  BY LeaseShapes
<1>2. OneLeaves /\ c \in Card \cup {None} /\ watch \in Watches /\ watch.todo \subseteq Card
      /\ \A d \in Card : watch.old[d] \in Copies
  BY <1>0 DEF LeaseInv, Shape, Watches
<1>10. \A d \in watch.todo : d \in Card /\ d # c /\ (board[d].on \/ Gone(d))
  BY <1>0, <1>2 DEF OneLeaves
<1>3. Quiet /\ Quiet' /\ p \in watch.left /\ UNCHANGED <<pool, strays, writing>>
  BY DEF Asks, Quiet
<1>4. \A d \in Card : job[d]["merge"].pc = "idle"
  BY <1>2, <1>3 DEF OneLeaves
<1>5. board' = board \/ board' = [board EXCEPT ![c].ended = @ \cup now]
  BY <1>0 DEF Asks
<1>6. \A d \in Card : SameGround(d) /\ board'[d].on = board[d].on /\ board'[d].at = board[d].at
                       /\ (HasRec(d)' <=> HasRec(d))
  <2> SUFFICES ASSUME NEW d \in Card
               PROVE  /\ SameGround(d) /\ board'[d].on = board[d].on /\ board'[d].at = board[d].at
                      /\ (HasRec(d)' <=> HasRec(d))
    OBVIOUS
  <2>1. board \in [Card -> CardStates]
    BY DEF Shape
  <2>2. board'[d].on = board[d].on /\ board'[d].at = board[d].at /\ board'[d].rec = board[d].rec
    <3> HIDE DEF now
    <3> QED BY <1>5, <2>1 DEF CardStates
  <2> QED BY <1>4, <2>2 DEF SameGround, HasRec
<1>7. CASE watch' = Looked /\ job' = job
  <2>1. /\ watch'.card = None /\ watch'.left = {} /\ watch'.todo = watch.todo
        /\ \A d \in Card : (Gone(d)' => Gone(d)) /\ (d # c => (Gone(d)' <=> Gone(d)))
    BY <1>0, <1>2, <1>7 DEF Looked, NoWatch, NoCopy, Watches, Gone
  <2>2. OneLeaves'
    <3>1. \A d \in watch'.todo : d # watch'.card /\ (board'[d].on \/ Gone(d)')
      BY <1>1, <1>6, <1>10, <2>1
    <3> QED BY <1>1, <1>2, <1>3, <1>4, <1>7, <2>1, <3>1 DEF OneLeaves
  <2> QED BY <1>3, <1>6, <1>7, <2>1, <2>2, NoneMoves
<1>8. CASE watch' = asked \/ watch' = [asked EXCEPT !.old[c].ended = @ \cup now]
  <2>1. /\ watch'.card = watch.card /\ watch'.left = watch.left \ {p} /\ watch'.todo = watch.todo
        /\ \A d \in Card : Gone(d)' <=> Gone(d)
    <3> HIDE DEF found, closed, now
    <3>1. /\ asked.card = watch.card /\ asked.left = watch.left \ {p} /\ asked.todo = watch.todo
          /\ asked.old = watch.old /\ watch.old \in [Card -> Copies]
      BY <1>2 DEF Watches
    <3>2. /\ watch'.card = asked.card /\ watch'.left = asked.left /\ watch'.todo = asked.todo
          /\ watch'.old = asked.old \/ watch'.old = [asked.old EXCEPT ![c].ended = @ \cup now]
      BY <1>0, <1>2, <1>8 DEF Watches
    <3>3. \A d \in Card : watch'.old[d].gone = watch.old[d].gone
      BY <3>1, <3>2 DEF Copies
    <3> QED BY <3>1, <3>2, <3>3 DEF Gone
  <2>4. \A d \in watch'.todo : d # watch'.card /\ (board'[d].on \/ Gone(d)')
    BY <1>0, <1>6, <1>10, <2>1
  <2>2. CASE job' = job
    <3>1. OneLeaves'
      BY <1>1, <1>2, <1>3, <1>4, <1>6, <2>1, <2>2, <2>4 DEF OneLeaves
    <3> QED BY <1>3, <1>6, <2>1, <2>2, <3>1, NoneMoves
  <2>3. CASE job' # job
    <3>1. watch.left = {p} /\ Step(c, "merge", Departs("hooks", c, Pointer(c), TRUE))
      BY <1>0, <2>3 DEF Asks
    <3>2. c \in Card
      BY <1>2, <2>3, <3>1 DEF Step, Shape
    <3>3. (board[c].on \/ Gone(c)) /\ job[c]["leave"].pc = "idle"
      BY <1>0, <1>2, <3>2 DEF OneLeaves
    <3>4. OnlyJob(c, "merge") /\ Pointer(c) \in Slot \cup {None}
      BY <1>1, <3>1, <3>2, Stepped, Copied
    <3>5. \A j \in Ways : job[c][j].pc = "idle"
      BY <1>1, <1>4, <3>2, <3>3
    <3>6. /\ \A d \in Card : d # c => job'[d]["merge"].pc = "idle"
          /\ \A d \in Card : job'[d]["leave"] = job[d]["leave"]
      BY <1>1, <1>4, <3>4 DEF OnlyJob
    <3>7. OneLeaves'
      <4>1. watch'.left = {}
        BY <2>1, <3>1
      <4> QED BY <1>0, <1>2, <1>3, <1>6, <2>1, <2>4, <3>6, <4>1 DEF OneLeaves
    <3>8. Left(c)'
      <4>1. job'[c]["start"] = job[c]["start"] /\ job'[c]["leave"] = job[c]["leave"]
        BY <1>1, <3>2, <3>4 DEF OnlyJob
      <4>2. Left(c) /\ (OnItsWay(c, "leave")' <=> OnItsWay(c, "leave"))
        BY <3>2, <4>1 DEF LeaseInv, Grounded, OnItsWay
      <4> QED BY <1>6, <2>1, <3>2, <4>1, <4>2 DEF Left
    <3>9. (board[c].on /\ Pointer(c) = board[c].at) \/ Gone(c)'
      BY <2>1, <3>2, <3>3 DEF Pointer
    <3> QED BY <1>1, <1>3, <1>6, <2>1, <3>1, <3>2, <3>4, <3>5, <3>7, <3>8, <3>9, OneDeparts
  <2> QED BY <2>2, <2>3
<1>9. (watch' = Looked /\ job' = job) \/ watch' = asked \/ watch' = [asked EXCEPT !.old[c].ended = @ \cup now]
  BY <1>0 DEF Asks
<1> QED BY <1>7, <1>8, <1>9

LEMMA LeaseNext ==
  Serial /\ crashes + restores = 0 /\ Shape /\ LeaseInv /\ [Next]_vars
    => LeaseInv' \/ crashes' + restores' # 0
<1> SUFFICES ASSUME Serial, crashes + restores = 0, Shape, LeaseInv, [Next]_vars
             PROVE  LeaseInv' \/ crashes' + restores' # 0
  OBVIOUS
<1>1. Ways = {"leave", "merge"} /\ Kind = {"start", "leave", "merge"} /\ None \notin Card
  BY LeaseShapes
<1>2. OneLeaves /\ writing.card \in Card \cup {None} /\ watch.card \in Card \cup {None}
      /\ writing.by \in {"leave", "merge"} /\ crashes \in Nat /\ restores \in Nat
      /\ watch \in Watches /\ watch.todo \subseteq Card
  BY DEF LeaseInv, Shape, Watches
<1>3. ASSUME UNCHANGED <<board, pool, strays, job>>, OneLeaves', \A d \in Card : Gone(d)' <=> Gone(d)
      PROVE  LeaseInv'
  BY <1>3, NoneMoves DEF SameGround
<1>4. ASSUME NEW c \in Card, Handoff(c) PROVE LeaseInv'
  <2>1. Idle(c) /\ watch.card # c /\ board[c].on /\ Quiet /\ Quiet'
        /\ UNCHANGED <<board, pool, watch, writing, strays>>
        /\ Step(c, "leave", Departs("check", c, board[c].at, FALSE))
    BY <1>4, Serial DEF Handoff, MayLeave, Quiet
  <2>2. OnlyJob(c, "leave") /\ board[c].at \in Slot \cup {None}
    BY <1>1, <2>1, Stepped, LeaseShapes
  <2>3. \A d \in Card : Gone(d)' <=> Gone(d)
    BY <2>1 DEF Gone
  <2>4. OneLeaves'
    BY <1>1, <1>2, <2>1, <2>2, <2>3 DEF OneLeaves, OnlyJob
  <2>5. \A d \in Card : SameGround(d)
    BY <2>1, <2>3 DEF SameGround
  <2>6. \A j \in Ways : job[c][j].pc = "idle"
    BY <1>1, <2>1 DEF Idle
  <2>7. Left(c)'
    <3>1. ~Gone(c)
      BY <2>1 DEF LeaseInv, Grounded, Left
    <3> QED BY <2>3, <3>1 DEF Left
  <2> QED BY <1>1, <2>1, <2>2, <2>3, <2>4, <2>5, <2>6, <2>7, OneDeparts
<1>5. ASSUME NEW c \in Card, ArchiveByHand(c) PROVE LeaseInv'
  <2>1. Idle(c) /\ watch.card # c /\ board[c].on /\ writing' = [card |-> c, by |-> "leave"]
        /\ UNCHANGED <<board, pool, watch, job, strays>>
    BY <1>5, Serial DEF ArchiveByHand, MayLeave, Archives, LineFirst
  <2>2. OneLeaves' /\ \A d \in Card : Gone(d)' <=> Gone(d)
    BY <1>1, <1>2, <2>1 DEF OneLeaves, Idle, Quiet, Gone
  <2> QED BY <1>3, <2>1, <2>2
<1>6. ASSUME NEW c \in Card, ArchiveMerged(c) PROVE LeaseInv'
  <2>1. job[c]["merge"].pc = "archive" /\ writing' = [card |-> c, by |-> "merge"]
        /\ UNCHANGED <<board, pool, watch, job, strays>>
    BY <1>6 DEF ArchiveMerged, Merged, Archives, LineFirst
  <2>2. OneLeaves' /\ \A d \in Card : Gone(d)' <=> Gone(d)
    BY <1>1, <1>2, <2>1 DEF OneLeaves, Idle, Quiet, Gone
  <2> QED BY <1>3, <2>1, <2>2
<1>7. ASSUME NEW c \in Card, Restore(c) PROVE crashes' + restores' # 0
  BY <1>2, <1>7 DEF Restore
<1>8. CASE Crash
  BY <1>2, <1>8 DEF Crash
<1>9. CASE Ticks
  <2>1. /\ watch = NoWatch /\ watch' = [watch EXCEPT !.todo = {c \in Card : board[c].on /\ Open(c) # {}}]
        /\ UNCHANGED <<board, pool, job, strays, writing>>
    BY <1>9 DEF Ticks
  <2>2. /\ watch'.card = None /\ watch.card = None /\ watch'.left = watch.left
        /\ watch'.todo = {c \in Card : board[c].on /\ Open(c) # {}}
        /\ \A d \in Card : Gone(d)' <=> Gone(d)
    BY <2>1 DEF NoWatch, Gone
  <2>3. OneLeaves'
    BY <1>1, <1>2, <2>1, <2>2 DEF OneLeaves, Quiet, Idle
  <2> QED BY <1>3, <2>1, <2>2, <2>3
<1>10. CASE OtherSaves \/ (\E p \in Pr : Merge(p) \/ Close(p)) \/ UNCHANGED vars
  <2>1. UNCHANGED <<board, pool, job, strays, writing, watch>>
    BY <1>10 DEF OtherSaves, Merge, Close, vars
  <2>2. OneLeaves' /\ \A d \in Card : Gone(d)' <=> Gone(d)
    BY <1>2, <2>1 DEF OneLeaves, Gone, Quiet, Idle
  <2> QED BY <1>3, <2>1, <2>2
<1>11. ASSUME NEW c \in Card, WatchBegins(c) PROVE LeaseInv'
  <2>1. /\ watch.card = None /\ job[c]["leave"].pc = "idle" /\ Quiet /\ Quiet' /\ c \in watch.todo
        /\ watch' = [NoWatch EXCEPT !.card = c, !.left = Open(c), !.todo = watch.todo \ {c}, !.old = watch.old]
        /\ UNCHANGED <<board, pool, job, writing, strays>>
    BY <1>11, Serial DEF WatchBegins, Quiet
  <2>2. watch'.card = c /\ watch'.todo = watch.todo \ {c} /\ \A d \in Card : Gone(d)' <=> Gone(d)
    BY <1>2, <2>1 DEF Watches, Gone
  <2>3. \A d \in Card : job[d]["merge"].pc = "idle"
    BY <1>1, <1>2, <2>1 DEF OneLeaves
  <2>4. OneLeaves'
    BY <1>1, <1>2, <2>1, <2>2, <2>3 DEF OneLeaves
  <2> QED BY <1>3, <2>1, <2>2, <2>4
<1> QED BY <1>4, <1>5, <1>6, <1>7, <1>8, <1>9, <1>10, <1>11,
           LeaseKeeps, BindKeeps, DepartureKeeps, OffKeeps, AsksKeeps
        DEF Next, Leaving, Watching, Ways

\* Crashes and restores are counted.
LEMMA OnlyMore == Shape /\ [Next]_vars /\ crashes' + restores' = 0 => crashes + restores = 0
<1> SUFFICES ASSUME Shape, [Next]_vars, crashes' + restores' = 0 PROVE crashes + restores = 0
  OBVIOUS
<1>1. crashes \in Nat /\ restores \in Nat
  BY DEF Shape
<1>2. CASE UNCHANGED <<crashes, restores>>
  BY <1>2
<1>3. CASE Crash
  <2>1. crashes' = crashes + 1 /\ restores' = restores
    BY <1>3 DEF Crash
  <2> QED BY <1>1, <2>1
<1>4. ASSUME NEW c \in Card, Restore(c) PROVE crashes + restores = 0
  <2>1. restores' = restores + 1 /\ crashes' = crashes
    BY <1>4 DEF Restore
  <2> QED BY <1>1, <2>1
<1>5. ASSUME NEW c \in Card, Lease(c) \/ Bind(c) \/ Handoff(c) \/ ArchiveByHand(c) \/ ArchiveMerged(c)
      PROVE  UNCHANGED <<crashes, restores>>
  BY <1>5 DEF Lease, Bind, Handoff, ArchiveByHand, ArchiveMerged
<1>6. ASSUME NEW c \in Card, NEW k \in {"leave", "merge"}, Departure(c, k)
      PROVE  UNCHANGED <<crashes, restores>>
  BY <1>6 DEF Departure, Hooked, Checks, TornDown, Returns, Commits, Keeps
<1>7. CASE Watching \/ OffBoard \/ OtherSaves \/ (\E p \in Pr : Merge(p) \/ Close(p)) \/ UNCHANGED vars
  BY <1>2, <1>7 DEF Watching, Ticks, WatchBegins, Asks, OffBoard, OtherSaves, Merge, Close, vars
<1> QED BY <1>2, <1>3, <1>4, <1>5, <1>6, <1>7 DEF Next, Leaving

LEMMA LeaseInit == Init => LeaseInv
<1> SUFFICES ASSUME Init PROVE LeaseInv
  OBVIOUS
<1>1. \A c \in Card : \A k \in Kind : job[c][k].pc = "idle"
  BY DEF Init, NoJob
<1>2. \A c \in Card : ~HasRec(c) /\ board[c].at = None /\ board[c].rec.slot = None
  BY DEF Init, HasRec, NoRec
<1>3. Ways = {"leave", "merge"} /\ Kind = {"start", "leave", "merge"} /\ None \notin Slot /\ None \notin Card
  BY GroundAssumption DEF Ways, Kind, None
<1>4. \A c \in Card : Starter(c) /\ \A k \in Ways : Leaver(c, k)
  BY <1>1, <1>3 DEF Starter, Leaver, OnItsWay
<1>5. \A c \in Card : Recorded(c)
  BY <1>2, <1>3 DEF Recorded, Claims
<1>6. \A c \in Card : Left(c)
  BY DEF Init, NoWatch, NoCopy, Left, Gone
<1>7. OneLeaves
  BY <1>1, <1>3 DEF Init, OneLeaves, NoWatch, NoWriting, Quiet
<1> QED BY <1>4, <1>5, <1>6, <1>7 DEF LeaseInv, Grounded

\* As long as nobody takes a card off its ground twice at once, nothing crashed and no card
\* came back: where a worker's record stands on a slot and the slot is not just being given
\* back, the pool has leased it to that card, unless a tick of the PR watch gave the slot back
\* for a card that had left the board (server.js releaseWorker, prWatchTick; worktrees.js).
THEOREM RecordsAreLeases == Serial => (Spec => []LeaseIsMine)
<1> SUFFICES ASSUME Serial PROVE Spec => []LeaseIsMine
  OBVIOUS
<1> DEFINE Inv == Shape /\ ArchiveInv /\ (crashes + restores = 0 => LeaseInv)
<1>1. Init => Inv
  BY ShapeInit, ArchiveInit, LeaseInit
<1>2. Inv /\ [Next]_vars => Inv'
  <2> SUFFICES ASSUME Inv, [Next]_vars PROVE Inv'
    OBVIOUS
  <2>1. Shape' /\ ArchiveInv'
    BY ShapeNext, ArchiveNext DEF ArchiveInv
  <2>2. crashes' + restores' = 0 => crashes + restores = 0
    BY OnlyMore
  <2>4. ASSUME crashes' + restores' = 0 PROVE LeaseInv'
    <3>2. crashes + restores = 0
      BY <2>2, <2>4
    <3>3. LeaseInv
      BY <3>2
    <3> QED BY <2>4, <3>2, <3>3, LeaseNext
  <2> QED BY <2>1, <2>4
<1>3. Inv => LeaseIsMine
  <2> SUFFICES ASSUME Inv, NEW c \in Card, NEW s \in Slot, Lost(c, s), crashes + restores = 0,
                      s \notin strays
               PROVE  FALSE
    BY DEF LeaseIsMine, Shape
  <2>1. Recorded(c) /\ Ways \subseteq Kind
    BY LeaseShapes DEF LeaseInv, Grounded
  <2> QED BY <2>1 DEF Lost, Recorded, Leased
<1> QED BY <1>1, <1>2, <1>3, PTL DEF Spec

-----------------------------------------------------------------------------
(* What the watch found.                                                   *)

\* A merge its owner was told of, or is about to be, or lost between two answers.
Told(c, p) ==
  \/ <<c, p>> \in heard
  \/ watch.card = c /\ watch.left # {} /\ p \in watch.merged
  \/ crashes > 0 /\ Cardinality(PrsOf[c]) > 1

\* Whatever place knows of a merge, it is told; a watch asks about each PR of its card once,
\* and only the merge of a card whose watch is over takes it off the board.
ToldInv ==
  /\ \A c \in Card : \A p \in PrsOf[c] :
       p \in board[c].ended \cup disk[c].ended \cup watch.old[c].ended => Told(c, p)
  /\ \A c \in Card : \A p \in PrsOf[c] : \A i \in Lines(c) : p \in file[i].ended => Told(c, p)
  /\ watch.left # {} => /\ watch.card \in Card
                        /\ watch.left \cup watch.merged \subseteq PrsOf[watch.card]
                        /\ watch.left \cap watch.merged = {}
  /\ \A c \in Card : job[c]["merge"].pc # "idle" => watch.card = c /\ watch.left = {}
  /\ ~Quiet /\ writing.by = "merge" => job[writing.card]["merge"].pc = "archive"

LEMMA ToldInit == Init => ToldInv
<1> SUFFICES ASSUME Init PROVE ToldInv
  OBVIOUS
<1>1. \A c \in Card : /\ board[c].ended = {} /\ disk[c].ended = {} /\ job[c]["merge"].pc = "idle"
                      /\ watch.old[c].ended = {}
  BY DEF Init, NoJob, Kind, NoWatch, NoCopy
<1>2. \A c \in Card : Lines(c) = {}
  BY DEF Init, Lines
<1>3. watch.left = {} /\ Quiet
  BY DEF Init, NoWatch, NoWriting, Quiet
<1> QED BY <1>1, <1>2, <1>3 DEF ToldInv

\* What is known is known still or moves from one place to another, what was told stays told,
\* and the watch keeps to its card.
LEMMA ToldStays ==
  ASSUME ToldInv, \A c \in Card : \A p \in PrsOf[c] : Told(c, p) => Told(c, p)',
         \A c \in Card : board'[c].ended \subseteq board[c].ended \cup disk[c].ended,
         disk' = board' \/ disk' = disk,
         \A c \in Card : watch'.old[c].ended \subseteq board[c].ended \cup watch.old[c].ended,
         \A c \in Card : \A i \in Lines(c)' :
           file'[i].ended \subseteq board[c].ended \cup watch.old[c].ended
             \/ (i \in Lines(c) /\ file'[i] = file[i]),
         watch'.left # {} => /\ watch'.card \in Card
                             /\ watch'.left \cup watch'.merged \subseteq PrsOf[watch'.card]
                             /\ watch'.left \cap watch'.merged = {},
         \A c \in Card : job'[c]["merge"].pc # "idle" => watch'.card = c /\ watch'.left = {},
         ~Quiet' /\ writing'.by = "merge" => job'[writing'.card]["merge"].pc = "archive"
  PROVE  ToldInv'
<1>1. ASSUME NEW c \in Card, NEW p \in PrsOf[c],
             p \in board'[c].ended \cup disk'[c].ended \cup watch'.old[c].ended
      PROVE  Told(c, p)'
  BY <1>1 DEF ToldInv
<1>2. ASSUME NEW c \in Card, NEW p \in PrsOf[c], NEW i \in Lines(c)', p \in file'[i].ended
      PROVE  Told(c, p)'
  <2>1. CASE file'[i].ended \subseteq board[c].ended \cup watch.old[c].ended
    BY <1>2, <2>1 DEF ToldInv
  <2>2. CASE i \in Lines(c) /\ file'[i] = file[i]
    BY <1>2, <2>2 DEF ToldInv
  <2> QED BY <2>1, <2>2
<1> QED BY <1>1, <1>2 DEF ToldInv

\* Two PRs of a card, one asked about and one not yet, are two.
LEMMA TwoAreTwo ==
  ASSUME NEW c \in Card, NEW p \in PrsOf[c], NEW q \in PrsOf[c], p # q
  PROVE  Cardinality(PrsOf[c]) > 1
<1>1. IsFiniteSet(PrsOf[c]) /\ {p, q} \subseteq PrsOf[c]
  BY GroundAssumption
<1>2. IsFiniteSet({p}) /\ Cardinality({p}) = 1
  BY FS_Singleton
<1>3. Cardinality({p} \cup {q}) = 2
  BY <1>2, FS_AddElement
<1>4. {p, q} = {p} \cup {q}
  OBVIOUS
<1>5. Cardinality({p, q}) <= Cardinality(PrsOf[c]) /\ Cardinality(PrsOf[c]) \in Nat
  BY <1>1, FS_Subset, FS_CardinalityType
<1> QED BY <1>3, <1>4, <1>5

LEMMA AsksTells == ASSUME Shape, ToldInv, NEW p \in Pr, Asks(p) PROVE ToldInv'
<1> DEFINE found == watch.merged \cup ({p} \cap github)
           closed == watch.closed \cup ({p} \cap shut)
           now == {p} \cap (github \cup shut)
           asked == [watch EXCEPT !.left = @ \ {p}, !.merged = found, !.closed = closed]
<1>1. p \in watch.left /\ Quiet /\ Quiet' /\ UNCHANGED <<file, github, writing, crashes>>
  BY DEF Asks, Quiet, world
<1>2. PICK c \in Card : c = watch.card
  BY <1>1 DEF ToldInv
<1>3. /\ watch.left \cup watch.merged \subseteq PrsOf[c] /\ watch.left \cap watch.merged = {}
      /\ \A d \in Card : job[d]["merge"].pc = "idle"
  BY <1>1, <1>2 DEF ToldInv
<1>4. /\ board' = board \/ board' = [board EXCEPT ![c].ended = @ \cup now]
      /\ disk' = board' \/ disk' = disk
  BY <1>2 DEF Asks, Saved
<1>5. heard \subseteq heard' /\ (p \in shut => <<c, p>> \in heard')
  BY <1>2 DEF Asks
<1>6. watch.left = {p} => \A q \in found : <<c, q>> \in heard'
  BY <1>2 DEF Asks, Signal
<1>7. /\ watch' = Looked \/ watch' = asked \/ watch' = [asked EXCEPT !.old[c].ended = @ \cup now]
      /\ watch' = Looked => watch.left = {p}
      /\ job' = job \/ (watch.left = {p} /\ Step(c, "merge", Departs("hooks", c, Pointer(c), TRUE))
                        /\ watch' # Looked)
  <2> DEFINE done == watch.left = {p}
             finished == done /\ found # {} /\ NoneOpen(c, found \cup now)
  <2>1. /\ watch' = IF done /\ ~finished THEN Looked
                    ELSE IF Gone(c) THEN [asked EXCEPT !.old[c].ended = @ \cup now] ELSE asked
        /\ IF finished THEN Step(c, "merge", Departs("hooks", c, Pointer(c), TRUE)) ELSE job' = job
    BY <1>2 DEF Asks
  <2>2. asked # Looked /\ [asked EXCEPT !.old[c].ended = @ \cup now] # Looked
    <3> HIDE DEF found, closed, now
    <3>1. watch \in Watches /\ None \notin Card
      BY GroundAssumption DEF Shape, None
    <3>2. Looked.card = None
      BY DEF Looked, NoWatch
    <3>3. asked.card = c /\ [asked EXCEPT !.old[c].ended = @ \cup now].card = c
      BY <1>2, <3>1 DEF Watches
    <3> QED BY <3>1, <3>2, <3>3
  <2> HIDE DEF done, found, closed, now, asked
  <2> QED BY <2>1, <2>2 DEF finished, done
<1>8. /\ watch' # Looked => watch'.card = c /\ watch'.left = watch.left \ {p} /\ watch'.merged = found
      /\ watch' = Looked => watch'.left = {}
      /\ \A d \in Card : watch'.old[d].ended \subseteq watch.old[d].ended \cup (IF d = c THEN now ELSE {})
  <2> HIDE DEF found, closed, now
  <2>1. /\ asked.card = watch.card /\ asked.left = watch.left \ {p} /\ asked.merged = found
        /\ asked.old = watch.old /\ watch.old \in [Card -> Copies] /\ watch \in Watches
    BY DEF Shape, Watches
  <2>2. Looked.left = {} /\ \A d \in Card : Looked.old[d].ended \subseteq watch.old[d].ended
    BY <2>1 DEF Looked, NoWatch, NoCopy, Copies
  <2>3. LET w == [asked EXCEPT !.old[c].ended = @ \cup now] IN
        /\ w.card = asked.card /\ w.left = asked.left /\ w.merged = asked.merged
        /\ \A d \in Card : w.old[d].ended \subseteq asked.old[d].ended \cup (IF d = c THEN now ELSE {})
    BY <2>1 DEF Watches, Copies
  <2> HIDE DEF asked
  <2> QED BY <1>2, <1>7, <2>1, <2>2, <2>3
<1>9. \A q \in found \cup now : q \in PrsOf[c] => Told(c, q)'
  <2> SUFFICES ASSUME NEW q \in found \cup now PROVE Told(c, q)'
    OBVIOUS
  <2>1. CASE q \in found /\ watch.left = {p}
    BY <1>6, <2>1 DEF Told
  <2>2. CASE q \in found /\ watch.left # {p}
    <3>1. watch'.card = c /\ watch'.left # {} /\ watch'.merged = found
      BY <1>1, <1>7, <1>8, <2>2
    <3> QED BY <2>2, <3>1 DEF Told
  <2>3. CASE q \notin found
    BY <1>5, <2>3 DEF Told
  <2> QED BY <2>1, <2>2, <2>3
<1>10. ASSUME NEW d \in Card, NEW q \in PrsOf[d], Told(d, q) PROVE Told(d, q)'
  <2>1. CASE watch.card = d /\ q \in watch.merged
    BY <1>2, <1>9, <2>1
  <2> QED BY <1>1, <1>5, <1>10, <2>1 DEF Told
<1>11. \A d \in Card : board'[d].ended \subseteq board[d].ended \cup (IF d = c THEN now ELSE {})
  <2> HIDE DEF now
  <2>1. board \in [Card -> CardStates]
    BY DEF Shape
  <2> QED BY <1>4, <2>1 DEF CardStates
<1>12. ASSUME NEW d \in Card, NEW q \in PrsOf[d],
              q \in board'[d].ended \cup disk'[d].ended \cup watch'.old[d].ended
       PROVE  Told(d, q)'
  <2>1. q \in board[d].ended \cup disk[d].ended \cup watch.old[d].ended \/ (d = c /\ q \in now)
    <3> HIDE DEF now
    <3> QED BY <1>4, <1>8, <1>11, <1>12
  <2> QED BY <1>9, <1>10, <2>1 DEF ToldInv
<1>13. ASSUME NEW d \in Card, NEW q \in PrsOf[d], NEW i \in Lines(d)', q \in file'[i].ended
       PROVE  Told(d, q)'
  BY <1>1, <1>10, <1>13 DEF ToldInv, Lines
<1>14. watch'.left # {} => /\ watch'.card \in Card
                           /\ watch'.left \cup watch'.merged \subseteq PrsOf[watch'.card]
                           /\ watch'.left \cap watch'.merged = {}
  BY <1>1, <1>3, <1>8
<1>15. \A d \in Card : job'[d]["merge"].pc # "idle" => watch'.card = d /\ watch'.left = {}
  <2>1. CASE job' = job
    BY <1>3, <2>1
  <2>2. CASE job' # job
    <3>1. Step(c, "merge", Departs("hooks", c, Pointer(c), TRUE)) /\ watch'.card = c /\ watch'.left = {}
      BY <1>7, <1>8, <2>2
    <3>2. OnlyJob(c, "merge")
      BY <3>1, Stepped DEF Kind
    <3> QED BY <1>3, <3>1, <3>2 DEF OnlyJob, Kind
  <2> QED BY <2>1, <2>2
<1> QED BY <1>1, <1>12, <1>13, <1>14, <1>15 DEF ToldInv

LEMMA ToldNext == Shape /\ (~Quiet => Len(file) > 0) /\ ToldInv /\ [Next]_vars => ToldInv'
<1> SUFFICES ASSUME Shape, ~Quiet => Len(file) > 0, ToldInv, [Next]_vars PROVE ToldInv'
  OBVIOUS
<1>1. /\ board \in [Card -> CardStates] /\ disk \in [Card -> CardStates]
      /\ file \in Seq(Frozens) /\ Len(file) \in Nat
      /\ writing.card \in Card \cup {None} /\ None \notin Card /\ watch.card \in Card \cup {None}
      /\ Kind = {"start", "leave", "merge"} /\ writing.by \in {"leave", "merge"}
  BY GroundAssumption DEF Shape, None, Watches, Kind
<1>2. /\ watch.left # {} => /\ watch.card \in Card
                            /\ watch.left \cup watch.merged \subseteq PrsOf[watch.card]
                            /\ watch.left \cap watch.merged = {}
      /\ \A c \in Card : job[c]["merge"].pc # "idle" => watch.card = c /\ watch.left = {}
      /\ ~Quiet /\ writing.by = "merge" => job[writing.card]["merge"].pc = "archive"
  BY DEF ToldInv
<1>3. ASSUME UNCHANGED <<heard, crashes, file>>, watch'.card = watch.card, watch'.left = watch.left,
             watch'.merged = watch.merged,
             \A c \in Card : watch'.old[c].ended \subseteq board[c].ended \cup watch.old[c].ended,
             \A c \in Card : board'[c].ended \subseteq board[c].ended \cup disk[c].ended,
             disk' = board' \/ disk' = disk,
             \A c \in Card : job'[c]["merge"].pc # "idle" => watch.card = c /\ watch.left = {},
             ~Quiet' /\ writing'.by = "merge" => job'[writing'.card]["merge"].pc = "archive"
      PROVE  ToldInv'
  <2>1. \A c \in Card : \A p \in PrsOf[c] : Told(c, p) => Told(c, p)'
    BY <1>3 DEF Told
  <2>2. \A c \in Card : Lines(c)' = Lines(c)
    BY <1>3 DEF Lines
  <2> QED BY <1>2, <1>3, <2>1, <2>2, ToldStays
<1>4. CASE UNCHANGED <<heard, crashes, file, watch, board, disk, job, writing>>
  BY <1>2, <1>3, <1>4 DEF Quiet
<1>5. ASSUME NEW c \in Card, Lease(c) \/ Handoff(c) PROVE ToldInv'
  <2>1. /\ UNCHANGED <<heard, crashes, file, watch, board, disk, writing>> /\ Quiet
        /\ OnlyJob(c, "start") \/ OnlyJob(c, "leave")
    BY <1>1, <1>5, Stepped DEF Lease, Handoff
  <2>2. \A d \in Card : job'[d]["merge"] = job[d]["merge"]
    BY <1>1, <2>1 DEF OnlyJob
  <2> QED BY <1>2, <1>3, <2>1, <2>2 DEF Quiet
<1>6. ASSUME NEW c \in Card, Bind(c) PROVE ToldInv'
  <2>1. /\ UNCHANGED <<heard, crashes, file, watch, writing>> /\ Quiet /\ OnlyJob(c, "start")
        /\ disk' = board' \/ disk' = disk
        /\ \A d \in Card : board'[d].ended = board[d].ended
    BY <1>1, <1>6, Stepped DEF Bind, Saved, CardStates
  <2>2. \A d \in Card : job'[d]["merge"] = job[d]["merge"]
    BY <1>1, <2>1 DEF OnlyJob
  <2> QED BY <1>2, <1>3, <2>1, <2>2 DEF Quiet
<1>7. ASSUME NEW c \in Card, NEW k \in {"leave", "merge"}, Departure(c, k) PROVE ToldInv'
  <2>1. UNCHANGED <<heard, crashes, file, watch, writing>> /\ (Quiet' <=> Quiet)
        /\ job[c][k].pc \notin {"idle", "archive"}
    BY <1>7 DEF Departure, Hooked, Checks, TornDown, Returns, Commits, Keeps, Quiet
  <2>2. OnlyJob(c, k)
    <3>1. k \in Kind
      BY <1>1
    <3>2. CASE Hooked(c, k) \/ Checks(c, k) \/ TornDown(c, k)
      BY <3>1, <3>2, Moved, Finished DEF Hooked, Checks, TornDown
    <3>3. CASE Returns(c, k) \/ Commits(c, k) \/ Keeps(c, k)
      BY <3>1, <3>3, Moved, Finished DEF Returns, Commits, Keeps
    <3> QED BY <1>7, <3>2, <3>3 DEF Departure
  <2>3. (disk' = board' \/ disk' = disk) /\ \A d \in Card : board'[d].ended = board[d].ended
    <3>1. CASE Commits(c, k) \/ Keeps(c, k)
      BY <1>1, <3>1 DEF Commits, Keeps, Saved, CardStates
    <3>2. CASE ~(Commits(c, k) \/ Keeps(c, k))
      BY <1>7, <3>2 DEF Departure, Hooked, Checks, TornDown, Returns
    <3> QED BY <3>1, <3>2
  <2>4. \A d \in Card : job'[d]["merge"].pc # "idle" => watch.card = d /\ watch.left = {}
    BY <1>1, <1>2, <2>1, <2>2 DEF OnlyJob
  <2>5. ~Quiet /\ writing.by = "merge" => job'[writing.card]["merge"].pc = "archive"
    BY <1>1, <1>2, <2>1, <2>2 DEF OnlyJob, Quiet
  <2> QED BY <1>2, <1>3, <2>1, <2>3, <2>4, <2>5
<1>8. ASSUME NEW c \in Card, ArchiveByHand(c) \/ ArchiveMerged(c) PROVE ToldInv'
  <2>1. /\ UNCHANGED <<board, disk, heard, crashes, watch, job>>
        /\ \E by \in {"leave", "merge"} :
             /\ file' = Append(file, Frozen(c, by)) /\ writing' = [card |-> c, by |-> by]
             /\ by = "merge" => job[c]["merge"].pc = "archive"
    BY <1>8 DEF ArchiveByHand, ArchiveMerged, Archives, LineFirst, Merged
  <2>8. PICK by \in {"leave", "merge"} :
             /\ file' = Append(file, Frozen(c, by)) /\ writing' = [card |-> c, by |-> by]
             /\ by = "merge" => job[c]["merge"].pc = "archive"
    BY <2>1
  <2>2. /\ Frozen(c, by).card = c /\ Frozen(c, by) \in Frozens
        /\ Frozen(c, by).ended \subseteq board[c].ended \cup watch.old[c].ended
    BY Copied DEF Frozen, Ended
  <2>3. /\ Len(file') = Len(file) + 1 /\ file'[Len(file) + 1] = Frozen(c, by)
        /\ \A i \in 1..Len(file) : file'[i] = file[i]
        /\ DOMAIN file' = 1..(Len(file) + 1) /\ DOMAIN file = 1..Len(file)
    BY <1>1, <2>2, <2>8
  <2>4. ASSUME NEW d \in Card, NEW i \in Lines(d)'
        PROVE  file'[i].ended \subseteq board[d].ended \cup watch.old[d].ended
                 \/ (i \in Lines(d) /\ file'[i] = file[i])
    <3>1. i \in 1..Len(file) \/ i = Len(file) + 1
      BY <1>1, <2>3 DEF Lines
    <3> QED BY <2>2, <2>3, <3>1 DEF Lines
  <2>5. \A d \in Card : \A p \in PrsOf[d] : Told(d, p) => Told(d, p)'
    BY <2>1 DEF Told
  <2>6. writing'.by = "merge" => job'[writing'.card]["merge"].pc = "archive"
    BY <2>1, <2>8
  <2>7. /\ watch'.card = watch.card /\ watch'.left = watch.left /\ watch'.merged = watch.merged
        /\ board' = board /\ disk' = disk /\ job' = job /\ watch'.old = watch.old
    BY <2>1
  <2> QED BY <1>2, <2>4, <2>5, <2>6, <2>7, ToldStays
<1>9. CASE OffBoard
  <2>1. PICK c \in Card : c = writing.card
    BY <1>1, <1>9 DEF OffBoard, Quiet
  <2>2. /\ UNCHANGED <<heard, crashes, file>> /\ disk' = board' /\ ~Quiet /\ Quiet'
        /\ \A d \in Card : board'[d].ended = board[d].ended
    BY <1>1, <1>9 DEF OffBoard, Saved, Quiet, NoWriting, CardStates
  <2>5. /\ writing.by = "leave" => Step(c, "leave", Departs("hooks", c, board[c].at, TRUE)) /\ watch' = CopyStays(c)
        /\ writing.by = "merge" => Step(c, "merge", NoJob) /\ watch' = Looked
    BY <2>1, <1>9 DEF OffBoard
  <2>6. watch \in Watches /\ watch.old \in [Card -> Copies]
    BY DEF Shape, Watches
  <2>7. Looked.left = {} /\ \A d \in Card : Looked.old[d].ended \subseteq watch.old[d].ended
    BY <2>6 DEF Looked, NoWatch, NoCopy, Copies
  <2>3. CASE writing.by = "leave"
    <3>1. /\ watch'.card = watch.card /\ watch'.left = watch.left /\ watch'.merged = watch.merged
          /\ \A d \in Card : watch'.old[d].ended \subseteq board[d].ended \cup watch.old[d].ended
      BY <2>3, <2>5, <2>6 DEF CopyStays, Watches, Copies
    <3>2. OnlyJob(c, "leave")
      BY <1>1, <2>3, <2>5, Stepped
    <3>3. \A d \in Card : job'[d]["merge"] = job[d]["merge"]
      BY <1>1, <3>2 DEF OnlyJob
    <3> QED BY <1>2, <1>3, <2>2, <3>1, <3>3
  <2>4. CASE writing.by = "merge"
    <3>1. watch.card = c /\ watch.left = {}
      BY <1>2, <2>1, <2>2, <2>4
    <3>2. OnlyJob(c, "merge") /\ job'[c]["merge"].pc = "idle" /\ watch'.left = {}
      BY <1>1, <2>4, <2>5, <2>7, Stepped DEF NoJob
    <3>3. \A d \in Card : job'[d]["merge"].pc = "idle"
      BY <1>1, <1>2, <3>1, <3>2 DEF OnlyJob
    <3>4. \A d \in Card : \A p \in PrsOf[d] : Told(d, p) => Told(d, p)'
      BY <2>2, <3>1 DEF Told
    <3>5. \A d \in Card : Lines(d)' = Lines(d)
      BY <2>2 DEF Lines
    <3>6. \A d \in Card : watch'.old[d].ended \subseteq watch.old[d].ended
      BY <2>4, <2>5, <2>7
    <3> QED BY <2>2, <3>2, <3>3, <3>4, <3>5, <3>6, ToldStays
  <2> QED BY <1>1, <2>3, <2>4
<1>10. ASSUME NEW c \in Card, Restore(c) PROVE ToldInv'
  <2>1. PICK i \in Lines(c) : board' = [board EXCEPT ![c].on = TRUE, ![c].at = file[i].at,
                                                     ![c].ended = file[i].ended]
    BY <1>10 DEF Restore
  <2>2. UNCHANGED <<heard, crashes, file, watch, job, writing>> /\ disk' = board' /\ Quiet
    BY <1>10 DEF Restore, Saved
  <2>3. \A d \in Card : d # c => board'[d] = board[d]
    BY <1>1, <2>1
  <2>4. board'[c].ended = file[i].ended
    BY <1>1, <2>1 DEF CardStates
  <2>5. \A d \in Card : \A p \in PrsOf[d] : Told(d, p)' <=> Told(d, p)
    BY <2>2 DEF Told
  <2>6. \A d \in Card : Lines(d)' = Lines(d)
    BY <2>2 DEF Lines
  <2>7. ASSUME NEW d \in Card, NEW p \in PrsOf[d],
               p \in board'[d].ended \cup disk'[d].ended \cup watch'.old[d].ended
        PROVE  Told(d, p)
    <3>1. CASE d = c
      BY <2>1, <2>2, <2>4, <2>7, <3>1 DEF ToldInv
    <3>2. CASE d # c
      BY <2>2, <2>3, <2>7, <3>2 DEF ToldInv
    <3> QED BY <3>1, <3>2
  <2>8. \A d \in Card : \A p \in PrsOf[d] : \A j \in Lines(d)' : p \in file'[j].ended => Told(d, p)'
    BY <2>2, <2>5, <2>6 DEF ToldInv
  <2> QED BY <1>2, <2>2, <2>5, <2>7, <2>8 DEF ToldInv, Quiet
<1>11. CASE Ticks
  <2>1. /\ watch'.card = watch.card /\ watch'.left = watch.left /\ watch'.merged = watch.merged
        /\ watch'.old = watch.old
    BY <1>11 DEF Ticks, NoWatch
  <2> QED BY <1>2, <1>3, <1>11, <2>1 DEF Ticks, Quiet
<1>12. ASSUME NEW c \in Card, WatchBegins(c) PROVE ToldInv'
  <2>1. /\ watch.card = None /\ UNCHANGED <<heard, crashes, file, board, disk, job, writing>> /\ Quiet
        /\ watch' = [NoWatch EXCEPT !.card = c, !.left = Open(c), !.todo = watch.todo \ {c}, !.old = watch.old]
    BY <1>12 DEF WatchBegins
  <2>2. watch.left = {} /\ \A d \in Card : job[d]["merge"].pc = "idle"
    BY <1>1, <1>2, <2>1
  <2>3. watch'.left # {} => watch'.card = c /\ watch'.left = Open(c) /\ watch'.merged = {}
    BY <2>1 DEF NoWatch
  <2>4. \A d \in Card : \A p \in PrsOf[d] : Told(d, p) => Told(d, p)'
    BY <2>1, <2>2 DEF Told
  <2>5. \A d \in Card : Lines(d)' = Lines(d)
    BY <2>1 DEF Lines
  <2>6. watch'.old = watch.old
    BY <2>1 DEF NoWatch
  <2> QED BY <2>1, <2>2, <2>3, <2>4, <2>5, <2>6, ToldStays DEF Open, Quiet
<1>13. ASSUME NEW p \in Pr, Merge(p) \/ Close(p) PROVE ToldInv'
  BY <1>4, <1>13 DEF Merge, Close
<1>14. CASE OtherSaves
  BY <1>2, <1>3, <1>14 DEF OtherSaves, Quiet
<1>15. CASE Crash
  <2>1. /\ UNCHANGED heard /\ board' = disk /\ disk' = disk /\ Quiet' /\ watch'.left = {}
        /\ file' \in Cut /\ crashes' > 0 /\ \A d \in Card : watch'.old[d].ended = {}
        /\ \A d \in Card : job'[d]["merge"].pc = "idle"
    BY <1>1, <1>15 DEF Crash, NoWriting, NoWatch, NoCopy, NoJob, Quiet, Shape
  <2>2. ASSUME NEW c \in Card, NEW p \in PrsOf[c], Told(c, p) PROVE Told(c, p)'
    <3>1. CASE <<c, p>> \in heard
      BY <2>1, <3>1 DEF Told
    <3>2. CASE watch.card = c /\ watch.left # {} /\ p \in watch.merged
      <4>1. PICK q \in PrsOf[c] : q # p
        BY <1>2, <3>2
      <4> QED BY <2>1, <4>1, TwoAreTwo DEF Told
    <3>3. CASE crashes > 0 /\ Cardinality(PrsOf[c]) > 1
      BY <2>1, <3>3 DEF Told
    <3> QED BY <2>2, <3>1, <3>2, <3>3 DEF Told
  <2>3. ASSUME NEW c \in Card, NEW i \in Lines(c)' PROVE i \in Lines(c) /\ file'[i] = file[i]
    <3>1. CASE file' = file
      BY <2>3, <3>1 DEF Lines
    <3>2. CASE ~Quiet /\ file' = Append(Front(file), Torn)
      <4>1. /\ file' \in Seq(Frozens) /\ Len(file') = Len(file) /\ Len(file) > 0
            /\ file'[Len(file)] = Torn
            /\ \A j \in 1..(Len(file) - 1) : file'[j] = file[j]
        BY <3>2, TornLine
      <4>2. DOMAIN file' = 1..Len(file) /\ DOMAIN file = 1..Len(file)
        BY <1>1, <4>1
      <4>4. Torn.card \notin Card
        BY <1>1 DEF Torn
      <4>5. i \in 1..Len(file) /\ i # Len(file)
        BY <2>3, <4>1, <4>2, <4>4 DEF Lines
      <4>6. i \in 1..(Len(file) - 1)
        BY <1>1, <4>5
      <4> QED BY <2>3, <4>1, <4>2, <4>5, <4>6 DEF Lines
    <3> QED BY <2>1, <3>1, <3>2 DEF Cut
  <2> QED BY <2>1, <2>2, <2>3, ToldStays
<1>16. CASE UNCHANGED vars
  BY <1>4, <1>16 DEF vars
<1> QED BY <1>5, <1>6, <1>7, <1>8, <1>9, <1>10, <1>11, <1>12, <1>13, <1>14, <1>15, <1>16, AsksTells
        DEF Next, Leaving, Watching

\* A merge the board knows of is one its owner was told of or is about to be, whatever crashes,
\* archives and restores come between; only a crash between the answers about a stack of
\* several PRs can lose it (server.js, the PR watch).
THEOREM MergesAreTold == Spec => []MergeIsTold
<1> DEFINE Inv == Shape /\ ArchiveInv /\ ToldInv
<1>1. Init => Inv
  BY ShapeInit, ArchiveInit, ToldInit
<1>2. Inv /\ [Next]_vars => Inv'
  BY ShapeNext, ArchiveNext, ToldNext DEF ArchiveInv
<1>3. Inv => MergeIsTold
  BY DEF ToldInv, Told, MergeIsTold, Untold
<1> QED BY <1>1, <1>2, <1>3, PTL DEF Spec
=============================================================================

-------------------------------- MODULE Files --------------------------------
(***************************************************************************)
(* Editing an artifact with four hands.  The captain edits on the file     *)
(* screen (src/ui/js/filepane.js) in a text editor (fileedit.js) or on a   *)
(* canvas (draw.js); the host that opens, follows and saves is             *)
(* src/ui/js/detail.js; the one door to the disk is PUT /api/artifact in   *)
(* src/server/server.js, for him and for the other hand alike.             *)
(*                                                                         *)
(* A content is the set of marks in it: the lines of a text, the shapes of *)
(* a drawing.  Its version is its hash, here the content itself.  Who      *)
(* moved a shape both have is left out; who drew and who deleted is not.   *)
(***************************************************************************)
EXTENDS Integers, FiniteSets

CONSTANTS
  Together,    \* whether one behaviour has both files in play
  MaxHis,      \* bound: marks he makes
  MaxOther,    \* bound: writes of the other hand
  MaxAsk,      \* bound: reads in flight
  Trouble,     \* what may happen besides: see TroubleKinds
  MaxTrouble   \* bound: of them all together

TroubleKinds == {"quiet",  \* a write whose notice never reaches the page
  "lose",                  \* a save that never arrives
  "mute",                  \* a save whose answer never arrives
  "leave",                 \* he leaves, or another file takes the screen, while it is saved
  "hot",                   \* he saves by hand with a merge parked
  "reopen",                \* he comes back to a drawing he left unsaved
  "midair",                \* he leaves a drawing with a merge parked
  "ahead",                 \* he goes on typing while what he has is saved
  "overtake"}              \* a file is written while it is saved, read, or offered to him, or saved while it is read

FilesAssumption ==
  /\ {MaxHis, MaxOther, MaxAsk, MaxTrouble} \subseteq Nat
  /\ Trouble \subseteq TroubleKinds
  /\ Together \in BOOLEAN

File  == {"text", "draw"}
Base  == [f \in File |-> IF f = "text" THEN {0} ELSE {1}]
His   == 2..MaxHis + 1
Other == MaxHis + 2..MaxHis + MaxOther + 1
Mark  == 0..MaxHis + MaxOther + 1
None  == {-1}                   \* no content: nothing there
Some(c) == c # None

VARIABLES
  disk,      \* the files
  versions, drafts,   \* detail.js: per uri
  view,      \* the viewer popup (a text), its content
  screen,    \* filepane.js: what is open, and its editor or canvas
  put,       \* the save in flight, and `saving`
  asks,      \* reads in flight: to open, or to follow a write
  news,      \* notices of the other hand's writes, in order
  typed, written,   \* how many marks he made, the other hand wrote
  cut,       \* history: marks somebody took out on purpose
  told,      \* history: the versions a refusal showed him, per file
  wiped,     \* history: marks of the other hand a save of his took off the disk unawares
  troubles   \* history: which happened, each once, and at most MaxTrouble of them
vars == <<disk, versions, drafts, view, screen, put, asks, news, typed, written, cut,
          told, wiped, troubles>>
history == <<cut, told, wiped>>

NoScreen == [f |-> "", buf |-> None, dead |-> {}, saved |-> None, base |-> {},
             parked |-> None, busy |-> FALSE, auto |-> FALSE, theirs |-> None]
NoPut == [f |-> "", text |-> None, ver |-> None, st |-> "", disk |-> None, again |-> FALSE]

Contents == SUBSET Mark \cup {None}
TypeOK ==
  /\ disk \in [File -> SUBSET Mark]
  /\ versions \in [File -> Contents] /\ drafts \in [File -> Contents] /\ view \in Contents
  /\ screen.f \in File \cup {""} /\ {screen.buf, screen.saved, screen.parked, screen.theirs} \subseteq Contents
  /\ put.st \in {"", "sent", "ok", "refused", "failed", "picture"}
  /\ \A a \in asks : a.f \in File /\ a.why \in {"open", "follow"} /\ a.r \in Contents
  /\ news \subseteq [n : 1..MaxOther, f : File, ver : SUBSET Mark]
  /\ typed \in 0..MaxHis /\ written \in 0..MaxOther
  /\ cut \subseteq Mark /\ wiped \subseteq Mark /\ troubles \subseteq Trouble

Init ==
  /\ disk = Base /\ versions = [f \in File |-> None] /\ drafts = [f \in File |-> None]
  /\ view = None /\ screen = NoScreen /\ put = NoPut /\ asks = {} /\ news = {}
  /\ typed = 0 /\ written = 0
  /\ cut = {} /\ told = [f \in File |-> {}] /\ wiped = {} /\ troubles = {}

InPlay(f) == Together \/ \A g \in File \ {f} : versions[g] = None /\ disk[g] = Base[g]
                                               /\ ~(\E a \in asks : a.f = g)

Befalls(kinds) == /\ kinds \subseteq Trouble \ troubles
                  /\ Cardinality(troubles \cup kinds) <= MaxTrouble
                  /\ troubles' = troubles \cup kinds
\* What a step brings on, when the conditions of `kinds` hold in it.
OfThose(kinds) == {k \in DOMAIN kinds : kinds[k]} \ troubles

On(f)  == screen.f = f /\ f # ""
Drawing == screen.f = "draw"
Saving == put.st # ""
Parked == screen.parked # None
Dirty  == screen.f # "" /\ screen.buf # screen.saved     \* fileDirty
\* Has a hand changed the shapes since the last disk state taken? (sceneKey)
Changed(s) == s.buf # s.base \/ s.dead # {}

-----------------------------------------------------------------------------
(* The canvas: an outside write is merged shape by shape                   *)

MergedByDisk(mine, dead, theirs, base, keep) == theirs \ dead     \* (a mutant's)
Merged(mine, dead, theirs, base, keep) ==
  (theirs \ dead) \cup {m \in mine \ theirs : m \notin base \/ m \in keep}

\* apply(): what the canvas holds once `theirs` is in it.
Applied(s, theirs, keep) ==
  [s EXCEPT !.buf = Merged(s.buf, s.dead, theirs, s.base, keep),
            !.base = theirs, !.parked = None]
Keeps(s) == {{}, s.buf}                       \* the shapes he has selected
\* A change of the canvas is kept as a draft and books a save.
Rebooked(s) == IF Changed(s) THEN [s EXCEPT !.auto = TRUE] ELSE s
Redrafted(d, s) == IF Changed(s) THEN [d EXCEPT !["draw"] = s.buf] ELSE d

\* What the canvas becomes when it is handed `theirs`, at once or once his hand is off.
Replaced(s, theirs, keep) ==
  IF s.busy THEN [s EXCEPT !.parked = theirs] ELSE Rebooked(Applied(s, theirs, keep))

Merge ==
  /\ Drawing /\ Parked /\ ~screen.busy
  /\ \E keep \in Keeps(screen) :
       /\ screen' = Rebooked(Applied(screen, screen.parked, keep))
       /\ drafts' = Redrafted(drafts, screen')
  /\ UNCHANGED <<disk, versions, view, put, asks, news, typed, written, history, troubles>>

Gesture ==
  /\ Drawing /\ screen' = [screen EXCEPT !.busy = ~@]
  /\ UNCHANGED <<disk, versions, drafts, view, put, asks, news, typed, written, history, troubles>>

-----------------------------------------------------------------------------
(* His hands                                                               *)

Edited(s) == IF Drawing THEN [s EXCEPT !.auto = TRUE] ELSE s
Types ==
  /\ screen.f # "" /\ typed < MaxHis
  /\ typed' = typed + 1
  /\ screen' = Edited([screen EXCEPT !.buf = @ \cup {typed + 2}])
  /\ drafts' = [drafts EXCEPT ![screen.f] = screen'.buf]
  /\ Befalls(OfThose([ahead |-> On(put.f)]))
  /\ UNCHANGED <<disk, versions, view, put, asks, news, written, history>>

Deletes(m) ==
  /\ screen.f # "" /\ m \in screen.buf \cap Base[screen.f]
  /\ cut' = cut \cup {m}
  /\ screen' = Edited([screen EXCEPT !.buf = @ \ {m},
                                     !.dead = IF Drawing THEN @ \cup {m} ELSE @])
  /\ drafts' = [drafts EXCEPT ![screen.f] = screen'.buf]
  /\ Befalls(OfThose([ahead |-> On(put.f)]))
  /\ UNCHANGED <<disk, versions, view, put, asks, news, typed, written, told, wiped>>

\* Any later render of the canvas reports a change again.
Redraws ==
  /\ Drawing /\ Changed(screen)
  /\ screen' = Rebooked(screen) /\ drafts' = Redrafted(drafts, screen)
  /\ UNCHANGED <<disk, versions, view, put, asks, news, typed, written, history, troubles>>

Sent(f, text, ver, again) ==
  put' = [NoPut EXCEPT !.f = f, !.text = text, !.ver = ver, !.st = "sent", !.again = again]
Saves == Sent(screen.f, screen.buf, versions[screen.f], FALSE)
BeingRead(f) == \E a \in asks : a.f = f

ByHand ==
  /\ screen.f # "" /\ ~Saving /\ Saves
  /\ Befalls(OfThose([hot |-> Parked, overtake |-> BeingRead(screen.f)]))
  /\ UNCHANGED <<disk, versions, drafts, view, screen, asks, news, typed, written, history>>

\* saveDue, when the debounce fires: 'write', or 'nothing', or else it comes back.
Due == Dirty /\ ~Saving /\ ~Parked
SettledAnyway == TRUE                                         \* (a mutant's)
Settled == Due \/ ~Dirty
BySelf ==
  /\ Drawing /\ screen.auto /\ Settled
  /\ IF Due THEN Saves /\ Befalls(OfThose([overtake |-> BeingRead("draw")]))
            ELSE UNCHANGED <<put, troubles>>
  /\ screen' = [screen EXCEPT !.auto = FALSE]
  /\ UNCHANGED <<disk, versions, drafts, view, asks, news, typed, written, history>>

Leave ==
  /\ screen.f # "" /\ screen' = NoScreen
  /\ Befalls(OfThose([leave |-> Saving, midair |-> Parked]))
  /\ UNCHANGED <<disk, versions, drafts, view, put, asks, news, typed, written, history>>

-----------------------------------------------------------------------------
(* Opening and following                                                   *)

Ask(why, f) ==
  /\ Cardinality(asks) < MaxAsk
  /\ asks' = asks \cup {[why |-> why, f |-> f, r |-> None, n |-> written]}
Opens(f) ==
  /\ InPlay(f) /\ screen.f = "" /\ view = None /\ ~(\E a \in asks : a.why = "open")
  /\ Ask("open", f)
  /\ UNCHANGED <<disk, versions, drafts, view, screen, put, news, typed, written, history, troubles>>

Reads(a) ==
  /\ a \in asks /\ a.r = None
  /\ asks' = (asks \ {a}) \cup {[a EXCEPT !.r = disk[a.f]]}
  /\ UNCHANGED <<disk, versions, drafts, view, screen, put, news, typed, written, history, troubles>>

\* openFile: the draft, when there is one, over what is on disk; what is mounted is
\* also the canvas's idea of the last disk state.
Mounted(f, content) ==
  LET c == IF Some(drafts[f]) THEN drafts[f] ELSE content
  IN [NoScreen EXCEPT !.f = f, !.buf = c, !.saved = content, !.base = c]
VersionsReread(a) == [versions EXCEPT ![a.f] = a.r]           \* (a mutant's)
VersionsRead(a) == IF Some(drafts[a.f]) THEN versions ELSE [versions EXCEPT ![a.f] = a.r]

Opened(a) ==
  /\ a \in asks /\ a.why = "open" /\ Some(a.r)
  /\ asks' = asks \ {a}
  /\ versions' = VersionsRead(a)
  /\ IF a.f = "draw"
       THEN /\ screen' = Mounted("draw", a.r) /\ view' = view
            /\ Befalls(OfThose([leave |-> screen.f # "" /\ Saving,
                                reopen |-> Some(drafts["draw"])]))
       ELSE view' = a.r /\ UNCHANGED <<screen, troubles>>
  /\ UNCHANGED <<disk, drafts, put, news, typed, written, history>>

EditsIt ==
  /\ Some(view) /\ screen' = Mounted("text", view) /\ view' = None
  /\ UNCHANGED <<disk, versions, drafts, put, asks, news, typed, written, history, troubles>>
ClosesIt ==
  /\ Some(view) /\ view' = None
  /\ UNCHANGED <<disk, versions, drafts, screen, put, asks, news, typed, written, history, troubles>>

ShownInViewer(f) == f = "text" /\ Some(view)                  \* (a mutant's)
Shown(f) == On(f) \/ (f = "text" /\ Some(view))
\* artifactWritten, up to its read.
Hears(e) ==
  /\ e \in news /\ \A o \in news : e.n <= o.n
  /\ news' = news \ {e}
  /\ IF Shown(e.f) /\ versions[e.f] # e.ver
       THEN Ask("follow", e.f) /\ Befalls(OfThose([overtake |-> put.f = e.f]))
       ELSE UNCHANGED <<asks, troubles>>
  /\ UNCHANGED <<disk, versions, drafts, view, screen, put, typed, written, history>>

\* Taken onto the screen: fileUpdate.
Takes(r, keep) ==
  LET f == screen.f
      s == [screen EXCEPT !.saved = r, !.theirs = None]
  IN /\ versions' = [versions EXCEPT ![f] = r]
     /\ IF f = "draw"
          THEN /\ screen' = Replaced(s, r, keep)
               /\ drafts' = IF screen.busy THEN [drafts EXCEPT ![f] = None]
                            ELSE Redrafted([drafts EXCEPT ![f] = None], screen')
          ELSE screen' = [s EXCEPT !.buf = r] /\ drafts' = [drafts EXCEPT ![f] = None]

Follows(a) == On(a.f) /\ (~Dirty \/ Drawing)
Followed(a) ==
  /\ a \in asks /\ a.why = "follow" /\ Some(a.r)
  /\ asks' = asks \ {a}
  /\ \/ Follows(a) /\ (\E keep \in Keeps(screen) : Takes(a.r, keep)) /\ UNCHANGED view
     \/ /\ On(a.f) /\ ~Follows(a)
        /\ screen' = [screen EXCEPT !.theirs = a.r]
        /\ UNCHANGED <<versions, drafts, view>>
     \/ /\ ~On(a.f) /\ a.f = "text" /\ Some(view) /\ ~Some(drafts["text"])
        /\ view' = a.r /\ versions' = [versions EXCEPT !["text"] = a.r]
        /\ UNCHANGED <<screen, drafts>>
     \/ /\ ~On(a.f) /\ ~(a.f = "text" /\ Some(view) /\ ~Some(drafts["text"]))
        /\ UNCHANGED <<versions, drafts, screen, view>>
  /\ UNCHANGED <<disk, put, news, typed, written, history, troubles>>

ShowsTheirs ==
  /\ Some(screen.theirs) /\ Takes(screen.theirs, {})
  /\ cut' = cut \cup (screen.buf \ screen.theirs)
  /\ UNCHANGED <<disk, view, put, asks, news, typed, written, told, wiped, troubles>>
KeepsMine ==
  /\ Some(screen.theirs) /\ screen' = [screen EXCEPT !.theirs = None]
  /\ UNCHANGED <<disk, versions, drafts, view, put, asks, news, typed, written, history, troubles>>

-----------------------------------------------------------------------------
(* The one door                                                            *)

Writes(f, next, kinds) ==
  /\ InPlay(f) /\ written < MaxOther /\ written' = written + 1
  /\ next # disk[f]
  /\ disk' = [disk EXCEPT ![f] = next]
  /\ LET over == OfThose([overtake |-> put.f = f \/ BeingRead(f)
                                  \/ (On(f) /\ Some(screen.theirs))])
     IN Befalls(kinds \cup over)
  /\ news' = IF "quiet" \in kinds THEN news
             ELSE news \cup {[n |-> written + 1, f |-> f, ver |-> next]}
  /\ UNCHANGED <<versions, drafts, view, screen, put, asks, typed, told, wiped>>

\* The other hand adds to what is there, or takes something out of it.
OtherWrites(f) ==
  \E kinds \in SUBSET {"quiet"} :
    \/ Writes(f, disk[f] \cup {MaxHis + 2 + written}, kinds) /\ UNCHANGED cut
    \/ \E m \in disk[f] : Writes(f, disk[f] \ {m}, kinds) /\ cut' = cut \cup {m}

AnyVersion(f, ver) == TRUE                                    \* (a mutant's)
Expected(f, ver) == ver = disk[f]
Unaware(f, text, ver) == IF ver \in told[f] THEN {} ELSE (disk[f] \ text) \ (cut \cup His)
Serve ==
  /\ put.st = "sent"
  /\ IF Expected(put.f, put.ver)
       THEN /\ disk' = [disk EXCEPT ![put.f] = put.text]
            /\ wiped' = wiped \cup Unaware(put.f, put.text, put.ver)
            /\ \/ put' = [put EXCEPT !.st = "ok"] /\ UNCHANGED troubles
               \/ put' = [put EXCEPT !.st = "failed"] /\ Befalls({"mute"})
       ELSE /\ put' = [put EXCEPT !.st = "refused", !.disk = disk[put.f]]
            /\ UNCHANGED <<disk, wiped, troubles>>
  /\ UNCHANGED <<versions, drafts, view, screen, asks, news, typed, written, cut, told>>
Lost ==
  /\ put.st = "sent" /\ put' = [put EXCEPT !.st = "failed"] /\ Befalls({"lose"})
  /\ UNCHANGED <<disk, versions, drafts, view, screen, asks, news, typed, written, history>>

-----------------------------------------------------------------------------
(* The answer                                                              *)

Said(s) == [s EXCEPT !.theirs = None]     \* any line replaces the one before, and its choices
SavedIs(text) == IF screen.f = "" THEN screen ELSE [Said(screen) EXCEPT !.saved = text]

Landed ==
  /\ put.st = "ok"
  /\ versions' = [versions EXCEPT ![put.f] = put.text]
  /\ drafts' = [drafts EXCEPT ![put.f] = None]
  /\ IF put.f = "draw"
       THEN put' = [put EXCEPT !.st = "picture"] /\ UNCHANGED screen
       ELSE put' = NoPut /\ screen' = SavedIs(put.text)
  /\ UNCHANGED <<disk, view, asks, news, typed, written, history, troubles>>
\* The picture beside the drawing is written, or is not: either way the save is over.
Pictured ==
  /\ put.st = "picture" /\ put' = NoPut /\ screen' = SavedIs(put.text)
  /\ UNCHANGED <<disk, versions, drafts, view, asks, news, typed, written, history, troubles>>

Resolves == Drawing /\ put.f = "draw" /\ ~put.again
Resolved ==
  /\ put.st = "refused" /\ Resolves
  /\ \E keep \in Keeps(screen) :
       /\ Sent("draw", Merged(screen.buf, screen.dead, put.disk, screen.base, keep), put.disk, TRUE)
       /\ screen' = Replaced(screen, put.disk, keep)
       /\ drafts' = IF screen.busy THEN drafts ELSE Redrafted(drafts, screen')
  /\ UNCHANGED <<disk, versions, view, asks, news, typed, written, history, troubles>>

Refused ==
  /\ put.st = "refused" /\ ~Resolves /\ ~put.again
  /\ versions' = [versions EXCEPT ![put.f] = put.disk]
  /\ told' = IF On(put.f) THEN [told EXCEPT ![put.f] = @ \cup {put.disk}] ELSE told
  /\ put' = NoPut /\ screen' = Said(screen)
  /\ UNCHANGED <<disk, drafts, view, asks, news, typed, written, cut, wiped, troubles>>

Failed ==
  /\ put.st = "failed" \/ (put.st = "refused" /\ put.again)
  /\ put' = NoPut /\ screen' = Said(screen)
  /\ UNCHANGED <<disk, versions, drafts, view, asks, news, typed, written, history, troubles>>

-----------------------------------------------------------------------------
Next ==
  \/ Merge \/ Gesture \/ Types \/ Redraws \/ ByHand \/ BySelf \/ Leave
  \/ EditsIt \/ ClosesIt \/ ShowsTheirs \/ KeepsMine
  \/ Serve \/ Lost \/ Landed \/ Pictured \/ Resolved \/ Refused \/ Failed
  \/ \E m \in Mark : Deletes(m)
  \/ \E f \in File : Opens(f) \/ OtherWrites(f)
  \/ \E a \in asks : Reads(a) \/ Opened(a) \/ Followed(a)
  \/ \E e \in news : Hears(e)
Spec == Init /\ [][Next]_vars

Quiet == asks = {} /\ news = {} /\ ~Saving
Excused(kinds) == troubles \cap kinds # {}

-----------------------------------------------------------------------------
\* No save of his takes a mark of the other hand off the disk that he neither took out
\* himself nor was shown by a refusal before saving again (detail.js versions and
\* drafts, the 409 of PUT /api/artifact, the merge of draw.js) -- unless he leaves while
\* a save is in flight, saves by hand over a parked merge, comes back to a drawing he
\* left unsaved, or an older refusal is merged after a newer write.
NothingOverwritten == wiped = {} \/ Excused({"leave", "hot", "reopen", "overtake"})
NothingEverOverwritten == wiped = {}

\* What he typed or drew, and nobody took out, is on the disk, on his screen or in its
\* draft (detail.js drafts; filepane.js fileUpdate) -- unless a save's answer drops the
\* draft of what he typed meanwhile, or a merge takes a reopened draft for the disk.
Kept == \A m \in 2..typed + 1 : m \in cut \cup UNION {disk[f] \cup drafts[f] : f \in File} \cup screen.buf
WorkKept == Kept \/ Excused({"ahead", "overtake", "reopen", "midair", "leave"})
WorkAlwaysKept == Kept

\* Once nothing is in flight, a file screen with nothing unsaved shows what is on disk,
\* or a refusal said that it does not (detail.js artifactWritten) -- unless the notice was lost, or a write overtook a read
\* or a save's answer.
Current == Quiet /\ screen.f # "" /\ ~Dirty /\ ~Parked
             => disk[screen.f] \in {screen.buf} \cup told[screen.f]
ScreenFollows == Current \/ Excused({"quiet", "overtake", "leave", "mute"})
ScreenAlwaysFollows == Current

\* A shape he drew that is not on the disk has a save booked, in flight, or waiting for a
\* parked merge (filepane.js autosave, draw.js saveDue) -- unless a save was lost, or he
\* came back to a drawing he left unsaved.
Unsaved == Drawing /\ (screen.buf \cap His) \ (disk["draw"] \cup cut) # {}
SaveIsBooked == Unsaved => screen.auto \/ Saving \/ Parked \/ Excused({"lose", "reopen"})
=============================================================================

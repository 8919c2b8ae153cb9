------------------------------- MODULE Detail -------------------------------
(***************************************************************************)
(* The card panel of one browser tab: the timeline put together from the   *)
(* board's newest events and the card fetched whole, the title and the     *)
(* description edited in place, the viewer that loads one document after   *)
(* another, and the playbook menu whose list is fetched at every opening   *)
(* (ui/js/detail.js, mergeCardEvents of util.js).                          *)
(*                                                                         *)
(* An event is its seq.  The server's event route may fold a repeat: the   *)
(* newest event goes and another comes with a new seq.                     *)
(***************************************************************************)
EXTENDS Integers, FiniteSets, FiniteSetsExt

CONSTANTS
  CardIds, Texts, Drawings, Window, MaxEvents, MaxOpens, Trouble,
  Pdfs, Unlabelled     \* the PDFs, and those of them only the server's answer tells to be one
DetailAssumption ==
  Window \in Nat \ {0} /\ MaxEvents \in Nat /\ MaxOpens \in Nat /\ Unlabelled \subseteq Pdfs

VARIABLES
  events,     \* CardIds -> the events of the card on the server
  view,       \* CardIds -> the same, as the tab last fetched the board; {} once archived
  open,       \* the card in the panel, or None
  full,       \* the card fetched whole: [id, events]
  fullAsk,    \* [id, failed]: the card a fetch is out for, or failed for
  asks,       \* fetches of whole cards: [n, id, read, events]
  editing,    \* what is edited in place: [field, text], the card the text is of
  viewer,     \* [title, shows, pages, open]: what it names, the text and the pages in it
  loads,      \* documents on their way: [uri, asked, current, card]: its type is still asked
              \* for, its run is the viewer's, the card it was opened from
  menu,       \* the playbook menu: [for, items, fetches]
  opens       \* how many things he opened
vars == <<events, view, open, full, fullAsk, asks, editing, viewer, loads, menu, opens>>
None == "none"
Uris == Texts \cup Pdfs \cup Drawings
NoEdit == [field |-> None, text |-> None]
NoMenu == [for |-> None, items |-> {}, fetches |-> {}]
Opens == opens < MaxOpens /\ opens' = opens + 1

(* -------------------------------- the timeline -------------------------------- *)
Newest(es) == {e \in es : Cardinality({f \in es : f >= e}) <= Window}
Omitted(c) == Cardinality(view[c] \ Newest(view[c]))
NeverStale(c) == FALSE
(* the whole card is older than the window: a gap in between may hide events *)
TooOld(c) == full.events = {} \/ Max(full.events) < Min(Newest(view[c]))
Whole(c) == full.id = c /\ ~TooOld(c)
Missing(c) == IF Omitted(c) = 0 \/ Whole(c) THEN 0 ELSE Omitted(c)
MergeCardEvents(c) ==
  IF Omitted(c) = 0 THEN view[c]
  ELSE Newest(view[c]) \cup IF Whole(c) THEN {e \in full.events : e < Min(Newest(view[c]))} ELSE {}

NoFull == [id |-> None, events |-> {}]
NoAsk == [id |-> None, failed |-> FALSE]
AskOf(c) == [n |-> Cardinality(asks), id |-> c, read |-> FALSE, events |-> {}]
(* every render asks for the whole card it misses, once *)
WantFull ==
  IF open # None /\ Missing(open) > 0 /\ fullAsk.id # open
  THEN fullAsk' = [id |-> open, failed |-> FALSE] /\ asks' = asks \cup {AskOf(open)}
  ELSE UNCHANGED <<fullAsk, asks>>
Renders ==
  /\ open # None /\ Missing(open) > 0 /\ fullAsk.id # open /\ WantFull
  /\ UNCHANGED <<events, view, open, full, editing, viewer, loads, menu, opens>>
Reads(a) ==
  /\ ~a.read /\ asks' = (asks \ {a}) \cup {[a EXCEPT !.read = TRUE, !.events = events[a.id]]}
  /\ UNCHANGED <<events, view, open, full, fullAsk, editing, viewer, loads, menu, opens>>
StuckAsk(a) == full' = [id |-> a.id, events |-> a.events] /\ UNCHANGED fullAsk
TakesFull(a) == full' = [id |-> a.id, events |-> a.events] /\ fullAsk' = NoAsk
(* an answer for a card that is no longer open is dropped *)
Whole1(a) ==
  /\ a.read /\ asks' = asks \ {a}
  /\ IF open = a.id THEN TakesFull(a) ELSE UNCHANGED <<full, fullAsk>>
  /\ UNCHANGED <<events, view, open, editing, viewer, loads, menu, opens>>
(* a failed fetch keeps its mark: it is asked again when the card is opened again *)
WholeFails(a) ==
  /\ "fails" \in Trouble /\ asks' = asks \ {a} /\ fullAsk' = [fullAsk EXCEPT !.failed = @ \/ fullAsk.id = a.id]
  /\ UNCHANGED <<events, view, open, full, editing, viewer, loads, menu, opens>>

(* -------------------------------- the panel -------------------------------- *)
OpenDetail(c) ==
  /\ Opens /\ view[c] # {} /\ open' = c
  /\ IF open = c THEN UNCHANGED <<full, fullAsk>> ELSE full' = NoFull /\ fullAsk' = NoAsk
  /\ UNCHANGED <<events, view, asks, editing, viewer, loads, menu>>
Closed == open' = None /\ full' = NoFull /\ fullAsk' = NoAsk /\ editing' = NoEdit
CloseDetail ==
  /\ open # None /\ Closed
  /\ UNCHANGED <<events, view, asks, viewer, loads, menu, opens>>
(* the stream brings the board; a card that left it leaves the panel *)
Refetch(c) ==
  /\ view[c] # events[c] /\ view' = [view EXCEPT ![c] = events[c]]
  /\ IF open = c /\ events[c] = {} THEN Closed ELSE UNCHANGED <<open, full, fullAsk, editing>>
  /\ UNCHANGED <<events, asks, viewer, loads, menu, opens>>
Event(c) ==
  /\ events[c] # {} /\ Max(events[c]) < MaxEvents
  /\ \E old \in {{}, {Max(events[c])}} :
       events' = [events EXCEPT ![c] = (@ \ old) \cup {Max(events[c]) + 1}]
  /\ UNCHANGED <<view, open, full, fullAsk, asks, editing, viewer, loads, menu, opens>>
Archived(c) ==
  /\ events[c] # {} /\ events' = [events EXCEPT ![c] = {}]
  /\ UNCHANGED <<view, open, full, fullAsk, asks, editing, viewer, loads, menu, opens>>

(* --------------------------- editing in place --------------------------- *)
StartEdit(f) ==
  /\ open # None /\ editing.field = None /\ editing' = [field |-> f, text |-> open]
  /\ UNCHANGED <<events, view, open, full, fullAsk, asks, viewer, loads, menu, opens>>
(* the text goes to the card that is open now *)
CommitEdit ==
  /\ editing.field # None /\ open # None /\ editing' = NoEdit
  /\ UNCHANGED <<events, view, open, full, fullAsk, asks, viewer, loads, menu, opens>>
(* a click on another card takes the focus from the title, which saves it first *)
Switches(c) == c # open => editing.field # "title"

(* -------------------------------- the viewer -------------------------------- *)
AvReset(u) == viewer' = [title |-> u, shows |-> None, pages |-> None, open |-> TRUE]
Stale == {[l EXCEPT !.current = FALSE] : l \in loads}
OpenArtifact(u) ==
  /\ Opens /\ IF u \in Drawings THEN UNCHANGED viewer ELSE AvReset(u)
  /\ loads' = {[uri |-> u, asked |-> u \in Unlabelled, current |-> u \notin Unlabelled, card |-> open]}
              \cup IF u \in Drawings THEN loads ELSE Stale
  /\ UNCHANGED <<events, view, open, full, fullAsk, asks, editing, menu>>
CloseArtifact ==
  /\ viewer.open /\ viewer' = [viewer EXCEPT !.open = FALSE] /\ loads' = Stale
  /\ UNCHANGED <<events, view, open, full, fullAsk, asks, editing, menu, opens>>
(* a text is painted whatever the viewer is on by now *)
LoadsText(l) ==
  /\ l.uri \in Texts /\ viewer' = [viewer EXCEPT !.shows = l.uri] /\ loads' = loads \ {l}
  /\ UNCHANGED <<events, view, open, full, fullAsk, asks, editing, menu, opens>>
(* what came without a type takes the run of whatever is open when the answer says PDF *)
ShowPdf(l) ==
  /\ l.asked /\ loads' = (loads \ {l}) \cup {[l EXCEPT !.asked = FALSE, !.current = TRUE]}
  /\ UNCHANGED <<events, view, open, full, fullAsk, asks, editing, viewer, menu, opens>>
AnyRun(l) == TRUE
(* a page is painted by the run that is still the viewer's *)
SameRun(l) == l.current
PaintsPage(l) ==
  /\ l.uri \in Pdfs /\ ~l.asked
  /\ IF SameRun(l) THEN viewer' = [viewer EXCEPT !.pages = l.uri] /\ loads' \in {loads, loads \ {l}}
                   ELSE loads' = loads \ {l} /\ UNCHANGED viewer
  /\ UNCHANGED <<events, view, open, full, fullAsk, asks, editing, menu, opens>>
(* it opens on the file screen, whose way back and saves take the card open by now *)
LoadsDrawing(l) ==
  /\ l.uri \in Drawings /\ viewer' = [viewer EXCEPT !.open = FALSE]
  /\ loads' = Stale \ {[l EXCEPT !.current = FALSE]}
  /\ Closed /\ UNCHANGED <<events, view, asks, menu, opens>>

(* ----------------------------- the playbook menu ----------------------------- *)
OpenPlaybookMenu ==
  /\ open # None /\ Opens
  /\ menu' = [for |-> open, items |-> {}, fetches |-> menu.fetches \cup {open}]
  /\ UNCHANGED <<events, view, open, full, fullAsk, asks, editing, viewer, loads>>
ClosePlaybookMenu ==
  /\ menu.for # None /\ menu' = [menu EXCEPT !.for = None]
  /\ UNCHANGED <<events, view, open, full, fullAsk, asks, editing, viewer, loads, opens>>
(* closed while the fetch was in flight: nothing; open again for another card: there too *)
LoadsPlaybooks(f) ==
  /\ menu' = [menu EXCEPT !.fetches = @ \ {f},
                !.items = IF menu.for = None THEN @ ELSE @ \cup {f}]
  /\ UNCHANGED <<events, view, open, full, fullAsk, asks, editing, viewer, loads, opens>>

Init ==
  /\ events = [c \in CardIds |-> {1, 2}] /\ view = events
  /\ open = None /\ full = NoFull /\ fullAsk = NoAsk /\ asks = {}
  /\ editing = NoEdit /\ loads = {}
  /\ viewer = [title |-> None, shows |-> None, pages |-> None, open |-> FALSE]
  /\ menu = NoMenu /\ opens = 0
Next ==
  \/ Renders \/ \E a \in asks : Reads(a) \/ Whole1(a) \/ WholeFails(a)
  \/ CloseDetail \/ CommitEdit \/ CloseArtifact \/ OpenPlaybookMenu \/ ClosePlaybookMenu
  \/ \E f \in {"title", "body"} : StartEdit(f)
  \/ \E c \in CardIds : (Switches(c) /\ OpenDetail(c)) \/ Refetch(c) \/ Event(c) \/ Archived(c)
  \/ \E u \in Uris : OpenArtifact(u)
  \/ \E l \in loads : LoadsText(l) \/ ShowPdf(l) \/ PaintsPage(l) \/ LoadsDrawing(l)
  \/ \E f \in menu.fetches : LoadsPlaybooks(f)
(* the tab renders, the stream brings the board, a request is answered or fails *)
Fairness ==
  /\ WF_vars(Renders) /\ \A c \in CardIds : WF_vars(Refetch(c))
  /\ WF_vars(\E a \in asks : Reads(a)) /\ WF_vars(\E a \in asks : Whole1(a) \/ WholeFails(a))
Spec == Init /\ [][Next]_vars /\ Fairness

(* -------------------------------- properties -------------------------------- *)
(* The timeline shows events the card has and says how many it leaves out: a whole card    *)
(* older than the window, or from before a repeat was folded, never passes for all of it.  *)
TimelineHonest == open # None =>
  /\ MergeCardEvents(open) \subseteq view[open]
  /\ Cardinality(MergeCardEvents(open)) + Missing(open) = Cardinality(view[open])
(* An open card's timeline gets whole, unless its fetch failed.                            *)
FinallyWhole == \A c \in CardIds :
  open = c /\ Missing(c) > 0 ~> \/ open # c \/ Missing(c) = 0
                                \/ fullAsk = [id |-> c, failed |-> TRUE]
(* No page of a PDF that was opened as one is painted into the document opened after it.    *)
PagesAreItsOwn == viewer.pages \in {None, viewer.title} \cup Unlabelled
(* Refuted: nor is one of a PDF whose type had to be asked for.                             *)
PagesHonest == viewer.pages \in {None, viewer.title}
(* Refuted: a description is saved to the card it was written for.                         *)
EditGoesHome == [][CommitEdit => editing.text = open]_vars
(* Refuted: the viewer shows, and its pencil edits, the document it names.                 *)
ViewerHonest == viewer.open => viewer.shows \in {None, viewer.title}
(* Refuted: a drawing's saves name the card it was opened from.                             *)
DrawingGoesHome == [][\A l \in loads : LoadsDrawing(l) => l.card = open]_vars
(* Refuted: what the playbook menu offers is for the card it was opened on.                *)
MenuHonest == menu.for = None \/ menu.items \subseteq {menu.for}
=============================================================================

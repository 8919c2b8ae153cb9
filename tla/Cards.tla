-------------------------------- MODULE Cards --------------------------------
(***************************************************************************)
(* The captain's hands on the cards: one browser tab with its copy of the  *)
(* board, its filter, its selection and its bulk runs, the requests it and *)
(* the lieutenants send, and the server's card routes, which find the card *)
(* before they have read the request's body (server.js, ui/js/api.js,      *)
(* board.js, labels.js, selection.js, bulk.js, archive.js).                *)
(*                                                                         *)
(* A card object is known by its id and its life: a restore makes a new    *)
(* one, and a request that found the old one edits an object the board no  *)
(* longer holds.                                                           *)
(***************************************************************************)
EXTENDS Integers, FiniteSets, Sequences, SequencesExt

CONSTANTS CardIds, Labels, MaxRequests, MaxLives

VARIABLES
  board,       \* CardIds -> the card: [live, life, labels, col, order, worker]
  registry,    \* the label registry
  archive,     \* archive.jsonl: records [id, life, labels]
  requests,    \* requests on their way, found or not yet
  sent,        \* how many were sent
  view,        \* the board as the tab last fetched it
  filter,      \* the label the tab filters by, or Everything
  selected,    \* the selection
  moving,      \* cards with a move in flight from this tab
  bulk         \* the bulk run: [verb, arg, todo, waits]
vars == <<board, registry, archive, requests, sent, view, filter, selected, moving, bulk>>
tab == <<view, filter, selected, moving, bulk>>
server == <<board, registry, archive>>
Everything == "everything"
Columns == {"backlog", "review", "peer"}
NoRun == [verb |-> "none", arg |-> "", todo |-> <<>>, waits |-> FALSE]

(* ------------------------------- the requests ------------------------------- *)
To(col) == [col |-> col, from |-> {}, set |-> {}]
Set(s) == [col |-> "", from |-> {}, set |-> s]
Nothing == To("")
NewRequest(op, id, arg, by) ==
  /\ by = "bulk" \/ sent < MaxRequests
  /\ sent' = IF by = "bulk" THEN sent ELSE sent + 1
  /\ requests' = requests \cup {[n |-> sent, op |-> op, id |-> id, arg |-> arg, by |-> by, life |-> 0]}
(* the answer, or its failure, frees the card for its next move and a bulk run for its next card *)
MoveAnswered(r) == moving' = moving \ {r.id} /\ UNCHANGED bulk
Answered(r) ==
  /\ moving' = IF r.op = "move" /\ r.by \in {"tab", "bulk"} THEN moving \ {r.id} ELSE moving
  /\ bulk' = IF r.by = "bulk" THEN [bulk EXCEPT !.waits = FALSE] ELSE bulk
(* the route: an unknown card is answered 404 before its body is read *)
Finds(r) ==
  /\ r.life = 0 /\ r.op # "labels"
  /\ IF board[r.id].live \/ r.op = "restore"
     THEN /\ requests' = (requests \ {r}) \cup {[r EXCEPT !.life = board[r.id].life]}
          /\ UNCHANGED <<moving, bulk>>
     ELSE /\ requests' = requests \ {r} /\ Answered(r)
  /\ UNCHANGED <<server, sent, view, filter, selected>>
Lost(r) ==
  /\ requests' = requests \ {r} /\ Answered(r)
  /\ UNCHANGED <<server, sent, view, filter, selected>>

(* -------------------------------- the server -------------------------------- *)
SameObject(r) == board[r.id].live /\ board[r.id].life = r.life
RegistryKept(b) == registry
RegisterCardLabels(b) == registry \cup UNION {b[c].labels : c \in {d \in CardIds : b[d].live}}
OrderFor(r, from) ==
  CASE r.arg.col = "working" -> "start-order"
    [] from = "review" /\ r.arg.col = "backlog" -> "rework-order"
    [] OTHER -> "none"
(* a captain's move to Working, or back from review, is an order: the card stays *)
MoveCard(r) ==
  LET c == board[r.id]
      order == IF r.by = "lieutenant" THEN "none" ELSE OrderFor(r, c.col)
  IN  /\ r.op = "move" /\ ~(r.by = "lieutenant" /\ r.arg.col # "review")
      /\ board' = IF ~SameObject(r) \/ r.arg.col = c.col THEN board
                  ELSE IF order # "none" THEN [board EXCEPT ![r.id].order = order]
                  ELSE [board EXCEPT ![r.id].col = r.arg.col, ![r.id].order = "none", ![r.id].worker = FALSE]
      /\ UNCHANGED <<registry, archive>>
PatchLabels(r) ==
  /\ r.op = "patch"
  /\ board' = IF SameObject(r) THEN [board EXCEPT ![r.id].labels = r.arg.set] ELSE board
  /\ registry' = RegisterCardLabels(board')
  /\ UNCHANGED archive
(* the record is written from the object that was found, live or not *)
ArchiveCard(r) ==
  /\ r.op = "archive"
  /\ archive' = Append(archive, [id |-> r.id, life |-> r.life, labels |-> board[r.id].labels])
  /\ board' = [board EXCEPT ![r.id].live = FALSE, ![r.id].worker = FALSE]
  /\ UNCHANGED registry
LastRecord(id) == SelectLastInSeq(archive, LAMBDA a : a.id = id)
(* the whole handler: it finds nothing before its body is read, and answers 409 for a live card *)
RestoreCard(r) ==
  /\ r.op = "restore"
  /\ board' = IF board[r.id].live \/ LastRecord(r.id) = 0 THEN board
              ELSE [board EXCEPT ![r.id] = [live |-> TRUE, life |-> @.life + 1, order |-> "none",
                      labels |-> archive[LastRecord(r.id)].labels, worker |-> FALSE,
                      col |-> IF @.col = "working" THEN "backlog" ELSE @.col]]
  /\ registry' = RegisterCardLabels(board') /\ UNCHANGED archive
Handles(r) ==
  /\ r.life # 0 /\ (MoveCard(r) \/ PatchLabels(r) \/ ArchiveCard(r) \/ RestoreCard(r))
  /\ requests' = requests \ {r} /\ Answered(r)
  /\ UNCHANGED <<sent, view, filter, selected>>
Renamed(s, r) == IF r.arg.from \subseteq s THEN (s \ r.arg.from) \cup r.arg.set ELSE s
(* rename and delete walk every card of the board *)
LabelRoute(r) ==
  /\ r.op = "labels" /\ r.arg.from \subseteq registry /\ r.arg.set \cap registry = {}
  /\ registry' = Renamed(registry, r)
  /\ board' = [c \in CardIds |-> IF board[c].live
                 THEN [board[c] EXCEPT !.labels = Renamed(@, r)] ELSE board[c]]
  /\ requests' = requests \ {r} /\ UNCHANGED <<archive, sent, tab>>

(* ---------------------------------- the tab ---------------------------------- *)
ShownIn(v, f) == {c \in CardIds : v[c].live /\ (f = Everything \/ f \in v[c].labels)}
NoReconcile(v, f) == selected
(* every render first drops from the selection what the filter no longer shows *)
Reconcile(v, f) == selected \cap ShownIn(v, f)
Refetch ==
  /\ view # board /\ view' = board /\ selected' = Reconcile(board, filter)
  /\ UNCHANGED <<server, requests, sent, filter, moving, bulk>>
Filters(f) ==
  /\ f # filter /\ filter' = f /\ selected' = Reconcile(view, f)
  /\ UNCHANGED <<server, requests, sent, view, moving, bulk>>
Pick(c) ==
  /\ c \in ShownIn(view, filter)
  /\ selected' = IF c \in selected THEN selected \ {c} ELSE selected \cup {c}
  /\ UNCHANGED <<server, requests, sent, view, filter, moving, bulk>>
TwoMoves(c, col, by) == NewRequest("move", c, To(col), by)
(* one move per card in flight; another rides its answer, wherever it was going *)
PostMove(c, col, by) ==
  IF c \in moving THEN UNCHANGED <<requests, sent>> ELSE NewRequest("move", c, To(col), by)
Drag(c, col) ==
  /\ view[c].live /\ view[c].col # col /\ PostMove(c, col, "tab")
  /\ moving' = moving \cup {c}
  /\ UNCHANGED <<server, view, filter, selected, bulk>>
AddLabel(c, l) ==
  /\ view[c].live /\ l \notin view[c].labels /\ NewRequest("patch", c, Set(view[c].labels \cup {l}), "tab")
  /\ UNCHANGED <<server, tab>>
LabelManager(from, to) ==
  /\ NewRequest("labels", CHOOSE c \in CardIds : TRUE, [col |-> "", from |-> {from}, set |-> to], "tab")
  /\ UNCHANGED <<server, tab>>
Unarchive(c) ==
  /\ ~view[c].live /\ board[c].life < MaxLives /\ NewRequest("restore", c, Nothing, "tab")
  /\ UNCHANGED <<server, tab>>

(* ------------------------------- the bulk run ------------------------------- *)
(* the cards are read when he presses, as the tab had them *)
Presses(verb, arg) ==
  /\ bulk = NoRun /\ selected # {} /\ sent < MaxRequests /\ sent' = sent + 1
  /\ bulk' = [verb |-> verb, arg |-> arg, waits |-> FALSE,
              todo |-> SetToSeq({[id |-> c, labels |-> view[c].labels, col |-> view[c].col] : c \in selected})]
  /\ UNCHANGED <<server, requests, view, filter, selected, moving>>
(* the workers are read again for every card, as the tab has them now *)
ArchiveRefusal(c) == view[c].worker
LabelsAfter(c) == c.labels \cup {bulk.arg}
Skips(c) ==
  CASE bulk.verb = "archive" -> ArchiveRefusal(c.id)
    [] bulk.verb = "move" -> c.col = bulk.arg
    [] OTHER -> LabelsAfter(c) = c.labels
BulkStep ==
  LET c == Head(bulk.todo)
  IN  /\ bulk.todo # <<>> /\ ~bulk.waits
      /\ IF Skips(c) THEN UNCHANGED <<requests, sent, moving>>
         ELSE CASE bulk.verb = "archive" -> /\ NewRequest("archive", c.id, Nothing, "bulk")
                                            /\ UNCHANGED <<moving>>
                [] bulk.verb = "move" -> /\ PostMove(c.id, bulk.arg, "bulk") /\ moving' = moving \cup {c.id}
                [] OTHER -> /\ NewRequest("patch", c.id, Set(LabelsAfter(c)), "bulk")
                            /\ UNCHANGED <<moving>>
      /\ bulk' = [bulk EXCEPT !.todo = Tail(@), !.waits = requests' # requests]
      /\ UNCHANGED <<server, view, filter, selected>>
Reports ==
  /\ bulk # NoRun /\ bulk.todo = <<>> /\ ~bulk.waits /\ bulk' = NoRun
  /\ selected' = Reconcile(view, filter)
  /\ UNCHANGED <<server, requests, sent, view, filter, moving>>

(* ------------------- the lieutenants, the captain's telephone ------------------ *)
LieutenantAsks(c, op) ==
  /\ board[c].live /\ NewRequest(op, c, IF op = "move" THEN To("review") ELSE Nothing, "lieutenant")
  /\ UNCHANGED <<server, tab>>
OtherDevice(c, l) ==
  /\ board[c].live /\ l \notin board[c].labels
  /\ NewRequest("patch", c, Set(board[c].labels \cup {l}), "other") /\ UNCHANGED <<server, tab>>
StartCard(c) ==
  /\ board[c].live /\ board[c].order = "start-order"
  /\ board' = [board EXCEPT ![c].col = "working", ![c].worker = TRUE, ![c].order = "none"]
  /\ UNCHANGED <<registry, archive, requests, sent, tab>>

FreshCard == [live |-> TRUE, life |-> 1, labels |-> {}, col |-> "backlog", order |-> "none", worker |-> FALSE]
Init ==
  /\ board = [c \in CardIds |-> FreshCard] /\ view = board /\ registry = {CHOOSE l \in Labels : TRUE}
  /\ archive = <<>> /\ requests = {} /\ sent = 0
  /\ filter = Everything /\ selected = {} /\ moving = {} /\ bulk = NoRun
Next ==
  \/ \E r \in requests : Finds(r) \/ Handles(r) \/ LabelRoute(r) \/ Lost(r)
  \/ Refetch \/ BulkStep \/ Reports \/ \E f \in Labels \cup {Everything} : Filters(f)
  \/ \E c \in CardIds :
       \/ Pick(c) \/ StartCard(c) \/ Unarchive(c) \/ \E l \in Labels : AddLabel(c, l) \/ OtherDevice(c, l)
       \/ \E col \in Columns \cup {"working"} : Drag(c, col)
       \/ \E op \in {"move", "archive"} : LieutenantAsks(c, op)
  \/ Presses("archive", "") \/ Presses("move", "working") \/ \E l \in Labels : Presses("label", l)
  \/ \E l \in Labels, to \in {{}} \cup {{m} : m \in Labels} : LabelManager(l, to)
(* a request is answered or fails, the stream brings the board, a run goes on *)
Fairness ==
  /\ WF_vars(\E r \in requests : Finds(r) \/ Handles(r) \/ LabelRoute(r) \/ Lost(r))
  /\ WF_vars(Refetch) /\ WF_vars(BulkStep) /\ WF_vars(Reports)
Spec == Init /\ [][Next]_vars /\ Fairness

(* -------------------------------- properties -------------------------------- *)
(* Whatever renames, deletes, stale label lists and restores race, a label on a card of    *)
(* the board is in the registry: the manager can always reach it (registerCardLabels).     *)
LabelsRegistered == \A c \in CardIds : board[c].live => board[c].labels \subseteq registry
(* What the next action will hit is what the captain can see: no refetch, archive by       *)
(* another hand, relabel or filter leaves a card selected that is not shown.               *)
SelectedIsShown == selected \subseteq ShownIn(view, filter)
(* One move of the tab at a time for a card: a second drag before the board redraws does   *)
(* not order the same work twice (api.js moveCard).                                        *)
OneMoveAtATime == \A c \in CardIds :
  Cardinality({r \in requests : r.op = "move" /\ r.id = c /\ r.by \in {"tab", "bulk"}}) <= 1
(* A bulk run ends with its report, whatever its requests come to.                         *)
BulkReports == bulk # NoRun ~> bulk = NoRun
(* Refuted: a life of a card is archived once (two requests may both have found it).       *)
ArchivedOnce == \A i, j \in DOMAIN archive : i # j => archive[i] # archive[j]
(* Refuted: "labels ADD and REMOVE - they never replace" (bulk.js): the whole list of an   *)
(* older board is sent, and what was added since is gone.                                  *)
LabelsNeverReplaced == [][\A r \in requests : PatchLabels(r) /\ r.by = "bulk" /\ SameObject(r) =>
  board[r.id].labels \subseteq board'[r.id].labels]_vars
(* Refuted: "a card with a live worker is not archivable" (bulk.js): the server asks       *)
(* nothing, and the tab may not have heard of the worker yet.                              *)
LiveWorkSpared == [][\A r \in requests : ArchiveCard(r) /\ r.life # 0 /\ r.by = "bulk" => ~board[r.id].worker]_vars
(* Refuted: what was answered ok is on the board or in the archive.                        *)
AckedEditKept == [][\A r \in requests : r.life # 0 /\ (MoveCard(r) \/ PatchLabels(r)) => SameObject(r)]_vars
==============================================================================

------------------------ MODULE MCBrowser ------------------------
(* The browser's parts for TLC: the tab and its stream, the read marks, the *)
(* board's cards and bulk runs, the card's detail, the composer, and the     *)
(* files beside a card.                                                      *)
EXTENDS Tab

CONSTANT Parts    \* the parts to run: "tab", "unread", "cards", "detail", "composer", "files"

VARIABLES
  which,   \* the part that runs in this behaviour
  clock, unreadLog, marker, floor, picked, stale, fetch, unreadDoc, unreadOpen, marked,
  unreadPost, unreadSeen, unreadFailed,
  board, registry, archive, requests, sent, cardsView, filter, selected, moving, bulk,
  events, detailView, detailOpen, full, fullAsk, detailAsks, editing, viewer, loads, menu, opens,
  card, worker, born, composerSeen, at, text, meant, staged, quote, slash, composerAsked,
  composerAsks, composerPost, ups, stored, said, runs, replies, gave, composerTroubles,
  disk, versions, drafts, filesView, screen, put, filesAsks, news, typed, written, cut, told,
  wiped, filesTroubles

U == INSTANCE Unread WITH
  Device <- {"desk"}, Wire <- 1, MaxLog <- 2, MaxClock <- 2, MaxFail <- 1, log <- unreadLog,
  doc <- unreadDoc, open <- unreadOpen, post <- unreadPost, seen <- unreadSeen,
  failed <- unreadFailed
C == INSTANCE Cards WITH
  CardIds <- {"a", "b"}, Labels <- {"x", "y"}, MaxRequests <- 2, MaxLives <- 2, view <- cardsView
D == INSTANCE Detail WITH
  CardIds <- {"a", "b"}, Texts <- {"text"}, Pdfs <- {"pdf", "scan"}, Unlabelled <- {"scan"},
  Drawings <- {"drawing"}, Window <- 1, MaxEvents <- 3, MaxOpens <- 2, Trouble <- {"fails"}, view <- detailView,
  open <- detailOpen, asks <- detailAsks
P == INSTANCE Composer WITH
  File <- {"f1", "f2"}, Most <- 2, MaxSaid <- 0, MaxPosts <- 2, MaxAsks <- 2, MaxSessions <- 1,
  Together <- FALSE, Trouble <- {"fail", "restart", "midsend", "file", "archive"},
  MaxTrouble <- 1, seen <- composerSeen, asked <- composerAsked, asks <- composerAsks,
  post <- composerPost, troubles <- composerTroubles
F == INSTANCE Files WITH
  Together <- FALSE, MaxHis <- 1, MaxOther <- 1, MaxAsk <- 1,
  Trouble <- {"quiet", "lose", "mute", "leave", "hot", "reopen", "midair", "ahead", "overtake"},
  MaxTrouble <- 1, view <- filesView, asks <- filesAsks, troubles <- filesTroubles

unreadVars == <<clock, unreadLog, marker, floor, picked, stale, fetch, unreadDoc, unreadOpen,
  marked, unreadPost, unreadSeen, unreadFailed>>
cardsVars == <<board, registry, archive, requests, sent, cardsView, filter, selected, moving,
  bulk>>
detailVars == <<events, detailView, detailOpen, full, fullAsk, detailAsks, editing, viewer, loads,
  menu, opens>>
composerVars == <<card, worker, born, composerSeen, at, text, meant, staged, quote, slash,
  composerAsked, composerAsks, composerPost, ups, stored, said, runs, replies, gave,
  composerTroubles>>
filesVars == <<disk, versions, drafts, filesView, screen, put, filesAsks, news, typed, written,
  cut, told, wiped, filesTroubles>>
browserVars == <<which, vars, unreadVars, cardsVars, detailVars, composerVars, filesVars>>

(* Every part starts, the one that runs is chosen; the others keep one of their starts.
   (TLC leaves unevaluated what is never compared, and cannot store it: hence the last line.) *)
BrowserInit ==
  /\ which \in Parts
  /\ Init
  /\ U!Init
  /\ C!Init
  /\ D!Init
  /\ P!Init
  /\ F!Init
  /\ which # "tab" => looking = FALSE
  /\ which # "composer" => at = "card"
  /\ browserVars = browserVars

(* The parts share no state: a step is a step of the part that runs. *)
BrowserNext ==
  \/ which = "tab" /\ Next /\ UNCHANGED <<which, unreadVars, cardsVars, detailVars, composerVars, filesVars>>
  \/ which = "unread" /\ U!Next /\ UNCHANGED <<which, vars, cardsVars, detailVars, composerVars, filesVars>>
  \/ which = "cards" /\ C!Next /\ UNCHANGED <<which, vars, unreadVars, detailVars, composerVars, filesVars>>
  \/ which = "detail" /\ D!Next /\ UNCHANGED <<which, vars, unreadVars, cardsVars, composerVars, filesVars>>
  \/ which = "composer" /\ P!Next /\ UNCHANGED <<which, vars, unreadVars, cardsVars, detailVars, filesVars>>
  \/ which = "files" /\ F!Next /\ UNCHANGED <<which, vars, unreadVars, cardsVars, detailVars, composerVars>>

BrowserSpec == BrowserInit /\ [][BrowserNext]_browserVars

(* A state is told by the part that runs: the others never change. *)
Running ==
  <<which, CASE which = "tab" -> vars
           [] which = "unread" -> unreadVars
           [] which = "cards" -> cardsVars
           [] which = "detail" -> detailVars
           [] which = "composer" -> composerVars
           [] which = "files" -> filesVars>>
----------------------------------------------------------------------------
ASSUME BrowserAssumption ==
  /\ U!UnreadAssumption /\ D!DetailAssumption
  /\ P!ComposerAssumption /\ F!FilesAssumption

\* The badge counts what the whole log would, though the wire cuts it (server.js 1264).
BellAgrees == which = "unread" => U!BellAgrees

\* What is shown is so: the labels of the cards are registered, what a bulk run takes is what
\* is shown as selected, one move runs at a time (server.js 622, bulk.js 61, api.js 45); a
\* timeline is a run of its own card's events and no page of a PDF opened as one is painted
\* into the next document (util.js 142, detail.js 772).
BoardHonest ==
  /\ which = "cards" => C!LabelsRegistered /\ C!SelectedIsShown /\ C!OneMoveAtATime
  /\ which = "detail" => D!TimelineHonest /\ D!PagesAreItsOwn

\* A message carries the files it was sent with, chips outlive a send that failed, and the
\* command picker is the target's own (chat.js 829, 914-924).
ComposerKeeps == which = "composer" => P!FilesWhole /\ P!StagedKept /\ P!PickerHers

\* No write overwrites what its writer has not read, his work reaches the file or stays with
\* him, and his pane comes to show the file (detail.js 494-555, filepane.js 223-251).
WorkSafe ==
  which = "files" => F!NothingOverwritten /\ F!WorkKept /\ F!ScreenFollows /\ F!SaveIsBooked
============================================================================

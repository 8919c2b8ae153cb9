------------------------ MODULE MCBrowserLive ------------------------
(* What the browser owes in the end, for TLC: the tab, the read marks, the   *)
(* cards, the detail, the composer, the voices, dictation and the gauges,    *)
(* each small and under its own fairness.                                    *)
EXTENDS Naturals

CONSTANT Parts    \* the parts to run: "tab", "unread", "cards", "detail", "composer", "speech", "dictation", "gauges"

VARIABLES
  which,   \* the part that runs in this behaviour
  tabLog, rev, line, notices, tabDoc, sync, tabAsked, poll, tabFailed, best, tabPost,
  tabPending, taken, looking, older, pages, spent,
  clock, unreadLog, marker, floor, picked, stale, fetch, unreadDoc, unreadOpen, marked,
  unreadPost, unreadSeen, unreadFailed,
  board, registry, archive, requests, cardsSent, cardsView, filter, selected, moving, bulk,
  events, detailView, detailOpen, full, fullAsk, detailAsks, editing, viewer, detailLoads, menu,
  opens,
  card, worker, born, composerSeen, at, text, meant, staged, quote, slash, composerAsked,
  composerAsks, composerPost, ups, stored, composerSaid, runs, replies, gave, composerTroubles,
  voiceOn, queue, speechSaid, loop, manual, speechLive, speechSent, over, speechPending, lost,
  ghosts, audio, holds, engine, stalled, drift, fate, speechTroubles,
  take, st, track, wrote, told, thrown, room, hush, takes, up, down, dictationPart,
  dictationTroubles,
  subs, running, timers, handle, last, prev, base, watch, panel, hidden, es, conns, gaugesLive,
  got, Q, data, gaugesLoads, pollT, shown, gaugesAsked, index, gaugesPart, gaugesTroubles

T == INSTANCE Tab WITH
  Text <- {"ship it"}, ChatTail <- 1, Page <- 1, Before <- 1, MaxLog <- 2,
  Trouble <- {"change", "restart", "fault", "poll", "leave"}, MaxTrouble <- 1, Repeats <- FALSE,
  log <- tabLog, doc <- tabDoc, asked <- tabAsked, failed <- tabFailed, post <- tabPost,
  pending <- tabPending
U == INSTANCE Unread WITH
  Device <- {"desk"}, Wire <- 1, MaxLog <- 1, MaxClock <- 2, MaxFail <- 1, log <- unreadLog,
  doc <- unreadDoc, open <- unreadOpen, post <- unreadPost, seen <- unreadSeen,
  failed <- unreadFailed
C == INSTANCE Cards WITH
  CardIds <- {"a"}, Labels <- {"x"}, MaxRequests <- 2, MaxLives <- 2, sent <- cardsSent,
  view <- cardsView
D == INSTANCE Detail WITH
  CardIds <- {"a", "b"}, Texts <- {}, Pdfs <- {}, Unlabelled <- {}, Drawings <- {}, Window <- 1, MaxEvents <- 3,
  MaxOpens <- 2, Trouble <- {"fails"}, view <- detailView, open <- detailOpen,
  asks <- detailAsks, loads <- detailLoads
P == INSTANCE Composer WITH
  File <- {"f1"}, Most <- 1, MaxSaid <- 0, MaxPosts <- 1, MaxAsks <- 1, MaxSessions <- 1,
  Together <- FALSE, Trouble <- {"fail", "restart", "archive"}, MaxTrouble <- 1,
  seen <- composerSeen, asked <- composerAsked, asks <- composerAsks, post <- composerPost,
  said <- composerSaid, troubles <- composerTroubles
S == INSTANCE Speech WITH
  MaxSaid <- 3, QueueMax <- 1, MaxChunks <- 2, MaxHolds <- 1,
  Trouble <- {"pause", "dry", "dies", "fails", "stalls", "stop", "skip", "halt", "denied"},
  MaxTrouble <- 1, said <- speechSaid, live <- speechLive, sent <- speechSent,
  pending <- speechPending, troubles <- speechTroubles
V == INSTANCE Dictation WITH
  MaxTaps <- 2, MaxTakes <- 2, MaxChunks <- 2,
  Trouble <- {"twice", "escape", "deny", "recfail", "upfail"}, MaxTrouble <- 2,
  part <- dictationPart, troubles <- dictationTroubles
G == INSTANCE Gauges WITH
  Viewers <- {"v1", "v2"}, MaxConn <- 1, MaxWatch <- 2, Questions <- {"claude"}, MaxAsk <- 2,
  Trouble <- {"drop", "fail", "refuse", "hide"}, MaxTrouble <- 1, live <- gaugesLive,
  loads <- gaugesLoads, asked <- gaugesAsked, part <- gaugesPart, troubles <- gaugesTroubles

tabVars == <<tabLog, rev, line, notices, tabDoc, sync, tabAsked, poll, tabFailed, best, tabPost,
  tabPending, taken, looking, older, pages, spent>>
unreadVars == <<clock, unreadLog, marker, floor, picked, stale, fetch, unreadDoc, unreadOpen,
  marked, unreadPost, unreadSeen, unreadFailed>>
cardsVars == <<board, registry, archive, requests, cardsSent, cardsView, filter, selected, moving,
  bulk>>
detailVars == <<events, detailView, detailOpen, full, fullAsk, detailAsks, editing, viewer,
  detailLoads, menu, opens>>
composerVars == <<card, worker, born, composerSeen, at, text, meant, staged, quote, slash,
  composerAsked, composerAsks, composerPost, ups, stored, composerSaid, runs, replies, gave,
  composerTroubles>>
speechVars == <<voiceOn, queue, speechSaid, loop, manual, speechLive, speechSent, over,
  speechPending, lost, ghosts, audio, holds, engine, stalled, drift, fate, speechTroubles>>
dictationVars == <<take, st, track, wrote, told, thrown, room, hush, takes, up, down,
  dictationPart, dictationTroubles>>
gaugesVars == <<subs, running, timers, handle, last, prev, base, watch, panel, hidden, es, conns,
  gaugesLive, got, Q, data, gaugesLoads, pollT, shown, gaugesAsked, index, gaugesPart,
  gaugesTroubles>>
pageVars == <<which, tabVars, unreadVars, cardsVars, detailVars, composerVars, speechVars, dictationVars, gaugesVars>>

(* Every part starts, the one that runs is chosen; the others keep one of their starts. *)
PageInit ==
  /\ which \in Parts
  /\ T!Init
  /\ U!Init
  /\ C!Init
  /\ D!Init
  /\ P!Init
  /\ S!Init
  /\ V!Init
  /\ G!Init
  /\ which # "tab" => looking = FALSE
  /\ which # "composer" => at = "card"
  /\ which # "speech" => voiceOn
  /\ which # "dictation" => dictationPart = "composer"
  /\ which # "gauges" => gaugesPart = "load"

(* The parts share no state: a step is a step of the part that runs. *)
PageNext ==
  \/ which = "tab" /\ T!Next /\ UNCHANGED <<which, unreadVars, cardsVars, detailVars, composerVars, speechVars, dictationVars, gaugesVars>>
  \/ which = "unread" /\ U!Next /\ UNCHANGED <<which, tabVars, cardsVars, detailVars, composerVars, speechVars, dictationVars, gaugesVars>>
  \/ which = "cards" /\ C!Next /\ UNCHANGED <<which, tabVars, unreadVars, detailVars, composerVars, speechVars, dictationVars, gaugesVars>>
  \/ which = "detail" /\ D!Next /\ UNCHANGED <<which, tabVars, unreadVars, cardsVars, composerVars, speechVars, dictationVars, gaugesVars>>
  \/ which = "composer" /\ P!Next /\ UNCHANGED <<which, tabVars, unreadVars, cardsVars, detailVars, speechVars, dictationVars, gaugesVars>>
  \/ which = "speech" /\ S!Next /\ UNCHANGED <<which, tabVars, unreadVars, cardsVars, detailVars, composerVars, dictationVars, gaugesVars>>
  \/ which = "dictation" /\ V!Next /\ UNCHANGED <<which, tabVars, unreadVars, cardsVars, detailVars, composerVars, speechVars, gaugesVars>>
  \/ which = "gauges" /\ G!Next /\ UNCHANGED <<which, tabVars, unreadVars, cardsVars, detailVars, composerVars, speechVars, dictationVars>>

PageSpec == PageInit /\ [][PageNext]_pageVars
----------------------------------------------------------------------------
TabFair ==
  /\ which = "tab"
  /\ WF_tabVars(which = "tab" /\ T!Opens)
  /\ WF_tabVars(which = "tab" /\ T!Watchdog)
  /\ WF_tabVars(which = "tab" /\ T!Notified)
  /\ WF_tabVars(which = "tab" /\ T!GapOver)
  /\ WF_tabVars(which = "tab" /\ T!ServeBoard)
  /\ WF_tabVars(which = "tab" /\ T!BoardCame)
  /\ WF_tabVars(which = "tab" /\ T!LostFails)
UnreadFair ==
  /\ which = "unread"
  /\ WF_unreadVars(which = "unread" /\ U!Fetches("desk"))
  /\ WF_unreadVars(which = "unread" /\ U!BoardCame("desk"))
  /\ WF_unreadVars(which = "unread" /\ U!Renders("desk"))
  /\ \A w \in U!Surface : WF_unreadVars(which = "unread" /\ (U!PostLands("desk", w) \/ U!PostFails("desk", w)))
CardsFair ==
  /\ which = "cards"
  /\ WF_cardsVars(which = "cards" /\ \E r \in requests : C!Finds(r) \/ C!Handles(r) \/ C!LabelRoute(r) \/ C!Lost(r))
  /\ WF_cardsVars(which = "cards" /\ C!Refetch)
  /\ WF_cardsVars(which = "cards" /\ C!BulkStep)
  /\ WF_cardsVars(which = "cards" /\ C!Reports)
DetailFair ==
  /\ which = "detail"
  /\ WF_detailVars(which = "detail" /\ D!Renders)
  /\ \A c \in {"a", "b"} : WF_detailVars(which = "detail" /\ D!Refetch(c))
  /\ WF_detailVars(which = "detail" /\ \E a \in detailAsks : D!Reads(a))
  /\ WF_detailVars(which = "detail" /\ \E a \in detailAsks : D!Whole1(a) \/ D!WholeFails(a))
ComposerFair ==
  /\ which = "composer"
  /\ WF_composerVars(which = "composer" /\ \E r \in runs : P!Replies(r))
SpeechFair ==
  /\ which = "speech"
  /\ WF_speechVars(which = "speech" /\ S!StreamEnds)
  /\ WF_speechVars(which = "speech" /\ S!Fails)
  /\ WF_speechVars(which = "speech" /\ S!Aborted)
  /\ WF_speechVars(which = "speech" /\ S!HangsUp)
  /\ WF_speechVars(which = "speech" /\ S!Chunk)
  /\ WF_speechVars(which = "speech" /\ S!Heard)
  /\ WF_speechVars(which = "speech" /\ S!TailEnds)
  /\ WF_speechVars(which = "speech" /\ S!TakesNext)
  /\ WF_speechVars(which = "speech" /\ S!Beats)
  /\ WF_speechVars(which = "speech" /\ S!Touches)
DictationFair ==
  /\ which = "dictation"
  /\ \A n \in V!Taps : WF_dictationVars(which = "dictation" /\ V!Granted(n))
  /\ \A n \in V!Taps : WF_dictationVars(which = "dictation" /\ V!Stopped(n))
  /\ \A n \in V!Taps : WF_dictationVars(which = "dictation" /\ V!Answered(n))
  /\ WF_dictationVars(which = "dictation" /\ V!TapAgain)
  /\ WF_dictationVars(which = "dictation" /\ V!Opens)
  /\ WF_dictationVars(which = "dictation" /\ V!Flushed)
  /\ SF_dictationVars(which = "dictation" /\ V!LetsGo)
  /\ WF_dictationVars(which = "dictation" /\ V!TimesOut)
  /\ WF_dictationVars(which = "dictation" /\ V!Message)
GaugesFair ==
  /\ which = "gauges"
  /\ WF_gaugesVars(which = "gauges" /\ G!Sampled)
  /\ WF_gaugesVars(which = "gauges" /\ G!Beat)
  /\ WF_gaugesVars(which = "gauges" /\ G!Poll)
  /\ WF_gaugesVars(which = "gauges" /\ G!IndexEnds)
  /\ WF_gaugesVars(which = "gauges" /\ G!Shows)
  /\ \A v \in {"v1", "v2"} : WF_gaugesVars(which = "gauges" /\ G!Subscribe(v))
  /\ \A s \in G!Streams : WF_gaugesVars(which = "gauges" /\ G!Unsubscribe(s))
  /\ \A q \in {"claude"} : WF_gaugesVars(which = "gauges" /\ G!Answered(q))

ASSUME BrowserAssumption ==
  /\ U!UnreadAssumption /\ D!DetailAssumption /\ P!ComposerAssumption
  /\ S!SpeechAssumption /\ V!DictationAssumption /\ G!GaugesAssumption

\* What the page waits for comes: a tab whose stream is up ends on the newest board, a card
\* kept open gets read, a bulk run reports, a timeline left short is fetched whole or says it
\* failed, a command he gave is answered (boardsync.js 44, chat.js 559, bulk.js 61, detail.js 76,
\* server.js 1965).
PageSettles ==
  /\ TabFair => T!TabIsCurrent
  /\ UnreadFair => U!ShownIsRead
  /\ CardsFair => C!BulkReports
  /\ DetailFair => D!FinallyWhole
  /\ ComposerFair => P!CommandAnswered

\* Every message waiting for a voice gets its turn, a stream nobody hears ends, a call holds
\* the audio session; what was dictated is settled and its indicator goes out; a gauge comes
\* alive, and idles when nobody looks (voice.js 248, talk.js 137, mic.js 91, sysload.js 277).
VoiceSettles ==
  /\ SpeechFair => S!EveryTurnComes /\ S!AbandonedEnds /\ S!SessionHeld
  /\ DictationFair => V!IndicatorGoesOut /\ V!TakeSettles
  /\ GaugesFair => G!ComesAlive /\ G!FinallyIdle /\ G!IndexingEnds
  /\ []G!IdleUnwatched
============================================================================

-------------------------------- MODULE Tab ---------------------------------
(***************************************************************************)
(* One open tab and one lieutenant's main chat.  The server announces each *)
(* change as a notice on an event stream and the tab fetches the board     *)
(* itself (src/ui/js/boardsync.js, main.js); a message the captain just    *)
(* sent is shown beside the board until its echo is on it (pending.js);    *)
(* what is older than the board's slice is paged in off the log (chat.js). *)
(*                                                                         *)
(* The log is append-only, so a board answer is the length of the log when *)
(* it was served and a page is known by the message it was asked before.   *)
(***************************************************************************)
EXTENDS Naturals, FiniteSets, Sequences, SequencesExt

CONSTANTS
  Text,          \* what the captain may type
  ChatTail, Page,    \* CHAT_TAIL and OLDER_PAGE
  Before,        \* messages in the log to begin with
  MaxLog,        \* bound: messages in the log
  Trouble,       \* what may happen besides: a change with no message, a restart,
                 \* a fault of the stream or of a request, a late echo's own fetch,
                 \* this conversation left, and come back to
  MaxTrouble,    \* bound: of them all together
  Repeats        \* whether he may send a text twice

ASSUME TabAssumption ==
  /\ ChatTail \in Nat \ {0} /\ Page \in Nat \ {0} /\ Repeats \in BOOLEAN
  /\ Trouble \subseteq {"change", "restart", "fault", "poll", "leave", "return"}
  /\ {Before, MaxLog, MaxTrouble} \subseteq Nat /\ "reply" \notin Text

VARIABLES
  log,      \* the conversation: a text of his, or Reply
  rev,      \* which broadcast, and of which boot of the server
  line,     \* the stream: open, down, or silent (half-open: nobody noticed)
  notices,  \* revisions announced and not yet delivered
  doc,      \* the board the tab holds, or NoDoc
  sync,     \* boardSync: want, force, inFlight, timer, and the gap still running
  asked,    \* its fetch: none, sent, lost, or back with the board served
  poll,     \* watchEcho's own fetch, the same
  failed,   \* history: whether the last fetch failed
  best,     \* history: the newest board ever held
  post,     \* the composer's POST: its text, and where its message landed
  pending,  \* bubbles shown beside the thread: what he sent, and where it landed
  taken,    \* history: messages of his the tab was told are delivered
  looking,  \* the panel shows this conversation
  older,    \* the pages merged in front: messages, done, loading, target is ours
  pages,    \* history requests on their way, by the message each asks before
  spent     \* how much of MaxTrouble
vars == <<log, rev, line, notices, doc, sync, asked, poll, failed, best, post, pending,
          taken, looking, older, pages, spent>>
serving == <<log, rev, line, notices>>
holding == <<doc, sync, asked, poll, failed, best>>
sending == <<post, pending, taken>>
paging  == <<looking, older, pages>>

Reply == "reply"
NoDoc == [boot |-> 0, rev |-> 0, n |-> 0]   \* boots count from 1
NoNotice == [boot |-> 0, rev |-> 0]
NoFetch == [st |-> "none", board |-> NoDoc]
NoPost == [st |-> "none", text |-> "none", at |-> 0]
NoPages == [msgs |-> <<>>, done |-> FALSE, loading |-> FALSE, ours |-> FALSE]

Init ==
  /\ log = [i \in 1..Before |-> Reply]
  /\ rev = [boot |-> 1, rev |-> 0]
  /\ line = "down" /\ notices = <<>> /\ doc = NoDoc
  /\ sync = [want |-> NoNotice, force |-> FALSE, busy |-> FALSE, timer |-> FALSE, gap |-> FALSE]
  /\ asked = NoFetch /\ poll = NoFetch /\ failed = FALSE /\ best = NoDoc
  /\ post = NoPost /\ pending = {} /\ taken = {}
  /\ looking \in BOOLEAN /\ older = NoPages /\ pages = <<>>
  /\ spent = 0

Spend(kind) == kind \in Trouble /\ spent < MaxTrouble /\ spent' = spent + 1
Board == [boot |-> rev.boot, rev |-> rev.rev, n |-> Len(log)]

--------------------------------------------------------------------------
(* boardSync                                                               *)
Behind(s, d) ==
  \/ s.force
  \/ /\ s.want # NoNotice
     /\ d.boot # s.want.boot \/ d.rev < s.want.rev

(* pump: a fetch starts, or one is scheduled for when the gap is over      *)
Pump(s, d) ==
  IF s.busy \/ s.timer \/ ~Behind(s, d) THEN s
  ELSE IF s.gap THEN [s EXCEPT !.timer = TRUE]
  ELSE [s EXCEPT !.busy = TRUE, !.force = FALSE, !.gap = TRUE]
Pumped(s, d) ==
  /\ sync' = Pump(s, d)
  /\ asked' = IF Pump(s, d).busy /\ ~s.busy THEN [st |-> "sent", board |-> NoDoc] ELSE asked

\* what the thread holds: the newest ChatTail messages of the board it came on
FirstIn(d) == IF d.n > ChatTail THEN d.n - ChatTail + 1 ELSE 1
Slice(d) == FirstIn(d)..d.n

(* pendingFor, run by every render: an entry goes once a message of the    *)
(* thread has its text                                                     *)
IsEcho(i, p) == log[i] = p.text
AnyBoardClears(ps, d) == {}
StillPending(ps, d) == {p \in ps : \A i \in Slice(d) : ~IsEcho(i, p)}

Announced(n) ==
  /\ rev' = [rev EXCEPT !.rev = @ + 1]
  /\ notices' = IF line = "open" THEN Append(notices, rev') ELSE notices
  /\ log' = n
  /\ UNCHANGED <<line, holding, paging>>

(* the server: a change with no message in it, and a lieutenant's reply    *)
Change ==
  /\ Spend("change") /\ Announced(log) /\ UNCHANGED sending
Replies ==
  /\ Len(log) < MaxLog /\ Announced(Append(log, Reply)) /\ UNCHANGED <<sending, spent>>

(* POST /api/feedback: the message, a save, a broadcast, then the 200      *)
Feedback ==
  /\ post.st = "sent" /\ Announced(Append(log, post.text))
  /\ post' = [post EXCEPT !.st = "taken", !.at = Len(log) + 1]
  /\ UNCHANGED <<pending, taken, spent>>

(* what was asked of the old server is never answered, its stream is cut,  *)
(* or stays half-open with nobody at the other end                         *)
Cut(request) == IF request.st = "sent" THEN [request EXCEPT !.st = "lost"] ELSE request
Restart ==
  /\ Spend("restart")
  /\ rev' = [boot |-> rev.boot + 1, rev |-> 0]
  /\ line' \in {"down", "silent"} /\ (line = "down" => line' = "down") /\ notices' = <<>>
  /\ asked' = Cut(asked) /\ poll' = Cut(poll) /\ post' = Cut(post)
  /\ UNCHANGED <<log, doc, sync, failed, best, pending, taken, paging>>

--------------------------------------------------------------------------
(* the stream                                                              *)
Breaks ==
  /\ line = "open" /\ Spend("fault")
  /\ line' \in {"down", "silent"} /\ notices' = <<>>
  /\ UNCHANGED <<log, rev, holding, sending, paging>>

(* EventSource retries by itself; onopen fetches whatever the revs say     *)
Opens ==
  /\ line = "down" /\ line' = "open" /\ notices' = <<>>
  /\ Pumped([sync EXCEPT !.force = TRUE], doc)
  /\ UNCHANGED <<log, rev, doc, poll, failed, best, sending, paging, spent>>

(* 40 s with not even a ping: torn down and opened again                   *)
Watchdog ==
  /\ line = "silent" /\ line' = "down"
  /\ UNCHANGED <<log, rev, notices, holding, sending, paging, spent>>

Notified ==
  /\ notices # <<>> /\ notices' = Tail(notices)
  /\ LET n == Head(notices)
         newer == sync.want = NoNotice \/ n.boot # sync.want.boot \/ n.rev > sync.want.rev
     IN Pumped([sync EXCEPT !.want = IF newer THEN n ELSE @], doc)
  /\ UNCHANGED <<log, rev, line, doc, poll, failed, best, sending, paging, spent>>

--------------------------------------------------------------------------
(* a fetch of /api/board: served, answered, or failed                      *)
ServeBoard ==
  /\ \/ asked.st = "sent" /\ asked' = [st |-> "back", board |-> Board] /\ UNCHANGED poll
     \/ poll.st = "sent" /\ poll' = [st |-> "back", board |-> Board] /\ UNCHANGED asked
  /\ UNCHANGED <<serving, doc, sync, failed, best, sending, paging, spent>>

Older(d, e) == d.boot < e.boot \/ (d.boot = e.boot /\ d.rev < e.rev)

(* S.doc = the answer, and the render: whatever it holds                   *)
Takes(d) == /\ doc' = d
            /\ best' = IF Older(best, d) THEN d ELSE best
            /\ pending' = StillPending(pending, d)
            /\ UNCHANGED <<post, taken>>

(* applyBoard, then pump again                                             *)
BoardCameNoPump ==
  /\ asked.st = "back" /\ Takes(asked.board) /\ failed' = FALSE
  /\ sync' = [sync EXCEPT !.busy = FALSE] /\ asked' = NoFetch
  /\ UNCHANGED <<serving, poll, paging, spent>>
BoardCame ==
  /\ asked.st = "back" /\ Takes(asked.board) /\ failed' = FALSE
  /\ LET s == [sync EXCEPT !.busy = FALSE]
     IN /\ sync' = Pump(s, asked.board)
        /\ asked' = IF Pump(s, asked.board).busy THEN [st |-> "sent", board |-> NoDoc] ELSE NoFetch
  /\ UNCHANGED <<serving, poll, paging, spent>>

(* a failed fetch forgets what it was chasing                              *)
Fails(request) ==
  \/ request.st = "lost" /\ UNCHANGED spent
  \/ request.st \in {"sent", "back", "taken"} /\ Spend("fault")
BoardFailed ==
  /\ Fails(asked) /\ asked' = NoFetch /\ failed' = TRUE
  /\ sync' = [sync EXCEPT !.want = NoNotice, !.force = FALSE, !.busy = FALSE]
  /\ UNCHANGED <<serving, doc, poll, best, sending, paging>>

GapOver ==
  /\ sync.gap
  /\ IF sync.timer THEN Pumped([sync EXCEPT !.gap = FALSE, !.timer = FALSE], doc)
     ELSE sync' = [sync EXCEPT !.gap = FALSE] /\ UNCHANGED asked
  /\ UNCHANGED <<serving, doc, poll, failed, best, sending, paging, spent>>

--------------------------------------------------------------------------
(* the composer: one POST at a time                                        *)
Send(t) ==
  /\ post = NoPost /\ looking /\ Len(log) < MaxLog
  /\ Repeats \/ t \notin ToSet(log)
  /\ post' = [st |-> "sent", text |-> t, at |-> 0]
  /\ UNCHANGED <<serving, holding, pending, taken, paging, spent>>

(* the 200 is delivery: a bubble and a render; the echo is watched for, and *)
(* a watch of an earlier send gives up                                     *)
Delivered ==
  /\ post.st = "taken" /\ post' = NoPost
  /\ taken' = taken \cup {post.at}
  /\ pending' = StillPending(pending \cup {[text |-> post.text, at |-> post.at]}, doc)
  /\ poll' = NoFetch
  /\ UNCHANGED <<serving, doc, sync, asked, failed, best, paging, spent>>

(* said to be not delivered, whatever the server made of it                *)
SendFails ==
  /\ Fails(post) /\ post' = NoPost
  /\ UNCHANGED <<serving, holding, pending, taken, paging>>

(* no echo of the last one sent for 3 s: one direct fetch, which boardSync *)
(* knows nothing of                                                        *)
LastSent == CHOOSE p \in pending : \A q \in pending : q.at <= p.at
Polls ==
  /\ poll = NoFetch /\ pending # {} /\ post = NoPost
  /\ ~\E i \in Slice(doc) : IsEcho(i, LastSent)
  /\ Spend("poll") /\ poll' = [st |-> "sent", board |-> NoDoc]
  /\ UNCHANGED <<serving, doc, sync, asked, failed, best, sending, paging>>
PollCame ==
  /\ poll.st = "back" /\ poll' = NoFetch /\ Takes(poll.board)
  /\ UNCHANGED <<serving, sync, asked, failed, paging, spent>>
PollFailed ==
  /\ Fails(poll) /\ poll' = NoFetch
  /\ UNCHANGED <<serving, doc, sync, asked, failed, best, sending, paging>>

--------------------------------------------------------------------------
(* older history                                                           *)
Run(a, b) == [k \in 1..(IF b < a THEN 0 ELSE b + 1 - a) |-> a + k - 1]
OnScreen == older.msgs \o Run(FirstIn(doc), doc.n)

(* he scrolls to the top: the page before the oldest message on screen     *)
LoadOlder ==
  /\ looking /\ ~older.loading /\ ~older.done /\ OnScreen # <<>> /\ Len(pages) < 2
  /\ pages' = Append(pages, Head(OnScreen))
  /\ older' = [older EXCEPT !.ours = TRUE, !.loading = TRUE]
  /\ UNCHANGED <<serving, holding, sending, looking, spent>>

PageFrom(b) == IF b > Page THEN b - Page ELSE 1
PageUpTo(b) == Run(PageFrom(b), b)
PageBefore(b) == Run(PageFrom(b), b - 1)
PageCame(k) ==
  /\ pages' = RemoveAt(pages, k)
  /\ older' = IF ~older.ours THEN older
              ELSE IF PageBefore(pages[k]) = <<>>
                   THEN [older EXCEPT !.loading = FALSE, !.done = TRUE]
              ELSE [older EXCEPT !.loading = FALSE, !.msgs = PageBefore(pages[k]) \o @]
  /\ UNCHANGED <<serving, holding, sending, looking, spent>>
PageFailed(k) ==
  /\ Spend("fault") /\ pages' = RemoveAt(pages, k)
  /\ older' = [older EXCEPT !.loading = FALSE]
  /\ UNCHANGED <<serving, holding, sending, looking>>

(* another conversation is shown, or this one again: the pages are dropped *)
Switch ==
  /\ Spend(IF looking THEN "leave" ELSE "return") /\ looking' = ~looking /\ older' = NoPages
  /\ UNCHANGED <<serving, holding, sending, pages>>

Next ==
  \/ Change \/ Replies \/ Feedback \/ Restart
  \/ Breaks \/ Opens \/ Watchdog \/ Notified
  \/ ServeBoard \/ BoardCame \/ BoardFailed \/ GapOver
  \/ (\E t \in Text : Send(t)) \/ Delivered \/ SendFails \/ Polls \/ PollCame \/ PollFailed
  \/ LoadOlder \/ Switch
  \/ \E k \in DOMAIN pages : PageCame(k) \/ PageFailed(k)

(* the browser retries a stream that is down, its watchdog looks at one    *)
(* that is silent, timers run out, and every request is answered or fails  *)
LostFails == asked.st = "lost" /\ BoardFailed
Fairness ==
  /\ WF_vars(Opens) /\ WF_vars(Watchdog) /\ WF_vars(Notified) /\ WF_vars(GapOver)
  /\ WF_vars(ServeBoard) /\ WF_vars(BoardCame) /\ WF_vars(LostFails)
Spec == Init /\ [][Next]_vars /\ Fairness

--------------------------------------------------------------------------
\* The state has its type, bounds included.
TypeOK ==
  /\ log \in Seq(Text \cup {Reply}) /\ Len(log) <= MaxLog + 1
  /\ line \in {"open", "down", "silent"} /\ (line # "open" => notices = <<>>)
  /\ asked.st \in {"none", "sent", "lost", "back"} /\ poll.st \in {"none", "sent", "lost", "back"}
  /\ sync.busy <=> asked # NoFetch
  /\ sync.timer => sync.gap
  /\ doc.n <= Len(log) /\ taken \subseteq 1..Len(log)

\* However notices, fetches, restarts and broken streams interleave, the tab
\* ends up holding the server's newest board, unless its last fetch failed
\* with nothing left to chase or a late poll put an older board back
\* (boardsync.js: a burst costs the fetch in flight plus one after it).
TabIsCurrent == <>[](line = "open" /\ (failed \/ doc # best \/ doc = Board))

\* From the 200 on, a message of the captain's is on screen or behind the top
\* of it: as a bubble until the board with its echo is held (pending.js).
NeverNowhere ==
  Older(doc, best) \/ \A i \in taken : i <= doc.n \/ \E p \in pending : p.at = i

\* The pages in front are one run of the log, each message once, and no
\* more is asked for only when they begin at its beginning (chat.js loadOlder).
PagesAreARun ==
  /\ \A k \in 2..Len(older.msgs) : older.msgs[k] = older.msgs[k - 1] + 1
  /\ older.done /\ older.msgs # <<>> => Head(older.msgs) = 1

\* So the conversation is whole: nothing sent is nowhere, nothing in front is skipped or twice.
ChatWhole == NeverNowhere /\ PagesAreARun

--------------------------------------------------------------------------
\* Not so: the tab never goes back to an older board than it held.
HeldForward == [][~Older(doc', doc)]_vars

\* Not so: every reopening of the stream brings the tab up to date.
ReopenedIsCurrent == <>[](doc # best \/ doc = Board)

\* Not so: what is on screen has no hole (the slice slides, the pages do not).
NoHole == \A k \in 2..Len(OnScreen) : OnScreen[k] = OnScreen[k - 1] + 1

\* Not so: a bubble goes once the board held is past its message.
NoGhost == \A p \in pending : p.at > doc.n
=============================================================================

------------------------------- MODULE Unread -------------------------------
(***************************************************************************)
(* What the captain has not seen yet, on one card and his devices.  The    *)
(* server keeps one read marker per thread and, for events, a floor and a  *)
(* set picked above it (src/server/server.js userReads, notificationItems, *)
(* wireCard); a device showing the card posts that it was read (markRead   *)
(* of src/ui/js/chat.js, maybeMarkCardRead of detail.js) and counts its    *)
(* bell off the trimmed board it holds (state.js).                         *)
(***************************************************************************)
EXTENDS Naturals, FiniteSets, Sequences

CONSTANTS
  Device,
  Wire,      \* WIRE_CARD_EVENTS: how many events of a card a board carries
  MaxLog,    \* bound: replies and events
  MaxClock,  \* bound: the clock that stamps them
  MaxFail    \* bound: posts that fail

UnreadAssumption == {Wire, MaxLog, MaxClock, MaxFail} \subseteq Nat

VARIABLES
  clock,
  log,      \* the card: replies in its thread and level-1 events, [kind, ts]
  marker,   \* reads.threads[card]
  floor, picked,   \* notifSeq, notifSeqs; an event's seq is its place in the log
  stale,    \* devices a broadcast has told to fetch
  fetch,    \* the board on its way to a device, or NoBoard
  doc,      \* the board a device holds
  open,     \* where a device shows the card: nowhere, the chat panel, the detail
  marked,   \* the newest stamp each surface already posted for, 0 for none
  post,     \* how many posts of each are on their way
  seen,     \* history: how much of the log a device ever showed him open
  failed    \* history: how many posts of each failed
vars == <<clock, log, marker, floor, picked, stale, fetch, doc, open, marked, post, seen, failed>>
server == <<clock, log, marker, floor, picked>>
device == <<fetch, doc, open, marked, post>>

Surface == {"chat", "detail"}
Entry == [kind : {"reply", "event"}, ts : 1..MaxClock]
BoardType == [n : 0..MaxLog, marker : 0..MaxClock, floor : 0..MaxLog, picked : SUBSET (1..MaxLog),
              unread : BOOLEAN, omitted : 0..MaxLog]
NoBoard == [n |-> 0, marker |-> 0, floor |-> 0, picked |-> {}, unread |-> FALSE, omitted |-> 0]

None == [w \in Surface |-> 0]

TypeOK ==
  /\ clock \in 1..MaxClock /\ marker \in 0..MaxClock /\ floor \in 0..MaxLog
  /\ log \in Seq(Entry) /\ Len(log) <= MaxLog /\ picked \subseteq 1..MaxLog
  /\ stale \subseteq Device
  /\ fetch \in [Device -> BoardType] /\ doc \in [Device -> BoardType]
  /\ open \in [Device -> Surface \cup {"no"}]
  /\ marked \in [Device -> [Surface -> 0..MaxClock]] /\ post \in [Device -> [Surface -> Nat]]
  /\ seen \in 0..MaxLog /\ failed \in [Device -> [Surface -> 0..MaxFail]]

Init ==
  /\ clock = 1 /\ log = << >> /\ marker = 0 /\ floor = 0 /\ picked = {}
  /\ stale = {} /\ fetch = [d \in Device |-> NoBoard] /\ doc = [d \in Device |-> NoBoard]
  /\ open = [d \in Device |-> "no"] /\ marked = [d \in Device |-> None]
  /\ post = [d \in Device |-> None] /\ seen = 0 /\ failed = [d \in Device |-> None]

-----------------------------------------------------------------------------
(* The server                                                              *)

Of(kind, n) == {i \in 1..n : log[i].kind = kind}
Newest(S) == IF S = {} THEN 0 ELSE CHOOSE t \in S : \A u \in S : u <= t
\* The newest Wire events of the first n entries: what a board of that length carries.
Carried(n) == {i \in Of("event", n) : Cardinality({j \in Of("event", n) : j > i}) < Wire}

UnreadEvents(n, fl, pk) == {i \in Of("event", n) : i > fl /\ i \notin pk}
UnreadReplies(n, mk) == {i \in Of("reply", n) : log[i].ts > mk}

\* notificationItems, over the whole history.
Bell == Cardinality(UnreadEvents(Len(log), floor, picked) \cup UnreadReplies(Len(log), marker))

OmittedPicked == Cardinality({i \in Of("event", Len(log)) \ Carried(Len(log)) : i > floor})  \* (a mutant's)
\* The unread events the cut left out, counted for the badge.
Omitted == Cardinality(UnreadEvents(Len(log), floor, picked) \ Carried(Len(log)))
CardUnread == \E i \in DOMAIN log : log[i].ts > marker
Board == [n |-> Len(log), marker |-> marker, floor |-> floor, picked |-> picked,
          unread |-> CardUnread, omitted |-> Omitted]

Broadcast == stale' = Device
Lands(kind) ==
  /\ Len(log) < MaxLog
  /\ log' = Append(log, [kind |-> kind, ts |-> clock])
  /\ Broadcast
  /\ UNCHANGED <<clock, marker, floor, picked, device, seen, failed>>

Ticks == /\ clock < MaxClock /\ clock' = clock + 1
         /\ UNCHANGED <<log, marker, floor, picked, stale, device, seen, failed>>

\* Clearing is reading: the replies go with the thread's marker.
MarkAll ==
  /\ floor' = Len(log) /\ picked' = {}
  /\ marker' = IF UnreadReplies(Len(log), marker) # {} THEN clock ELSE marker
  /\ Broadcast
  /\ UNCHANGED <<clock, log, device, seen, failed>>

\* An item clicked, off the board of the device he clicks it on.
MarkOne(d) ==
  \E i \in UnreadEvents(doc[d].n, doc[d].floor, doc[d].picked) \cap Carried(doc[d].n) :
    /\ picked' = IF i > floor THEN picked \cup {i} ELSE picked
    /\ Broadcast
    /\ UNCHANGED <<clock, log, marker, floor, device, seen, failed>>

-----------------------------------------------------------------------------
(* A device                                                                *)

Activity(b) == Newest({log[i].ts : i \in 1..b.n})

\* One post per newest stamp.  The chat panel applies the marker itself, for the server
\* broadcasts none; the detail waits for the next board.
Due(d, b, where) == where # "no" /\ b.unread /\ marked[d][where] # Activity(b)
Applied(b) == [b EXCEPT !.unread = FALSE, !.marker = IF @ < Activity(b) THEN Activity(b) ELSE @]
Shows(d, b, where) ==
  /\ open' = [open EXCEPT ![d] = where]
  /\ seen' = IF where # "no" /\ b.n > seen THEN b.n ELSE seen
  /\ IF Due(d, b, where)
       THEN /\ marked' = [marked EXCEPT ![d][where] = Activity(b)]
            /\ post' = [post EXCEPT ![d][where] = @ + 1]
            /\ doc' = [doc EXCEPT ![d] = IF where = "chat" THEN Applied(b) ELSE b]
       ELSE doc' = [doc EXCEPT ![d] = b] /\ UNCHANGED <<marked, post>>

Fetches(d) ==
  /\ d \in stale /\ fetch[d] = NoBoard
  /\ stale' = stale \ {d} /\ fetch' = [fetch EXCEPT ![d] = Board]
  /\ UNCHANGED <<server, doc, open, marked, post, seen, failed>>
BoardCame(d) ==
  /\ fetch[d] # NoBoard /\ fetch' = [fetch EXCEPT ![d] = NoBoard]
  /\ Shows(d, fetch[d], open[d])
  /\ UNCHANGED <<server, stale, failed>>
Opens(d) ==
  /\ open[d] = "no" /\ \E where \in Surface : Shows(d, doc[d], where)
  /\ UNCHANGED <<server, stale, fetch, failed>>
Closes(d) ==
  /\ open[d] # "no" /\ open' = [open EXCEPT ![d] = "no"]
  /\ UNCHANGED <<server, stale, fetch, doc, marked, post, seen, failed>>
\* The minute's render.
Renders(d) ==
  /\ Due(d, doc[d], open[d]) /\ Shows(d, doc[d], open[d])
  /\ UNCHANGED <<server, stale, fetch, failed>>

\* The post carries no stamp: the server reads the clock, and broadcasts nothing.
PostLands(d, w) ==
  /\ post[d][w] > 0 /\ post' = [post EXCEPT ![d][w] = @ - 1]
  /\ marker' = clock
  /\ UNCHANGED <<clock, log, floor, picked, stale, fetch, doc, open, marked, seen, failed>>
KeptMark(d, w) == marked                              \* (a mutant's)
Forgotten(d, w) == [marked EXCEPT ![d][w] = 0]
PostFails(d, w) ==
  /\ post[d][w] > 0 /\ post' = [post EXCEPT ![d][w] = @ - 1]
  /\ failed[d][w] < MaxFail /\ failed' = [failed EXCEPT ![d][w] = @ + 1]
  /\ marked' = Forgotten(d, w)
  /\ UNCHANGED <<server, stale, fetch, doc, open, seen>>

Next ==
  \/ \E kind \in {"reply", "event"} : Lands(kind)
  \/ Ticks \/ MarkAll
  \/ \E d \in Device : \/ MarkOne(d) \/ Fetches(d) \/ BoardCame(d) \/ Opens(d) \/ Closes(d)
                       \/ Renders(d) \/ \E w \in Surface : PostLands(d, w) \/ PostFails(d, w)

\* A told device fetches and is answered, a page renders every minute, a request ends.
Fairness == \A d \in Device : /\ WF_vars(Fetches(d)) /\ WF_vars(BoardCame(d))
                              /\ WF_vars(Renders(d))
                              /\ \A w \in Surface : WF_vars(PostLands(d, w) \/ PostFails(d, w))
Spec == Init /\ [][Next]_vars /\ Fairness

-----------------------------------------------------------------------------
(* Properties                                                              *)

\* The badge of a device that holds the board as it is rings exactly as loud as the whole
\* history, whatever the cut left out ("a trimmed board rings exactly as loud as the
\* whole one"): two derivations, one over all of it, one over the newest and a count.
Badge(b) == b.omitted + Cardinality(
  (UnreadEvents(b.n, b.floor, b.picked) \cap Carried(b.n)) \cup UnreadReplies(b.n, b.marker))
BellAgrees ==
  \A d \in Device :
    (doc[d].n = Len(log) /\ doc[d].marker = marker /\ doc[d].floor = floor /\ doc[d].picked = picked)
      => Badge(doc[d]) = Bell

\* What a device shows him is read, on the board, as long as he keeps it open, whatever
\* posts of the detail fail; and of the chat panel's if none does.
Unread(i) == i \in DOMAIN log /\ log[i].ts > marker
Retried(d, w, i) == (open[d] = w /\ i <= doc[d].n) ~> (open[d] # w \/ ~Unread(i))
ShownIsRead ==
  \A d \in Device : \A w \in Surface : \A i \in 1..MaxLog :
    (open[d] = w /\ i <= doc[d].n) ~> (open[d] # w \/ ~Unread(i) \/ failed[d]["chat"] > 0)

\* (Fails) "a failed POST forgets it so the next render retries": the panel has already
\* told its own board the card is read, and the next render finds nothing to retry.
RetriedByRender == \A d \in Device : \A i \in 1..MaxLog : Retried(d, "chat", i)

\* (Fails) "The bell: everything the captain hasn't seen yet": the marker is the server's
\* clock, and covers a reply that landed after the board he was looking at.
ReadWasSeen == \A i \in DOMAIN log : log[i].kind = "reply" /\ log[i].ts <= marker => i <= seen
=============================================================================

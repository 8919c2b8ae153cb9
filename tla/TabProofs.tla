----------------------------- MODULE TabProofs ------------------------------
(***************************************************************************)
(* Theorems about module Tab, for every value of its constants: what the   *)
(* captain sent is never nowhere, and the pages in front of the thread are *)
(* one run of the log.                                                     *)
(***************************************************************************)
EXTENDS Tab, SequenceTheorems, TLAPS

Boards == [boot : Nat, rev : Nat, n : Nat]

\* Boards of two times are ordered by their revisions as by their messages.
InOrder(d, e) == d.n > e.n => Older(e, d)

PostOK ==
  /\ post \in [st : {"none", "sent", "lost", "taken"}, text : Text \cup {"none"}, at : Nat]
  /\ post.st \in {"sent", "taken"} => post.text \in Text

Held == {NoDoc, doc, best, asked.board, poll.board}

\* What the tab holds, or is on its way to it, was the server's board once.
BoardsInv ==
  /\ log \in Seq(Text \cup {Reply})
  /\ rev \in [boot : Nat \ {0}, rev : Nat]
  /\ \A d \in Held : d \in Boards /\ InOrder(Board, d) /\ d.n <= Len(log) /\ ~Older(Board, d)
  /\ \A d, e \in Held : InOrder(d, e)
  /\ ~Older(best, doc)
  /\ PostOK

\* Where a text stands in the log, it stands once, and who waits for it knows where.
TextsInv ==
  /\ \A i, j \in 1..Len(log) : log[i] = log[j] /\ log[i] \in Text => i = j
  /\ post.st = "sent" => \A i \in 1..Len(log) : log[i] # post.text
  /\ post.st = "taken" => post.at \in 1..Len(log) /\ log[post.at] = post.text
  /\ \A p \in pending : p.at \in 1..Len(log) /\ log[p.at] = p.text /\ p.text \in Text
  /\ taken \subseteq Nat
  /\ \A i \in taken : i <= best.n \/ \E p \in pending : p.at = i

-----------------------------------------------------------------------------
(* The boards.                                                             *)

LEMMA OlderIsOrder ==
  ASSUME NEW d \in Boards, NEW e \in Boards
  PROVE  /\ ~(Older(d, e) /\ Older(e, d))
         /\ InOrder(d, e) /\ InOrder(e, d) /\ ~Older(d, e) => e.n <= d.n
BY DEF Boards, Older, InOrder

LEMMA BoardIsBoard == BoardsInv => Board \in Boards
BY DEF BoardsInv, Board, Boards

LEMMA BoardsInit == Init => BoardsInv
<1> SUFFICES ASSUME Init PROVE BoardsInv
  OBVIOUS
<1>1. log \in Seq(Text \cup {Reply}) /\ Len(log) = Before /\ Before \in Nat
  BY TabAssumption DEF Init
<1>2. Held = {NoDoc}
  BY DEF Init, Held, NoFetch
<1>3. NoDoc \in Boards /\ NoDoc.n = 0 /\ NoDoc.boot = 0
  BY DEF NoDoc, Boards
<1>4. rev \in [boot : Nat \ {0}, rev : Nat] /\ rev.boot = 1
  BY DEF Init
<1>5. InOrder(Board, NoDoc) /\ ~Older(Board, NoDoc) /\ InOrder(NoDoc, NoDoc) /\ ~Older(NoDoc, NoDoc)
  BY <1>3, <1>4 DEF InOrder, Older, Board, NoDoc
<1>6. ~Older(best, doc) /\ PostOK
  BY <1>5 DEF Init, NoPost, PostOK
<1> QED BY <1>1, <1>2, <1>3, <1>4, <1>5, <1>6 DEF BoardsInv

\* The server moves on: its board is newer than every one held.
LEMMA ServerMoves ==
  ASSUME BoardsInv, UNCHANGED <<doc, best>>,
         asked'.board = asked.board, poll'.board = poll.board,
         log' \in Seq(Text \cup {Reply}), Len(log) <= Len(log'),
         rev' \in [boot : Nat \ {0}, rev : Nat],
         rev'.boot > rev.boot \/ (rev'.boot = rev.boot /\ rev'.rev > rev.rev),
         PostOK'
  PROVE  BoardsInv'
<1>1. Held' = Held
  BY DEF Held
<1>2. ASSUME NEW d \in Held
      PROVE  d \in Boards /\ InOrder(Board', d) /\ d.n <= Len(log') /\ ~Older(Board', d)
  <2>1. d \in Boards /\ d.n <= Len(log) /\ ~Older(Board, d)
    BY DEF BoardsInv
  <2>2. Len(log) \in Nat /\ Len(log') \in Nat
    BY DEF BoardsInv
  <2>3. Board.boot = rev.boot /\ Board.rev = rev.rev /\ Board'.boot = rev'.boot /\ Board'.rev = rev'.rev
    BY DEF Board
  <2>4. rev.boot \in Nat /\ rev.rev \in Nat /\ rev'.boot \in Nat /\ rev'.rev \in Nat
        /\ d.boot \in Nat /\ d.rev \in Nat
    BY <2>1 DEF BoardsInv, Boards
  <2>5. d.boot < rev.boot \/ (d.boot = rev.boot /\ d.rev <= rev.rev)
    BY <2>1, <2>3, <2>4 DEF Older
  <2>6. Older(d, Board') /\ ~Older(Board', d)
    BY <2>3, <2>4, <2>5 DEF Older
  <2> QED BY <2>1, <2>2, <2>6 DEF InOrder, Boards
<1> QED BY <1>1, <1>2 DEF BoardsInv

\* The server stands still: the tab rearranges what it holds, or is served the board of now.
LEMMA TabMoves ==
  ASSUME BoardsInv, UNCHANGED <<log, rev>>,
         Held' \subseteq Held \cup {Board}, ~Older(best', doc'),
         PostOK'
  PROVE  BoardsInv'
<1>1. Board' = Board /\ Board \in Boards
  BY BoardIsBoard DEF Board
<1>2. InOrder(Board, Board) /\ ~Older(Board, Board) /\ Board.n = Len(log) /\ Len(log) \in Nat
  BY <1>1 DEF Board, InOrder, Older, Boards, BoardsInv
<1>3. ASSUME NEW d \in Held PROVE InOrder(d, Board)
  BY <1>2, d.n <= Len(log), d \in Boards DEF BoardsInv, InOrder, Boards
<1>4. \A d \in Held' : d \in Boards /\ InOrder(Board, d) /\ d.n <= Len(log) /\ ~Older(Board, d)
  BY <1>1, <1>2 DEF BoardsInv
<1>5. \A d, e \in Held' : InOrder(d, e)
  BY <1>2, <1>3 DEF BoardsInv
<1> QED BY <1>1, <1>4, <1>5 DEF BoardsInv

LEMMA ReadingsKept ==
  ASSUME BoardsInv, NEW d \in Held
  PROVE  ~Older(IF Older(best, d) THEN d ELSE best, d)
<1>1. d \in Boards /\ best \in Boards
  BY DEF BoardsInv, Held
<1> QED BY <1>1 DEF Older, Boards

LEMMA BoardsNext == BoardsInv /\ [Next]_vars => BoardsInv'
<1> SUFFICES ASSUME BoardsInv, [Next]_vars PROVE BoardsInv'
  OBVIOUS
<1> USE DEF serving, holding, sending, paging
<1>1. PostOK /\ log \in Seq(Text \cup {Reply})
      /\ Len(log) \in Nat /\ rev.boot \in Nat \ {0} /\ rev.rev \in Nat
      /\ rev \in [boot : Nat \ {0}, rev : Nat]
  BY DEF BoardsInv
<1>2. doc \in Held /\ best \in Held /\ asked.board \in Held /\ poll.board \in Held /\ NoDoc \in Held
  BY DEF Held
<1>3. ~Older(best, doc) /\ (post' = post => PostOK')
  BY <1>1 DEF BoardsInv, PostOK
<1>4. ASSUME UNCHANGED <<log, rev, doc, best>>, PostOK',
             asked'.board \in Held \cup {Board}, poll'.board \in Held \cup {Board}
      PROVE  BoardsInv'
  <2>1. Held' \subseteq Held \cup {Board} /\ ~Older(best', doc')
    BY <1>3, <1>4 DEF Held
  <2> QED BY <1>4, <2>1, TabMoves
<1>5. CASE Change
  <2>1. rev' = [rev EXCEPT !.rev = @ + 1] /\ log' = log /\ UNCHANGED <<holding, sending>>
    BY <1>5 DEF Change, Announced
  <2> QED BY <1>1, <1>3, <2>1, ServerMoves
<1>6. CASE Replies
  <2>1. rev' = [rev EXCEPT !.rev = @ + 1] /\ log' = Append(log, Reply) /\ UNCHANGED <<holding, sending>>
    BY <1>6 DEF Replies, Announced
  <2>2. log' \in Seq(Text \cup {Reply}) /\ Len(log') = Len(log) + 1
    BY <1>1, <2>1
  <2> QED BY <1>1, <1>3, <2>1, <2>2, ServerMoves
<1>7. CASE Feedback
  <2>1. rev' = [rev EXCEPT !.rev = @ + 1] /\ log' = Append(log, post.text) /\ UNCHANGED holding
        /\ post.st = "sent" /\ post' = [post EXCEPT !.st = "taken", !.at = Len(log) + 1]
    BY <1>7 DEF Feedback, Announced
  <2>2. post.text \in Text
    BY <1>1, <2>1 DEF PostOK
  <2>3. log' \in Seq(Text \cup {Reply}) /\ Len(log') = Len(log) + 1
    BY <1>1, <2>1, <2>2
  <2>4. post'.st = "taken" /\ post'.text = post.text /\ post'.at = Len(log) + 1
        /\ post' = [st |-> "taken", text |-> post.text, at |-> Len(log) + 1]
    BY <1>1, <2>1 DEF PostOK
  <2>5. PostOK'
    BY <1>1, <2>2, <2>4 DEF PostOK
  <2> QED BY <1>1, <2>1, <2>3, <2>5, ServerMoves
<1>8. CASE Restart
  <2>1. rev' = [boot |-> rev.boot + 1, rev |-> 0] /\ UNCHANGED <<log, doc, best>>
        /\ asked'.board = asked.board /\ poll'.board = poll.board /\ PostOK'
    BY <1>1, <1>8 DEF Restart, Cut, PostOK
  <2> QED BY <1>1, <2>1, ServerMoves
<1>9. ASSUME NEW s, NEW d, Pumped(s, d) PROVE asked'.board \in Held
  BY <1>2, <1>9 DEF Pumped
<1>10. CASE Breaks \/ Watchdog \/ LoadOlder \/ Switch \/ \E k \in DOMAIN pages : PageCame(k) \/ PageFailed(k)
  <2>1. UNCHANGED <<log, rev, doc, best, asked, poll, post>>
    BY <1>10 DEF Breaks, Watchdog, LoadOlder, Switch, PageCame, PageFailed
  <2> QED BY <1>2, <1>3, <1>4, <2>1
<1>11. CASE Opens \/ Notified \/ GapOver
  <2>1. UNCHANGED <<log, rev, doc, best, poll, post>> /\ asked'.board \in Held
    BY <1>2, <1>9, <1>11 DEF Opens, Notified, GapOver
  <2> QED BY <1>2, <1>3, <1>4, <2>1
<1>12. CASE ServeBoard \/ BoardFailed \/ Polls \/ PollFailed
  <2>1. UNCHANGED <<log, rev, doc, best, post>>
        /\ asked'.board \in Held \cup {Board} /\ poll'.board \in Held \cup {Board}
    BY <1>2, <1>12 DEF ServeBoard, BoardFailed, Polls, PollFailed, NoFetch
  <2> QED BY <1>3, <1>4, <2>1
<1>13. CASE Delivered \/ SendFails \/ \E t \in Text : Send(t)
  <2>1. UNCHANGED <<log, rev, doc, best>> /\ PostOK'
        /\ asked'.board \in Held /\ poll'.board \in Held
    BY <1>2, <1>13 DEF Delivered, SendFails, Send, NoPost, NoFetch, PostOK
  <2> QED BY <1>4, <2>1
<1>14. ASSUME NEW d \in Held, Takes(d), UNCHANGED <<log, rev>>,
              asked'.board \in Held, poll'.board \in Held
       PROVE  BoardsInv'
  <2>1. doc' = d /\ best' = (IF Older(best, d) THEN d ELSE best) /\ post' = post
    BY <1>14 DEF Takes
  <2>2. ~Older(best', doc')
    BY <2>1, <1>14, ReadingsKept
  <2>3. Held' \subseteq Held
    BY <1>2, <1>14, <2>1 DEF Held
  <2> QED BY <1>3, <1>14, <2>1, <2>2, <2>3, TabMoves
<1>15. CASE BoardCame
  <2>1. Takes(asked.board) /\ UNCHANGED <<log, rev, poll>> /\ asked'.board \in Held
    BY <1>2, <1>15 DEF BoardCame, NoFetch
  <2> QED BY <1>2, <1>14, <2>1
<1>16. CASE PollCame
  <2>1. Takes(poll.board) /\ UNCHANGED <<log, rev, asked>> /\ poll'.board \in Held
    BY <1>2, <1>16 DEF PollCame, NoFetch
  <2> QED BY <1>2, <1>14, <2>1
<1>17. CASE UNCHANGED vars
  BY <1>2, <1>3, <1>4, <1>17 DEF vars
<1> QED BY <1>5, <1>6, <1>7, <1>8, <1>10, <1>11, <1>12, <1>13, <1>15, <1>16, <1>17 DEF Next

-----------------------------------------------------------------------------
(* What was sent.                                                          *)

\* A bubble a board clears is behind the end of that board.
LEMMA ClearedIsOnTheBoard ==
  ASSUME BoardsInv, NEW d \in Held, NEW ps,
         \A i, j \in 1..Len(log) : log[i] = log[j] /\ log[i] \in Text => i = j,
         \A p \in ps : p.at \in 1..Len(log) /\ log[p.at] = p.text /\ p.text \in Text,
         NEW p \in ps, p \notin StillPending(ps, d)
  PROVE  p.at <= d.n
<1>1. d.n \in Nat /\ d.n <= Len(log) /\ Len(log) \in Nat
  BY DEF BoardsInv, Boards
<1>2. PICK i \in Slice(d) : log[i] = p.text
  BY DEF StillPending, IsEcho
<1>3. FirstIn(d) \in Nat \ {0}
  BY <1>1, TabAssumption DEF FirstIn
<1>4. i \in 1..Len(log) /\ i <= d.n
  BY <1>1, <1>2, <1>3 DEF Slice
<1> QED BY <1>2, <1>4

LEMMA TextsInit == Init => TextsInv
<1> SUFFICES ASSUME Init PROVE TextsInv
  OBVIOUS
<1>1. Len(log) = Before /\ \A i \in 1..Len(log) : log[i] = Reply
  BY TabAssumption DEF Init
<1> QED BY <1>1, TabAssumption DEF Init, TextsInv, NoPost, Reply

\* A board is taken in: what leaves the bubbles is on it.
LEMMA BoardTaken ==
  ASSUME BoardsInv, TextsInv, NEW d \in Held, Takes(d), log' = log
  PROVE  TextsInv'
<1>1. doc' = d /\ best' = (IF Older(best, d) THEN d ELSE best) /\ UNCHANGED <<post, taken>>
      /\ pending' = StillPending(pending, d)
  BY DEF Takes
<1>2. d \in Boards /\ best \in Boards /\ InOrder(d, best) /\ InOrder(best, d)
  BY DEF BoardsInv, Held
<1>3. d.n <= best'.n /\ best.n <= best'.n /\ d.n \in Nat /\ best.n \in Nat /\ best'.n \in Nat
  BY <1>1, <1>2, OlderIsOrder DEF Boards
<1>4. ASSUME NEW i \in taken PROVE i <= best'.n \/ \E p \in pending' : p.at = i
  <2>1. CASE i <= best.n
    BY <1>3, <2>1 DEF TextsInv
  <2>2. ASSUME NEW p \in pending, p.at = i PROVE i <= best'.n \/ \E q \in pending' : q.at = i
    <3>1. CASE p \in pending'
      BY <2>2, <3>1
    <3>2. CASE p \notin pending'
      <4>1. p.at <= d.n
        BY <1>1, <3>2, ClearedIsOnTheBoard DEF TextsInv
      <4> QED BY <1>3, <2>2, <4>1 DEF TextsInv
    <3> QED BY <3>1, <3>2
  <2> QED BY <2>1, <2>2 DEF TextsInv
<1>5. \A p \in pending' : p \in pending
  BY <1>1 DEF StillPending
<1> QED BY <1>1, <1>4, <1>5 DEF TextsInv

\* The log may have grown, by something that is none of the texts it holds.
LEMMA NothingSettled ==
  ASSUME BoardsInv, TextsInv, UNCHANGED <<best, pending, taken>>,
         log' = log \/ \E x \in Text \cup {Reply} :
                         log' = Append(log, x) /\ (x = Reply \/ \A i \in 1..Len(log) : log[i] # x),
         post'.st = "sent" => post'.text \in Text /\ \A i \in 1..Len(log') : log'[i] # post'.text,
         post'.st = "taken" => post'.at \in 1..Len(log') /\ log'[post'.at] = post'.text
  PROVE  TextsInv'
<1>1. log \in Seq(Text \cup {Reply}) /\ Reply \notin Text
  BY TabAssumption DEF BoardsInv, Reply
<1>2. CASE log' = log
  BY <1>2 DEF TextsInv
<1>3. ASSUME NEW x \in Text \cup {Reply}, log' = Append(log, x),
             x = Reply \/ \A i \in 1..Len(log) : log[i] # x
      PROVE  TextsInv'
  <2>1. Len(log') = Len(log) + 1 /\ log'[Len(log) + 1] = x /\ Len(log) \in Nat
        /\ \A i \in 1..Len(log) : log'[i] = log[i]
    BY <1>1, <1>3
  <2>2. ASSUME NEW i \in 1..Len(log'), NEW j \in 1..Len(log'), log'[i] = log'[j], log'[i] \in Text
        PROVE  i = j
    <3>1. i \in 1..Len(log) \/ i = Len(log) + 1
      BY <2>1
    <3>2. j \in 1..Len(log) \/ j = Len(log) + 1
      BY <2>1
    <3> QED BY <1>1, <1>3, <2>1, <2>2, <3>1, <3>2 DEF TextsInv
  <2>3. ASSUME NEW p \in pending
        PROVE  p.at \in 1..Len(log') /\ log'[p.at] = p.text /\ p.text \in Text
    <3>1. p.at \in 1..Len(log) /\ log[p.at] = p.text /\ p.text \in Text
      BY DEF TextsInv
    <3> QED BY <2>1, <3>1
  <2> QED BY <2>2, <2>3 DEF TextsInv
<1> QED BY <1>2, <1>3

LEMMA TextsNext == ~Repeats /\ BoardsInv /\ TextsInv /\ [Next]_vars => TextsInv'
<1> SUFFICES ASSUME ~Repeats, BoardsInv, TextsInv, [Next]_vars PROVE TextsInv'
  OBVIOUS
<1> USE DEF serving, holding, sending, paging
<1>1. PostOK /\ log \in Seq(Text \cup {Reply}) /\ Len(log) \in Nat /\ Reply \notin Text
  BY TabAssumption DEF BoardsInv, Reply
<1>2. doc \in Held /\ best \in Held /\ asked.board \in Held /\ poll.board \in Held
  BY DEF Held
<1>3. ASSUME UNCHANGED <<log, best, pending, taken>>,
             post' = post \/ post'.st \notin {"sent", "taken"}
      PROVE  TextsInv'
  BY <1>3 DEF TextsInv
<1>4. CASE Change \/ Breaks \/ Opens \/ Watchdog \/ Notified \/ GapOver
           \/ ServeBoard \/ BoardFailed \/ Polls \/ PollFailed \/ LoadOlder \/ Switch
  <2>1. UNCHANGED <<log, best, pending, taken, post>>
    BY <1>4 DEF Change, Announced, Breaks, Opens, Watchdog, Notified, GapOver,
                ServeBoard, BoardFailed, Polls, PollFailed, LoadOlder, Switch
  <2> QED BY <1>3, <2>1
<1>12. ASSUME NEW k \in DOMAIN pages, PageCame(k) \/ PageFailed(k) PROVE TextsInv'
  BY <1>3, <1>12 DEF PageCame, PageFailed
<1>13. CASE Restart
  <2>1. UNCHANGED <<log, best, pending, taken>> /\ post' = Cut(post)
    BY <1>13 DEF Restart
  <2>2. post' = post \/ post'.st = "lost"
    BY <1>1, <2>1 DEF Cut, PostOK
  <2> QED BY <1>3, <2>1, <2>2
<1>14. CASE SendFails
  BY <1>3, <1>14 DEF SendFails, NoPost
<1>5. CASE Replies
  <2>1. log' = Append(log, Reply) /\ UNCHANGED <<best, pending, taken, post>>
    BY <1>5 DEF Replies, Announced
  <2>2. Len(log') = Len(log) + 1 /\ log'[Len(log) + 1] = Reply
        /\ \A i \in 1..Len(log) : log'[i] = log[i]
    BY <1>1, <2>1
  <2>3. post.st = "sent" => post.text \in Text /\ \A i \in 1..Len(log') : log'[i] # post.text
    <3> SUFFICES ASSUME post.st = "sent", NEW i \in 1..Len(log') 
                 PROVE  post.text \in Text /\ log'[i] # post.text
      BY <1>1 DEF PostOK
    <3>1. post.text \in Text /\ \A j \in 1..Len(log) : log[j] # post.text
      BY <1>1 DEF PostOK, TextsInv
    <3> QED BY <1>1, <2>2, <3>1
  <2>4. post.st = "taken" => post.at \in 1..Len(log') /\ log'[post.at] = post.text
    BY <1>1, <2>2 DEF TextsInv
  <2> QED BY <2>1, <2>3, <2>4, NothingSettled
<1>6. CASE Feedback
  <2>1. /\ post.st = "sent" /\ log' = Append(log, post.text) /\ UNCHANGED <<best, pending, taken>>
        /\ post' = [post EXCEPT !.st = "taken", !.at = Len(log) + 1]
    BY <1>6 DEF Feedback, Announced
  <2>2. post.text \in Text /\ \A i \in 1..Len(log) : log[i] # post.text
    BY <1>1, <2>1 DEF TextsInv, PostOK
  <2>3. post'.at = Len(log) + 1 /\ Len(log') = Len(log) + 1 /\ log'[Len(log) + 1] = post.text
    BY <1>1, <2>1, <2>2 DEF PostOK
  <2>4. post'.st = "taken" /\ post'.text = post.text
    BY <1>1, <2>1 DEF PostOK
  <2>5. post'.at \in 1..Len(log') /\ log'[post'.at] = post'.text
    BY <1>1, <2>3, <2>4
  <2> QED BY <2>1, <2>2, <2>4, <2>5, NothingSettled
<1>7. ASSUME NEW t \in Text, Send(t) PROVE TextsInv'
  <2>1. /\ UNCHANGED <<log, best, pending, taken>> /\ t \notin ToSet(log)
        /\ post' = [st |-> "sent", text |-> t, at |-> 0]
    BY <1>7 DEF Send
  <2>2. \A i \in 1..Len(log) : log[i] # t
    BY <1>1, <2>1 DEF ToSet
  <2> QED BY <2>1, <2>2, NothingSettled
<1>8. CASE Delivered
  <2> DEFINE bubble == [text |-> post.text, at |-> post.at]
             shown == pending \cup {bubble}
  <2>1. /\ post.st = "taken" /\ post' = NoPost /\ UNCHANGED <<log, best>>
        /\ taken' = taken \cup {post.at} /\ pending' = StillPending(shown, doc)
    BY <1>8 DEF Delivered
  <2>2. \A p \in shown : p.at \in 1..Len(log) /\ log[p.at] = p.text /\ p.text \in Text
    BY <1>1, <2>1 DEF TextsInv, PostOK
  <2>3. doc.n <= best.n /\ doc.n \in Nat /\ best.n \in Nat
    BY <1>2, OlderIsOrder DEF BoardsInv, Boards
  <2>4. \A p \in shown : p \notin pending' => p.at <= best.n
    <3> SUFFICES ASSUME NEW p \in shown, p \notin pending' PROVE p.at <= best.n
      OBVIOUS
    <3>1. \A i, j \in 1..Len(log) : log[i] = log[j] /\ log[i] \in Text => i = j
      BY DEF TextsInv
    <3> HIDE DEF shown
    <3>2. p.at <= doc.n
      BY <1>2, <2>1, <2>2, <3>1, ClearedIsOnTheBoard
    <3> QED BY <1>1, <2>2, <2>3, <3>2
  <2>5. ASSUME NEW i \in taken' PROVE i <= best.n \/ \E p \in pending' : p.at = i
    <3>1. bubble \in shown /\ bubble.at = post.at
      OBVIOUS
    <3>2. i = post.at \/ i <= best.n \/ \E p \in pending : p.at = i
      BY <2>1 DEF TextsInv
    <3>3. \E p \in shown : i = p.at \/ i <= best.n
      BY <3>1, <3>2
    <3> HIDE DEF bubble, shown
    <3> QED BY <2>4, <3>3
  <2>6. pending' \subseteq shown
    BY <2>1 DEF StillPending
  <2>7. taken' \subseteq Nat /\ post'.st = "none"
    BY <1>1, <2>1 DEF TextsInv, PostOK, NoPost
  <2> HIDE DEF shown
  <2> QED BY <2>1, <2>2, <2>5, <2>6, <2>7 DEF TextsInv
<1>9. CASE BoardCame
  BY <1>2, <1>9, BoardTaken DEF BoardCame
<1>10. CASE PollCame
  BY <1>2, <1>10, BoardTaken DEF PollCame
<1>11. CASE UNCHANGED vars
  BY <1>3, <1>11 DEF vars
<1> QED BY <1>4, <1>5, <1>6, <1>7, <1>8, <1>9, <1>10, <1>11,
           <1>12, <1>13, <1>14 DEF Next

\* A message of his that the server took is on the board the tab holds, or behind its
\* beginning, or a bubble beside it, unless the board is an older one than it held; he sends
\* no text twice, for an echo is known by its text (pending.js, main.js 214-224).
THEOREM NothingIsNowhere == ~Repeats => (Spec => []NeverNowhere)
<1> SUFFICES ASSUME ~Repeats PROVE Spec => []NeverNowhere
  OBVIOUS
<1>1. BoardsInv /\ TextsInv => NeverNowhere
  <2> SUFFICES ASSUME BoardsInv, TextsInv, ~Older(doc, best), NEW i \in taken
               PROVE  i <= doc.n \/ \E p \in pending : p.at = i
    BY DEF NeverNowhere
  <2>1. best.n <= doc.n /\ best.n \in Nat /\ doc.n \in Nat
    BY OlderIsOrder DEF BoardsInv, Held, Boards
  <2> QED BY <2>1 DEF TextsInv
<1>2. BoardsInv /\ TextsInv /\ [Next]_vars => (BoardsInv /\ TextsInv)'
  BY BoardsNext, TextsNext
<1> QED BY <1>1, <1>2, BoardsInit, TextsInit, PTL DEF Spec

-----------------------------------------------------------------------------
(* The pages.                                                              *)

\* A run of the log: each message once, in order.
IsRun(s) == s \in Seq(Nat \ {0}) /\ \A k \in 2..Len(s) : s[k] = s[k - 1] + 1

\* While he looks, one page at most is on its way and it is the one before the run in front;
\* with the panel on something else nothing is in front.
PagesInv ==
  /\ older \in [msgs : Seq(Nat \ {0}), done : BOOLEAN, loading : BOOLEAN, ours : BOOLEAN]
  /\ pages \in Seq(Nat \ {0}) /\ Len(pages) <= 1
  /\ ~looking => older = NoPages
  /\ looking => (older.loading <=> pages # <<>>)
  /\ looking /\ pages # <<>> => /\ older.ours /\ ~older.done
                                /\ older.msgs # <<>> => pages[1] = older.msgs[1]
  /\ IsRun(older.msgs)
  /\ older.done /\ older.msgs # <<>> => older.msgs[1] = 1

LEMMA RunIsRun ==
  ASSUME NEW a \in Nat \ {0}, NEW b \in Nat
  PROVE  /\ IsRun(Run(a, b))
         /\ b < a => Run(a, b) = <<>>
         /\ a <= b => Len(Run(a, b)) = b + 1 - a /\ Run(a, b)[1] = a /\ Run(a, b)[b + 1 - a] = b
<1> DEFINE m == IF b < a THEN 0 ELSE b + 1 - a
           r == Run(a, b)
<1>1. m \in Nat
  OBVIOUS
<1>2. r = [k \in 1..m |-> a + k - 1]
  BY DEF Run
<1>3. \A k \in 1..m : a + k - 1 \in Nat \ {0}
  OBVIOUS
<1> HIDE DEF m
<1>4. r \in Seq(Nat \ {0}) /\ Len(r) = m /\ \A k \in 1..m : r[k] = a + k - 1
  BY <1>1, <1>2, <1>3
<1>5. \A k \in 2..m : r[k] = r[k - 1] + 1
  BY <1>1, <1>4
<1>6. IsRun(r)
  BY <1>4, <1>5 DEF IsRun
<1>7. b < a => r = <<>>
  BY <1>4 DEF m
<1>8. a <= b => m = b + 1 - a /\ 1 \in 1..m /\ m \in 1..m
  BY DEF m
<1> QED BY <1>4, <1>6, <1>7, <1>8

LEMMA PageIsBefore ==
  ASSUME NEW b \in Nat \ {0}
  PROVE  /\ IsRun(PageBefore(b))
         /\ b = 1 => PageBefore(b) = <<>>
         /\ b > 1 => /\ PageBefore(b) # <<>> /\ PageBefore(b)[1] = PageFrom(b)
                     /\ PageBefore(b)[Len(PageBefore(b))] = b - 1
<1>1. PageFrom(b) \in Nat \ {0} /\ (b > 1 => PageFrom(b) <= b - 1) /\ (b = 1 => PageFrom(b) = 1)
      /\ b - 1 \in Nat
  BY TabAssumption DEF PageFrom
<1> DEFINE a == PageFrom(b)
           r == Run(a, b - 1)
<1>2. /\ IsRun(r)
      /\ b - 1 < a => r = <<>>
      /\ a <= b - 1 => Len(r) = (b - 1) + 1 - a /\ r[1] = a /\ r[(b - 1) + 1 - a] = b - 1
  BY <1>1, RunIsRun
<1>3. PageBefore(b) = r
  BY DEF PageBefore
<1>4. a \in Nat \ {0} /\ (b > 1 => a <= b - 1) /\ (b = 1 => a = 1)
  BY <1>1
<1> HIDE DEF a, r
<1>5. b = 1 => b - 1 < a
  BY <1>4
<1>6. ASSUME b > 1 PROVE r # <<>> /\ r[1] = a /\ r[Len(r)] = b - 1
  <2>1. Len(r) = (b - 1) + 1 - a /\ (b - 1) + 1 - a > 0
    BY <1>2, <1>4, <1>6
  <2>2. Len(<<>>) = 0
    OBVIOUS
  <2>3. r # <<>>
    BY <2>1, <2>2
  <2> QED BY <1>2, <1>4, <1>6, <2>1, <2>3
<1> QED BY <1>2, <1>3, <1>5, <1>6 DEF a

\* Two runs of which the second goes on where the first ends are one.
LEMMA RunsJoin ==
  ASSUME NEW s, NEW t, IsRun(s), IsRun(t), s # <<>>, t # <<>> => t[1] = s[Len(s)] + 1
  PROVE  IsRun(s \o t) /\ (s \o t)[1] = s[1]
<1> DEFINE r == s \o t
           m == Len(s)
           n == Len(t)
<1>1. /\ s \in Seq(Nat \ {0}) /\ t \in Seq(Nat \ {0})
      /\ \A k \in 2..m : s[k] = s[k - 1] + 1
      /\ \A k \in 2..n : t[k] = t[k - 1] + 1
  BY DEF IsRun
<1>2. /\ m \in Nat \ {0} /\ n \in Nat
      /\ r \in Seq(Nat \ {0}) /\ Len(r) = m + n
  BY <1>1
<1>3. \A k \in 1..m : r[k] = s[k]
  BY <1>1
<1>4. \A k \in 1..n : r[m + k] = t[k]
  BY <1>1
<1>5. n > 0 => t[1] = s[m] + 1
  BY <1>1
<1> HIDE DEF r, m, n
<1>6. ASSUME NEW k \in 2..(m + n) PROVE r[k] = r[k - 1] + 1
  <2>1. CASE k <= m
    <3>1. k \in 2..m /\ k \in 1..m /\ k - 1 \in 1..m
      BY <1>2, <2>1
    <3>2. r[k] = s[k] /\ r[k - 1] = s[k - 1] /\ s[k] = s[k - 1] + 1
      BY <1>1, <1>3, <3>1
    <3> QED BY <3>2
  <2>2. CASE k = m + 1
    <3>1. n > 0 /\ 1 \in 1..n /\ m \in 1..m /\ k - 1 = m
      BY <1>2, <2>2
    <3>2. r[m + 1] = t[1] /\ r[m] = s[m]
      BY <1>3, <1>4, <3>1
    <3> QED BY <1>5, <2>2, <3>1, <3>2
  <2>3. CASE k > m + 1
    <3>1. k - m \in 2..n /\ k - m \in 1..n /\ (k - m) - 1 \in 1..n
          /\ k = m + (k - m) /\ k - 1 = m + ((k - m) - 1)
      BY <1>2, <2>3
    <3>2. r[k] = t[k - m] /\ r[k - 1] = t[(k - m) - 1] /\ t[k - m] = t[(k - m) - 1] + 1
      BY <1>1, <1>4, <3>1
    <3> QED BY <3>2
  <2> QED BY <1>2, <2>1, <2>2, <2>3
<1>7. 1 \in 1..m
  BY <1>2
<1> QED BY <1>2, <1>3, <1>6, <1>7 DEF IsRun, r

LEMMA PagesInit == Init => PagesInv
<1> SUFFICES ASSUME Init PROVE PagesInv
  OBVIOUS
<1>1. /\ NoPages \in [msgs : Seq(Nat \ {0}), done : BOOLEAN, loading : BOOLEAN, ours : BOOLEAN]
      /\ NoPages.msgs = <<>> /\ ~NoPages.loading /\ ~NoPages.done
  BY DEF NoPages
<1>2. IsRun(<<>>) /\ Len(<<>>) = 0 /\ <<>> \in Seq(Nat \ {0})
  BY DEF IsRun
<1> QED BY <1>1, <1>2 DEF Init, PagesInv

\* He asks for the page before the first message on the screen.
LEMMA PageAsked == BoardsInv /\ PagesInv /\ LoadOlder => PagesInv'
<1> SUFFICES ASSUME BoardsInv, PagesInv, LoadOlder PROVE PagesInv'
  OBVIOUS
<1> DEFINE m == older.msgs
           thread == Run(FirstIn(doc), doc.n)
           b == Head(OnScreen)
<1>1. /\ looking /\ ~older.loading /\ ~older.done /\ OnScreen # <<>> /\ looking' = looking
      /\ pages' = Append(pages, b) /\ older' = [older EXCEPT !.ours = TRUE, !.loading = TRUE]
  BY DEF LoadOlder, paging
<1>2. /\ older \in [msgs : Seq(Nat \ {0}), done : BOOLEAN, loading : BOOLEAN, ours : BOOLEAN]
      /\ pages = <<>> /\ IsRun(m)
  BY <1>1 DEF PagesInv
<1>3. doc.n \in Nat /\ FirstIn(doc) \in Nat \ {0}
  <2>1. doc.n \in Nat
    BY DEF BoardsInv, Held, Boards
  <2> QED BY <2>1, TabAssumption DEF FirstIn
<1>4. thread \in Seq(Nat \ {0})
  BY <1>3, RunIsRun DEF IsRun
<1>5. m \in Seq(Nat \ {0}) /\ OnScreen = m \o thread
  BY <1>2 DEF OnScreen
<1> HIDE DEF thread
<1>6. b \in Nat \ {0} /\ (m # <<>> => b = m[1])
  <2>1. OnScreen \in Seq(Nat \ {0}) /\ OnScreen # <<>>
    BY <1>1, <1>4, <1>5
  <2>2. b = OnScreen[1] /\ b \in Nat \ {0}
    BY <2>1
  <2>3. m # <<>> => 1 \in 1..Len(m)
    BY <1>5
  <2>4. \A k \in 1..Len(m) : OnScreen[k] = m[k]
    BY <1>4, <1>5
  <2> QED BY <2>2, <2>3, <2>4
<1> HIDE DEF b
<1>7. pages' \in Seq(Nat \ {0}) /\ Len(pages') = 1 /\ pages'[1] = b /\ pages' # <<>>
  BY <1>1, <1>2, <1>6
<1>8. /\ older' \in [msgs : Seq(Nat \ {0}), done : BOOLEAN, loading : BOOLEAN, ours : BOOLEAN]
      /\ older'.msgs = m /\ older'.done = older.done /\ older'.loading /\ older'.ours
  BY <1>1, <1>2
<1> QED BY <1>1, <1>2, <1>6, <1>7, <1>8 DEF PagesInv

\* What was asked for is no longer on its way.
LEMMA OnlyPageLeaves ==
  ASSUME PagesInv, NEW k \in DOMAIN pages
  PROVE  k = 1 /\ RemoveAt(pages, k) = <<>> /\ pages[k] \in Nat \ {0} /\ pages # <<>>
<1>1. pages \in Seq(Nat \ {0}) /\ Len(pages) = 1 /\ k = 1
  <2>1. pages \in Seq(Nat \ {0}) /\ Len(pages) <= 1
    BY DEF PagesInv
  <2> DEFINE n == Len(pages)
  <2>2. n \in Nat /\ k \in 1..n /\ n <= 1
    BY <2>1
  <2> HIDE DEF n
  <2>3. n = 1 /\ k = 1
    BY <2>2
  <2> QED BY <2>1, <2>3 DEF n
<1>2. SubSeq(pages, 1, 0) = <<>> /\ SubSeq(pages, 2, 1) = <<>>
  BY <1>1
<1>3. RemoveAt(pages, k) = <<>> \o <<>>
  BY <1>1, <1>2 DEF RemoveAt
<1>4. <<>> \o <<>> = <<>>
  OBVIOUS
<1>5. 1 \in 1..Len(pages)
  BY <1>1
<1>6. pages[1] \in Nat \ {0}
  BY <1>1, <1>5, ElementOfSeq, Zenon
<1>7. pages # <<>>
  BY <1>1, Len(<<>>) = 0
<1> QED BY <1>1, <1>3, <1>4, <1>6, <1>7

LEMMA PageComes == ASSUME PagesInv, NEW k \in DOMAIN pages, PageCame(k) PROVE PagesInv'
<1> DEFINE m == older.msgs
           b == pages[k]
           page == PageBefore(b)
<1>1. k = 1 /\ RemoveAt(pages, k) = <<>> /\ b \in Nat \ {0} /\ pages # <<>>
  BY OnlyPageLeaves
<1>2. pages' = <<>> /\ looking' = looking
  BY <1>1 DEF PageCame
<1>3. /\ older \in [msgs : Seq(Nat \ {0}), done : BOOLEAN, loading : BOOLEAN, ours : BOOLEAN]
      /\ IsRun(m)
      /\ ~looking => older = NoPages
      /\ looking => /\ older.ours /\ ~older.done
                    /\ m # <<>> => b = m[1]
  BY <1>1 DEF PagesInv
<1>4. IsRun(page) /\ (b = 1 => page = <<>>) /\ (b > 1 => page # <<>> /\ page[Len(page)] = b - 1)
  BY <1>1, PageIsBefore
<1>5. older' = IF ~older.ours THEN older
               ELSE IF page = <<>> THEN [older EXCEPT !.loading = FALSE, !.done = TRUE]
               ELSE [older EXCEPT !.loading = FALSE, !.msgs = page \o @]
  BY DEF PageCame
<1> HIDE DEF b, page
<1>6. CASE ~looking
  BY <1>2, <1>3, <1>5, <1>6 DEF PagesInv, NoPages
<1>7. CASE looking /\ page = <<>>
  <2>1. b = 1
    BY <1>1, <1>4, <1>7
  <2>2. /\ older' \in [msgs : Seq(Nat \ {0}), done : BOOLEAN, loading : BOOLEAN, ours : BOOLEAN]
        /\ older'.msgs = m /\ ~older'.loading
    BY <1>3, <1>5, <1>7
  <2> QED BY <1>2, <1>3, <1>7, <2>1, <2>2 DEF PagesInv
<1>8. CASE looking /\ page # <<>>
  <2>1. b > 1 /\ page[Len(page)] = b - 1
    BY <1>1, <1>4, <1>8
  <2>2. m # <<>> => m[1] = page[Len(page)] + 1
    BY <1>1, <1>3, <1>8, <2>1
  <2>3. IsRun(page \o m) /\ page \o m \in Seq(Nat \ {0})
    BY <1>3, <1>4, <1>8, <2>2, RunsJoin DEF IsRun
  <2>4. /\ older' \in [msgs : Seq(Nat \ {0}), done : BOOLEAN, loading : BOOLEAN, ours : BOOLEAN]
        /\ older'.msgs = page \o m /\ ~older'.loading /\ older'.done = older.done
    BY <1>3, <1>5, <1>8, <2>3
  <2> QED BY <1>2, <1>3, <1>8, <2>3, <2>4 DEF PagesInv
<1> QED BY <1>6, <1>7, <1>8

LEMMA PagesNext ==
  "return" \notin Trouble /\ BoardsInv /\ PagesInv /\ [Next]_vars => PagesInv'
<1> SUFFICES ASSUME "return" \notin Trouble, BoardsInv, PagesInv, [Next]_vars PROVE PagesInv'
  OBVIOUS
<1>1. CASE UNCHANGED paging
  BY <1>1 DEF PagesInv, paging, IsRun
<1>2. CASE LoadOlder
  BY <1>2, PageAsked
<1>3. ASSUME NEW k \in DOMAIN pages, PageCame(k) PROVE PagesInv'
  BY <1>3, PageComes
<1>4. ASSUME NEW k \in DOMAIN pages, PageFailed(k) PROVE PagesInv'
  <2>1. pages' = <<>> /\ looking' = looking /\ older' = [older EXCEPT !.loading = FALSE]
    BY <1>4, OnlyPageLeaves DEF PageFailed
  <2>2. /\ older' \in [msgs : Seq(Nat \ {0}), done : BOOLEAN, loading : BOOLEAN, ours : BOOLEAN]
        /\ older'.msgs = older.msgs /\ older'.done = older.done /\ ~older'.loading
    BY <2>1 DEF PagesInv
  <2>3. NoPages.loading = FALSE
    BY DEF NoPages
  <2>4. older = NoPages => older' = older
    BY <2>1, <2>3 DEF PagesInv
  <2> QED BY <2>1, <2>2, <2>4 DEF PagesInv
<1>5. CASE Switch
  <2>1. looking /\ ~looking' /\ older' = NoPages /\ pages' = pages
    BY <1>5 DEF Switch, Spend
  <2>2. /\ NoPages \in [msgs : Seq(Nat \ {0}), done : BOOLEAN, loading : BOOLEAN, ours : BOOLEAN]
        /\ NoPages.msgs = <<>> /\ IsRun(<<>>)
    BY DEF NoPages, IsRun
  <2> QED BY <2>1, <2>2 DEF PagesInv
<1> USE DEF serving, holding, sending
<1>6. CASE Change \/ Replies \/ Feedback \/ Restart \/ Breaks \/ Opens \/ Watchdog \/ Notified
           \/ ServeBoard \/ BoardCame \/ BoardFailed \/ GapOver
  BY <1>1, <1>6 DEF Change, Announced, Replies, Feedback, Restart, Breaks, Opens, Watchdog, Notified,
                    ServeBoard, BoardCame, BoardFailed, GapOver
<1>7. CASE Delivered \/ SendFails \/ Polls \/ PollCame \/ PollFailed \/ \E t \in Text : Send(t)
  BY <1>1, <1>7 DEF Delivered, SendFails, Polls, PollCame, PollFailed, Send
<1>8. CASE UNCHANGED vars
  BY <1>1, <1>8 DEF vars, paging
<1> QED BY <1>2, <1>3, <1>4, <1>5, <1>6, <1>7, <1>8 DEF Next

\* The pages merged in front of the thread are one run of the log, each message once, down to
\* the first one when no more is offered, as long as he does not come back to a conversation
\* he left with a page on its way (chat.js loadOlder).
THEOREM PagesInFrontAreARun == "return" \notin Trouble => (Spec => []PagesAreARun)
<1> SUFFICES ASSUME "return" \notin Trouble PROVE Spec => []PagesAreARun
  OBVIOUS
<1>1. PagesInv => PagesAreARun
  <2> SUFFICES ASSUME PagesInv PROVE PagesAreARun
    OBVIOUS
  <2>1. older.msgs # <<>> => Head(older.msgs) = older.msgs[1]
    BY DEF PagesInv
  <2> QED BY <2>1 DEF PagesInv, PagesAreARun, IsRun
<1>2. BoardsInv /\ PagesInv /\ [Next]_vars => (BoardsInv /\ PagesInv)'
  BY BoardsNext, PagesNext
<1> QED BY <1>1, <1>2, BoardsInit, PagesInit, PTL DEF Spec

\* So the conversation on screen is whole under both: nothing sent is nowhere, nothing in
\* front is skipped or shown twice (pending.js, chat.js).
THEOREM ConversationIsWhole == ~Repeats /\ "return" \notin Trouble => (Spec => []ChatWhole)
BY NothingIsNowhere, PagesInFrontAreARun, PTL DEF ChatWhole
=============================================================================

------------------------------ MODULE Composer ------------------------------
(***************************************************************************)
(* The composer of one tab, and what the server makes of what it sends.    *)
(* The captain types, stages files, picks a slash command from the list    *)
(* the target's session answers, and presses send (src/ui/js/chat.js,      *)
(* slash.js); the files go up one request each and the message follows,    *)
(* naming them (src/server/server.js).  A message starting with "/" is run *)
(* on the target's session and both it and its reply land in the thread.   *)
(*                                                                         *)
(* There is one lieutenant and one card of its; a session is a number, 0   *)
(* for none.  How a message reaches the lieutenant is Queues, and how the  *)
(* thread shows it is Tab.                                                 *)
(***************************************************************************)
EXTENDS Naturals, FiniteSets

CONSTANTS
  File,        \* files he may stage, each once
  Most,        \* files a message may carry (20 in the code)
  MaxSaid, MaxPosts, MaxAsks, MaxSessions,   \* bounds: messages that landed before a send,
               \* sends, lists asked for, workers of the card
  Together,    \* whether one behaviour has both files and commands in play
  Trouble,     \* what may happen besides: see TroubleKinds
  MaxTrouble   \* bound: of them all together

TroubleKinds == {"fail",  \* a request that fails, before or after the server took it
  "restart",   \* the server stops in the middle
  "midsend",   \* a file staged, or a text pasted, while the message before is sent
  "file",      \* a file screen is open
  "archive"}   \* the card leaves the board under what he is writing to it
ComposerAssumption ==
  /\ {Most, MaxSaid, MaxPosts, MaxAsks, MaxSessions, MaxTrouble} \subseteq Nat /\ Trouble \subseteq TroubleKinds
  /\ Together \in BOOLEAN

VARIABLES
  card, worker, born,  \* the card is on the board; the session behind it, of how many
  seen,       \* the card as the tab knows it
  at, text,   \* S.chatMode and the composer's text
  meant,      \* history: whom he takes himself to be writing to
  staged,     \* pendingAtts
  quote,      \* a file screen is open, and its context rides along
  slash,      \* the picker: open, target, and the list it holds
  asked,      \* lists asked for: by whom, and the answer once served
  asks,
  post,       \* the send in flight
  ups,        \* the uploads of this send
  stored,     \* UPLOADS_DIR: files with their sidecar
  said,       \* the messages of both threads
  runs,       \* commands the server runs
  replies,    \* the commands that have their reply
  gave, troubles   \* history: files he staged and did not take back; what happened besides
vars == <<card, worker, born, seen, at, text, meant, staged, quote, slash, asked, asks, post,
          ups, stored, said, runs, replies, gave, troubles>>
board == <<card, worker, born>>
tab   == <<seen, at, quote>>
picker == <<slash, asked, asks>>
server == <<stored, said, runs, replies>>

Target == {"lieutenant", "card"}
Commands == {"/compact", "/reset"}
\* What a session answers, and what the board answers itself: for a lieutenant only.
BoardCommands(t) == IF t = "lieutenant" THEN {"/reset"} ELSE {}
HarnessCommands(who) == IF who = 0 THEN {} ELSE {"/compact"}
Session(t) == IF t = "lieutenant" THEN 1 ELSE worker
Offered(t) == HarnessCommands(Session(t)) \cup BoardCommands(t)

NoList == [to |-> "", k |-> 0, names |-> {}]
Closed == [open |-> FALSE, target |-> "", list |-> NoList]
NoPost == [st |-> "none", n |-> 0, to |-> "", text |-> "", files |-> {}, quote |-> FALSE, meant |-> ""]
Befalls(k) == /\ k \in Trouble /\ Cardinality(troubles \cup {k}) <= MaxTrouble
              /\ troubles' = troubles \cup {k}
Sending == post.st # "none"

-----------------------------------------------------------------------------
(* Writing *)

\* updateSlash: opening, or another target, asks for the list anew
UpdateSlash ==
  IF slash.open /\ slash.target = at THEN UNCHANGED picker
  ELSE /\ asks < MaxAsks /\ (Together \/ gave = {}) /\ asks' = asks + 1
       /\ slash' = [open |-> TRUE, target |-> at, list |-> NoList]
       /\ asked' = asked \cup {[k |-> asks + 1, to |-> at, list |-> NoList]}
CloseSlash == slash' = Closed /\ UNCHANGED <<asked, asks>>

\* the input is read-only while a message is sent
HeTypes(t) ==
  /\ ~Sending /\ text # t /\ text' = t /\ meant' = at
  /\ IF t \in {"/"} \cup Commands THEN UpdateSlash ELSE CloseSlash
  /\ UNCHANGED <<board, tab, staged, post, ups, server, gave, troubles>>
SlashOptions == IF text = "/" THEN slash.list.names ELSE slash.list.names \cap {text}
HePicks(c) ==
  /\ slash.open /\ c \in SlashOptions /\ ~Sending
  /\ text' = c /\ meant' = at /\ CloseSlash
  /\ UNCHANGED <<board, tab, staged, post, ups, server, gave, troubles>>
HeClosesSlash ==
  /\ slash.open /\ CloseSlash
  /\ UNCHANGED <<board, tab, text, meant, staged, post, ups, server, gave, troubles>>
\* the attach button, a drop and a paste are never disabled by a send
AddPendingFiles(f) ==
  /\ f \in File \ gave /\ f \notin UNION {m.chosen : m \in said}
  /\ (Together \/ asks = 0)
  /\ staged' = staged \cup {f} /\ gave' = gave \cup {f}
  /\ IF Sending THEN Befalls("midsend") ELSE UNCHANGED troubles
  /\ UNCHANGED <<board, tab, text, meant, picker, post, ups, server>>
HeRemovesFile(f) ==
  /\ f \in staged /\ staged' = staged \ {f} /\ gave' = gave \ {f}
  /\ IF Sending THEN Befalls("midsend") ELSE UNCHANGED troubles
  /\ UNCHANGED <<board, tab, text, meant, picker, post, ups, server>>
HePastes ==
  /\ Sending /\ text # "more" /\ Befalls("midsend") /\ text' = "more" /\ meant' = at
  /\ UNCHANGED <<board, tab, staged, picker, post, ups, server, gave>>
RefreshQuote ==
  /\ (~quote => Befalls("file")) /\ (quote => UNCHANGED troubles) /\ quote' = ~quote
  /\ UNCHANGED <<board, seen, at, text, meant, staged, picker, post, ups, server, gave>>
\* another conversation: what is written and staged stays, the picker closes
Switches(t) ==
  /\ at # t /\ (t = "card" => seen) /\ at' = t /\ meant' = t /\ CloseSlash
  /\ UNCHANGED <<board, seen, quote, text, staged, post, ups, server, gave, troubles>>
\* the board arrives without the card: its conversation falls back to the first lieutenant
EnsureChatMode ==
  /\ seen /\ ~card /\ seen' = FALSE
  /\ IF at = "card" THEN at' = "lieutenant" /\ CloseSlash ELSE UNCHANGED <<at, picker>>
  /\ UNCHANGED <<board, quote, text, meant, staged, post, ups, server, gave, troubles>>

-----------------------------------------------------------------------------
(* The list of commands *)
ServesCommands(a) ==
  /\ a \in asked /\ a.list.to = "" /\ (a.to = "card" => card)
  /\ asked' = (asked \ {a}) \cup {[a EXCEPT !.list = [to |-> a.to, k |-> a.k, names |-> Offered(a.to)]]}
  /\ UNCHANGED <<board, tab, text, meant, staged, slash, asks, post, ups, server, gave, troubles>>
TakesAnyList(a) == slash.open                                    \* (a mutant's)
TakesList(a) == slash.open /\ slash.target = a.to
ListArrives(a) ==
  /\ a \in asked /\ a.list.to # "" /\ asked' = asked \ {a}
  /\ slash' = IF TakesList(a) THEN [slash EXCEPT !.list = a.list] ELSE slash
  /\ UNCHANGED <<board, tab, text, meant, staged, asks, post, ups, server, gave, troubles>>
ListFails(a) ==
  /\ a \in asked /\ (a.to = "card" /\ ~card) /\ asked' = asked \ {a}
  /\ UNCHANGED <<board, tab, text, meant, staged, slash, asks, post, ups, server, gave, troubles>>

-----------------------------------------------------------------------------
(* Sending *)
Send ==
  /\ ~Sending /\ (text \notin {""} \/ staged # {} \/ quote) /\ post.n < MaxPosts /\ Cardinality(said) <= MaxSaid
  /\ post' = [st |-> "up", n |-> post.n + 1, to |-> at, text |-> text, files |-> staged,
              quote |-> quote, meant |-> meant]
  /\ ups' = [f \in staged |-> "sent"]
  /\ UNCHANGED <<board, tab, text, meant, staged, picker, server, gave, troubles>>
\* POST /api/attachments: the bytes, then the sidecar that makes them an attachment
StoreAttachment(f) ==
  /\ f \in DOMAIN ups /\ ups[f] = "sent" /\ stored' = stored \cup {f}
  /\ \/ ups' = [ups EXCEPT ![f] = "ok"] /\ UNCHANGED troubles
     \/ ups' = [ups EXCEPT ![f] = "lost"] /\ Befalls("fail")
  /\ UNCHANGED <<board, tab, text, meant, staged, picker, post, said, runs, replies, gave>>
UploadFails(f) ==
  /\ f \in DOMAIN ups /\ ups[f] = "sent" /\ Befalls("fail") /\ ups' = [ups EXCEPT ![f] = "lost"]
  /\ UNCHANGED <<board, tab, text, meant, staged, picker, post, server, gave>>
\* the message waits for every upload, and one that failed fails it at once
UploadedSome == \E f \in DOMAIN ups : ups[f] = "ok"          \* (a mutant's)
UploadedAll  == \A f \in DOMAIN ups : ups[f] = "ok"
Uploaded ==
  /\ post.st = "up"
  /\ \/ UploadedAll /\ post' = [post EXCEPT !.st = "sent"]
     \/ (\E f \in DOMAIN ups : ups[f] = "lost") /\ post' = [post EXCEPT !.st = "failed"]
  /\ UNCHANGED <<board, tab, text, meant, staged, picker, ups, server, gave, troubles>>

\* what of the list the client names becomes an attachment: at most so many, unknown ids dropped
Resolved(files) ==
  {S \cap stored : S \in {T \in SUBSET files : Cardinality(T) = Most \/ (T = files /\ Cardinality(T) <= Most)}}
IsCommand(p) == p.text \in Commands /\ ~p.quote /\ p.files = {}
Message(files) == [n |-> post.n, to |-> post.to, text |-> post.text, chosen |-> post.files,
                   files |-> files, meant |-> post.meant, run |-> IsCommand(post)]
There(t) == t = "card" => card
\* POST /api/feedback of a say: it is written, then answered
Says ==
  /\ post.st = "sent" /\ There(post.to) /\ ~IsCommand(post)
  /\ \E files \in Resolved(post.files) : said' = said \cup {Message(files)}
  /\ \/ post' = [post EXCEPT !.st = "ok"] /\ UNCHANGED troubles
     \/ post' = [post EXCEPT !.st = "failed"] /\ Befalls("fail")
  /\ UNCHANGED <<board, tab, text, meant, staged, picker, ups, stored, runs, replies, gave>>
\* of a command: it is stamped in the thread and run, on the session there is at this moment
RunChatCommand ==
  /\ post.st = "sent" /\ There(post.to) /\ IsCommand(post)
  /\ said' = said \cup {Message({})} /\ post' = [post EXCEPT !.st = "run"]
  /\ runs' = runs \cup {[n |-> post.n, to |-> post.to, text |-> post.text,
        on |-> IF post.text \in Offered(post.to) /\ post.text \notin BoardCommands(post.to)
               THEN Session(post.to) ELSE 0]}
  /\ UNCHANGED <<board, tab, text, meant, staged, picker, ups, stored, replies, gave, troubles>>
\* done, refused, or thrown by a session that has gone: each is a reply, where the thread still is
RepliedIfItRan(r) == IF r.on # 0 THEN {r.n} ELSE {}           \* (a mutant's)
Replied(r) == IF There(r.to) THEN {r.n} ELSE {}
Replies(r) ==
  /\ r \in runs /\ runs' = runs \ {r} /\ replies' = replies \cup Replied(r)
  /\ post' = IF post.n = r.n /\ post.st = "run" THEN [post EXCEPT !.st = "ok"] ELSE post
  /\ UNCHANGED <<board, tab, text, meant, staged, picker, ups, stored, said, gave, troubles>>
SendFails ==
  /\ post.st \in {"sent", "run"} /\ (There(post.to) => Befalls("fail")) /\ (~There(post.to) => UNCHANGED troubles)
  /\ post' = [post EXCEPT !.st = "failed"]
  /\ UNCHANGED <<board, tab, text, meant, staged, picker, ups, server, gave>>
\* the 200 clears the composer: the text, and every file staged
Delivered ==
  /\ post.st = "ok" /\ text' = "" /\ meant' = at /\ staged' = {} /\ CloseSlash
  /\ post' = [NoPost EXCEPT !.n = post.n] /\ ups' = <<>>
  /\ UNCHANGED <<board, tab, server, gave, troubles>>
\* a failure leaves the composer as it is
StagedAfterFailure == {}                                      \* (a mutant's)
StagedAfter == staged
NotDelivered ==
  /\ post.st = "failed" /\ post' = [NoPost EXCEPT !.n = post.n] /\ ups' = <<>>
  /\ staged' = StagedAfter
  /\ UNCHANGED <<board, tab, text, meant, picker, server, gave, troubles>>

-----------------------------------------------------------------------------
(* Everybody else *)
WorkerComesOrGoes ==
  /\ card /\ IF worker = 0 THEN born < MaxSessions /\ worker' = born + 2 /\ born' = born + 1
             ELSE worker' = 0 /\ born' = born
  /\ UNCHANGED <<card, tab, text, meant, staged, picker, post, ups, server, gave, troubles>>
CardArchived ==
  /\ card /\ Befalls("archive") /\ card' = FALSE /\ worker' = 0
  /\ UNCHANGED <<born, tab, text, meant, staged, picker, post, ups, server, gave>>
\* what runs is gone with the server; a card's command is on the disk only if something saved the board
Restart ==
  /\ Befalls("restart") /\ runs' = {}
  /\ \/ said' = said
     \/ said' = {m \in said : ~(m.to = "card" /\ \E r \in runs : r.n = m.n)}
  /\ post' = IF post.st \in {"up", "sent", "run"} THEN [post EXCEPT !.st = "failed"] ELSE post
  /\ ups' = [f \in DOMAIN ups |-> IF ups[f] = "sent" THEN "lost" ELSE ups[f]]
  /\ UNCHANGED <<board, tab, text, meant, staged, picker, stored, replies, gave>>

Init ==
  /\ card = TRUE /\ worker = 0 /\ born = 0 /\ seen = TRUE /\ at \in Target /\ meant = at
  /\ text = "" /\ staged = {} /\ quote = FALSE /\ slash = Closed /\ asked = {} /\ asks = 0
  /\ post = NoPost /\ ups = <<>> /\ stored = {} /\ said = {} /\ runs = {} /\ replies = {}
  /\ gave = {} /\ troubles = {}
Next ==
  \/ \E t \in {"say", "/", "/compact"} : HeTypes(t)
  \/ \E c \in Commands : HePicks(c)
  \/ \E f \in File : AddPendingFiles(f) \/ HeRemovesFile(f) \/ StoreAttachment(f) \/ UploadFails(f)
  \/ \E t \in Target : Switches(t)
  \/ \E a \in asked : ServesCommands(a) \/ ListArrives(a) \/ ListFails(a)
  \/ \E r \in runs : Replies(r)
  \/ HeClosesSlash \/ HePastes \/ RefreshQuote \/ EnsureChatMode \/ Send \/ Uploaded \/ Says \/ RunChatCommand
  \/ SendFails \/ Delivered \/ NotDelivered \/ WorkerComesOrGoes \/ CardArchived \/ Restart
\* a command a harness runs ends: it types a line and reads the pane, with deadlines
Fairness == WF_vars(\E r \in runs : Replies(r))
Spec == Init /\ [][Next]_vars /\ Fairness

-----------------------------------------------------------------------------
(* A message that is in a thread carries the files that were staged when   *)
(* he sent it, all of them and no other, whatever failed before.           *)
FilesWhole == \A m \in said : m.files = m.chosen
(* A file he staged is in the composer still, or in a message, unless he   *)
(* took it back or staged it while the message before was being sent: the  *)
(* chips are his only copy.                                                *)
StagedKept == "midsend" \in troubles \/ gave \subseteq staged \cup UNION {m.chosen : m \in said}
(* The picker never offers the commands of another conversation.           *)
PickerHers == slash.open /\ slash.list.to # "" => slash.list.to = at
(* A command that landed in a thread is answered there, whatever became of *)
(* its session, unless the card left the board or the server stopped.      *)
CommandAnswered == \A n \in 1..MaxPosts :
  (\E m \in said : m.n = n /\ m.run) ~> (n \in replies \/ ~card \/ "restart" \in troubles)

(* Refuted with "file": a slash command he sends is run as a command.      *)
MeantIsRun == \A m \in said : m.text \in Commands /\ m.chosen = {} => m.run
(* Refuted: what the picker shows was asked for when it opened.            *)
PickerFresh == slash.open /\ slash.list.to # "" /\ asked = {} => slash.list.k = asks
(* Refuted with "midsend": no file he staged is lost, whenever he did.     *)
StagedAlwaysKept == gave \subseteq staged \cup UNION {m.chosen : m \in said}
(* Refuted with "archive": a message goes to whom it was typed to.         *)
GoesWhereWritten == \A m \in said : m.meant = m.to
(* Refuted with "midsend": a text pasted is in the composer or a thread.   *)
PasteKept == [][text = "more" /\ text' # "more" /\ post.st = "ok" => post.text = "more"]_vars
(* Refuted with "fail": he sends a command once, and it is run once.       *)
RunOnce == \A m, k \in said : m.run /\ k.run /\ m.n # k.n => m.n \in replies \/ k.n \in replies
=============================================================================

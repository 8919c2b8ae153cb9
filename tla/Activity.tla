------------------------------ MODULE Activity ------------------------------
(***************************************************************************)
(* What a lieutenant is doing right now: the transcript its agent writes,  *)
(* the reading of it once a second while a board is open, the pushes to    *)
(* the boards, and the context bar refreshed when a turn ends              *)
(* (harness/activity.js, harness/agent-status.js, server.js, ui            *)
(* activity.js).  One lieutenant, whose session may be reset.              *)
(*                                                                         *)
(* A line of a transcript is its kind and the time it was written; a tool  *)
(* is named by the place of its line; wording and redaction are left out.  *)
(***************************************************************************)
EXTENDS Integers, Sequences, SequencesExt, FiniteSets, Functions

CONSTANTS Boards, MaxSessions, MaxLines, MaxClock, Quiet, Hold, Window,
          Trouble, MaxTrouble

VARIABLES
  clock, polled,          \* seconds, and whether this second's poll has run
  sess, script, agent,    \* the session that runs, every transcript, "idle" "turn" "stopping"
  posts,                  \* turn-end posts on their way
  ref, lastEnd,           \* lieutenant record: resumeId, lastTurnEnd
  watches,                \* the transcripts watched for a change
  map,                    \* the server's activityMap, Nothing when empty
  conn, wire, shown,      \* per board: its stream, what is on it, what it shows
  saw, since,             \* history: the newest tool pushed, when a board last opened
  troubles
vars == <<clock, polled, sess, script, agent, posts, ref, lastEnd, watches, map, conn, wire, shown, saw, since, troubles>>
session == <<sess, script, agent, posts>>
record == <<ref, lastEnd>>
server == <<watches, map, saw>>
screens == <<conn, wire, shown, since>>

Nothing == [at |-> -1, tool |-> 0]
Opened == [at |-> -2, tool |-> 0]      \* the stream's own "open", not a message
Sessions == 1..MaxSessions
End == MaxClock + Quiet + 1          \* nothing is written after MaxClock, the clock runs on
Clients == {b \in Boards : conn[b] # "off"}

Trouble1(t) == t \in Trouble /\ Len(troubles) < MaxTrouble /\ troubles' = Append(troubles, t)
NoTrouble == UNCHANGED troubles

(* ------------------------------ the transcript ------------------------------ *)
Lines(s) == script[s]
Kinds(ls, k) == {i \in 1..Len(ls) : ls[i].kind = k}
LastOf(ls, ks) == LET at == {i \in 1..Len(ls) : ls[i].kind \in ks}
                  IN  IF at = {} THEN 0 ELSE CHOOSE i \in at : \A j \in at : j <= i
(* only the last Window lines are read; what starts before them is unknown *)
Seen(ls) == {i \in 1..Len(ls) : i > Len(ls) - Window}
Start(ls) == LET i == LastOf(ls, {"prompt", "end"})
             IN  IF i \in Seen(ls) /\ ls[i].kind = "prompt" THEN i ELSE 0
ToolOf(ls) == LET i == LastOf(ls, {"use"}) IN IF i > Start(ls) /\ i \in Seen(ls) THEN i ELSE 0
DoneAt(ls, i) == LET r == {j \in 1..Len(ls) : j > i /\ ls[j].kind = "result"}
                 IN  IF r = {} THEN clock ELSE ls[CHOOSE j \in r : \A k \in r : j <= k].at
Pending(ls) == LastOf(ls, {"use"}) > LastOf(ls, {"result", "prompt", "end"})

NoHold(ls) == LET i == ToolOf(ls) IN IF i # 0 /\ Pending(ls) THEN i ELSE 0
(* the newest tool, held for a while after its end, then thinking *)
LabelAt(ls) == LET i == ToolOf(ls)
               IN  IF i # 0 /\ (Pending(ls) \/ clock - DoneAt(ls, i) < Hold) THEN i ELSE 0

NoQuiet(ls) == clock < 0
TooQuiet(ls) == clock - Last(ls).at > Quiet
ToldOver(ls) == lastEnd > ls[Start(ls)].at
ToolsOnly(ls) == IF Start(ls) = 0 \/ ToldOver(ls) \/ TooQuiet(ls) \/ LabelAt(ls) = 0 THEN Nothing
                 ELSE [at |-> ls[Start(ls)].at, tool |-> LabelAt(ls)]
Reading(ls) == IF Start(ls) = 0 \/ ToldOver(ls) \/ TooQuiet(ls) THEN Nothing
               ELSE [at |-> ls[Start(ls)].at, tool |-> LabelAt(ls)]

Written == FoldFunction(LAMBDA ls, n : n + Len(ls), 0, script)
Write(kind) ==
  /\ Written < MaxLines /\ clock <= MaxClock
  /\ script' = [script EXCEPT ![sess] = Append(@, [kind |-> kind, at |-> clock])]

Prompt == /\ agent = "idle" /\ agent' = "turn" /\ Write("prompt")
          /\ UNCHANGED <<clock, polled, sess, posts, record, server, screens, troubles>>
ToolStarts == /\ agent = "turn" /\ ~Pending(Lines(sess)) /\ Write("use")
              /\ UNCHANGED <<clock, polled, sess, agent, posts, record, server, screens, troubles>>
ToolEnds == /\ agent = "turn" /\ Pending(Lines(sess)) /\ Write("result")
            /\ UNCHANGED <<clock, polled, sess, agent, posts, record, server, screens, troubles>>
(* the Stop hook posts, and the agent waits for it before it writes the turn's end *)
Stops == /\ agent = "turn" /\ ~Pending(Lines(sess)) /\ Written < MaxLines /\ clock <= MaxClock
         /\ agent' = "stopping" /\ posts' = posts \cup {sess}
         /\ UNCHANGED <<clock, polled, sess, script, record, server, screens, troubles>>
TurnEnds == /\ agent = "stopping" /\ agent' = "idle" /\ Write("end")
            /\ \/ sess \notin posts /\ UNCHANGED posts /\ NoTrouble
               \/ sess \in posts /\ Trouble1("late") /\ UNCHANGED posts
               \/ sess \in posts /\ Trouble1("lost") /\ posts' = posts \ {sess}
            /\ UNCHANGED <<clock, polled, sess, record, server, screens>>
Interrupted == /\ agent = "turn" /\ Trouble1("interrupt") /\ agent' = "idle"
               /\ UNCHANGED <<clock, polled, sess, script, posts, record, server, screens>>
(* /reset: a new session with its own transcript; the record's memory is kept *)
Reset == /\ sess < MaxSessions /\ Trouble1("reset")
         /\ sess' = sess + 1 /\ ref' = sess + 1 /\ agent' = "idle" /\ saw' = 0
         /\ UNCHANGED <<clock, polled, script, posts, lastEnd, watches, map, screens>>

(* ------------------------------ the turn-end post ------------------------------ *)
(* the payload is ground truth: an old session's late post takes the record with it *)
TurnEnd == \E s \in posts :
  /\ posts' = posts \ {s} /\ ref' = s /\ lastEnd' = clock
  /\ UNCHANGED <<clock, polled, sess, script, agent, server, screens, troubles>>

(* ------------------------------ the tick ------------------------------ *)
SyncActivityWatches == watches' = {s \in {ref} : Lines(s) # <<>>}
Push(m) == wire' = [b \in Boards |-> IF conn[b] = "up" THEN Append(wire[b], m) ELSE wire[b]]
Room == \A b \in Boards : Len(wire[b]) < 2
ActivityTick ==
  /\ Room
  /\ IF Clients = {} THEN watches' = {} /\ UNCHANGED <<map, wire, saw>>
     ELSE LET next == Reading(Lines(ref))
          IN  /\ SyncActivityWatches
              /\ map' = next
              /\ IF next = map THEN UNCHANGED wire ELSE Push(next)
              /\ saw' = IF ref = sess /\ next.tool > saw THEN next.tool ELSE saw
  /\ UNCHANGED <<clock, session, record, conn, shown, since, troubles>>
Poll == (~polled \/ clock = End) /\ polled' = TRUE /\ ActivityTick
(* a transcript that is watched is read at once when it moves: a tick that the clock did not ask for *)
Kicked == ref \in watches /\ ActivityTick /\ UNCHANGED polled
Second == /\ polled /\ clock < End /\ clock' = clock + 1 /\ polled' = FALSE
          /\ UNCHANGED <<session, record, server, screens, troubles>>

(* ------------------------------ the boards ------------------------------ *)
StreamOf(b) == IF map = Nothing THEN <<Opened>> ELSE <<Opened, map>>
Connect(b) ==
  /\ conn[b] # "up"
  /\ conn' = [conn EXCEPT ![b] = "up"] /\ wire' = [wire EXCEPT ![b] = StreamOf(b)]
  /\ since' = IF Clients = {} THEN clock ELSE since
  /\ UNCHANGED <<clock, polled, session, record, server, shown, troubles>>
KeepsOld(b, m) == shown' = [shown EXCEPT ![b] = IF m = Opened THEN @ ELSE m]
SetActivity(b, m) == shown' = [shown EXCEPT ![b] = IF m = Opened THEN Nothing ELSE m]
Receive(b) ==
  /\ conn[b] = "up" /\ wire[b] # <<>>
  /\ SetActivity(b, Head(wire[b])) /\ wire' = [wire EXCEPT ![b] = Tail(@)]
  /\ UNCHANGED <<clock, polled, session, record, server, conn, since, troubles>>
Closes(b) ==
  /\ conn[b] # "off" /\ conn' = [conn EXCEPT ![b] = "off"]
  /\ wire' = [wire EXCEPT ![b] = <<>>] /\ shown' = [shown EXCEPT ![b] = Nothing]
  /\ UNCHANGED <<clock, polled, session, record, server, since, troubles>>
(* the stream dies unnoticed, and what was on it with it *)
Drops(b) ==
  /\ conn[b] = "up" /\ Trouble1("drop") /\ conn' = [conn EXCEPT ![b] = "dead"]
  /\ wire' = [wire EXCEPT ![b] = <<>>]
  /\ UNCHANGED <<clock, polled, session, record, server, shown, since>>
Restart ==
  /\ Trouble1("restart") /\ map' = Nothing /\ watches' = {}
  /\ conn' = [b \in Boards |-> IF conn[b] = "off" THEN "off" ELSE "dead"]
  /\ wire' = [b \in Boards |-> <<>>] /\ since' = clock + 1
  /\ UNCHANGED <<clock, polled, session, record, shown, saw>>

Init ==
  /\ clock = 1 /\ polled = FALSE /\ sess = 1 /\ script = [s \in Sessions |-> <<>>]
  /\ agent = "idle" /\ posts = {}
  /\ ref = 1 /\ lastEnd = 0
  /\ watches = {} /\ map = Nothing
  /\ conn = [b \in Boards |-> "off"] /\ wire = [b \in Boards |-> <<>>]
  /\ shown = [b \in Boards |-> Nothing] /\ saw = 0 /\ since = 1 /\ troubles = <<>>
Next ==
  \/ Prompt \/ ToolStarts \/ ToolEnds \/ Stops \/ TurnEnds \/ Interrupted \/ Reset
  \/ TurnEnd \/ Poll \/ Kicked \/ Second \/ Restart
  \/ \E b \in Boards : Connect(b) \/ Receive(b) \/ Closes(b) \/ Drops(b)
(* timers run, posts in flight and what is on a live stream arrive, a browser  *)
(* whose stream died tries again; the agent and the captain owe nothing.       *)
Fairness ==
  /\ WF_vars(Poll) /\ WF_vars(Second) /\ WF_vars(TurnEnd)
  /\ \A b \in Boards : WF_vars(Receive(b)) /\ WF_vars(conn[b] = "dead" /\ Connect(b))
Spec == Init /\ [][Next]_vars /\ Fairness

(* A board whose stream is up and has nothing on it shows what the server last read: it   *)
(* forgets what it showed when the stream opens, and a server with no turn running sends  *)
(* a newcomer nothing (server.js "the browser cleared its own map when it connected").    *)
AgreesWithServer == \A b \in Boards : conn[b] = "up" /\ wire[b] = <<>> => shown[b] = map
(* A tool that ended while a board was watching has been shown, however short it was, once *)
(* its hold is over (activity.js labelAt "a reader that samples once a second would only    *)
(* ever see thinking").                                                                    *)
ToolIsSeen ==
  LET ls == Lines(sess) i == ToolOf(ls)
  IN  (/\ agent = "turn" /\ ref = sess /\ i # 0 /\ ~Pending(ls) /\ ~ToldOver(ls)
       /\ Clients # {} /\ since <= DoneAt(ls, i) /\ clock >= DoneAt(ls, i) + Hold)
      => saw >= i
(* A turn that is over, however it ended, leaves every board that stays: told by its line,  *)
(* by the hook, or by a transcript that no longer moves.                                   *)
EndIsShown == \A b \in Boards :
  (agent = "idle") ~> (agent # "idle" \/ conn[b] # "up" \/ shown[b] = Nothing)
(* Within a second's poll of its start a turn that runs is on the boards that were open,    *)
(* unless the record follows another session or holds a turn end later than its start.     *)
StartIsShown ==
  LET ls == Lines(sess) i == Start(ls)
  IN  (/\ agent = "turn" /\ ref = sess /\ i # 0 /\ Clients # {} /\ polled
       /\ since <= ls[i].at /\ ls[i].at < clock /\ clock - Last(ls).at <= Quiet /\ lastEnd <= ls[i].at)
      => map # Nothing
(* Refuted: a board that opens is told of turns that run (server.js:6101).                 *)
NewcomerIsCurrent == \A b \in Boards :
  conn[b] = "up" /\ Len(wire[b]) = 2 /\ Head(wire[b]) = Opened /\ agent = "idle" /\ posts = {}
    => clock - wire[b][2].at <= Quiet
(* Refuted: a turn that runs is never taken for one that is over.                          *)
NewTurnHidden == ~(agent = "turn" /\ ref = sess /\ Start(Lines(sess)) # 0 /\ ToldOver(Lines(sess)))
=============================================================================

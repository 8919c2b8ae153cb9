------------------------------- MODULE Panes --------------------------------
(***************************************************************************)
(* Text into a pane and frames out of it: the verified submit every send,  *)
(* brief and pass-through command goes out with (src/harness/tmux.js), the *)
(* raw keys of the peek drawer, and the hub that fans one harness feed out *)
(* to every viewer of a pane (src/server/server.js).                       *)
(*                                                                         *)
(* A composer holds the texts typed and not yet submitted; an Enter hands  *)
(* them to the agent together, or is swallowed by a popup.                 *)
(***************************************************************************)
EXTENDS Naturals, FiniteSets, Sequences

CONSTANTS
  Pane, Watched,   \* the panes, and the one the hub is about
  Sender,          \* sends in flight: one text each
  MultiLine,       \* the senders whose text has line breaks
  Retries,         \* BC_SEND_RETRIES
  Client, Hub,     \* viewers, and the hub objects they come to create
  MaxGlitches,     \* bound: Enters swallowed, reads and writes that fail
  MaxKeys          \* bound: raw Enters from the drawer

NoText == "-"
NoHub == "no hub"
PanesAssumption ==
  /\ Watched \in Pane /\ MultiLine \subseteq Sender /\ IsFiniteSet(MultiLine)
  /\ NoText \notin Sender /\ NoHub \notin Hub
  /\ Retries \in Nat \ {0} /\ MaxGlitches \in Nat /\ MaxKeys \in Nat

VARIABLES
  composer,  \* composer[p]: texts typed into p and not submitted
  heard,     \* heard[p]: texts p's agent was given, in order
  buffer,    \* tmux's buffer "bc-harness"
  send,      \* each sender: pc, its pane, Enters left, the verdict
  hubs,      \* hubs[h]: viewers, and the handle: none, opening, open, closed
  current,   \* the hub in the map under the pane's key, or none
  feeding,   \* hubs whose harness feed is polling
  client,    \* what each viewer's stream is: idle, watching, ended
  glitches, keys
composing == <<composer, heard, buffer, send, keys>>
watching  == <<hubs, current, feeding, client>>
vars == <<composing, watching, glitches>>

Init ==
  /\ composer = [p \in Pane |-> <<>>] /\ heard = [p \in Pane |-> <<>>]
  /\ buffer = NoText
  /\ send \in [Sender -> [pc : {"idle"}, pane : Pane, left : {Retries}, said : {"nothing"}]]
  /\ hubs = [h \in Hub |-> [clients |-> {}, handle |-> "none"]]
  /\ current = NoHub /\ feeding = {} /\ client = [c \in Client |-> [st |-> "idle", hub |-> NoHub]]
  /\ glitches = 0 /\ keys = 0

--------------------------------------------------------------------------
(* tmux: what one call does to a pane.                                     *)
Typed(p, t) == composer' = [composer EXCEPT ![p] = Append(@, t)]
Submitted(p) == /\ heard' = [heard EXCEPT ![p] = @ \o composer[p]]
                /\ composer' = [composer EXCEPT ![p] = <<>>]
Glitch == glitches < MaxGlitches /\ glitches' = glitches + 1
At(s, pc) == send[s].pc = pc
Says(s, verdict) == send' = [send EXCEPT ![s].pc = "said", ![s].said = verdict]

(* sendLiteral: one line is typed; several ride one named buffer, in two   *)
(* calls, and the paste deletes it.                                        *)
TypeLine(s) ==
  /\ At(s, "idle") /\ s \notin MultiLine
  /\ \/ /\ Typed(send[s].pane, s) /\ send' = [send EXCEPT ![s].pc = "enter"]
        /\ UNCHANGED glitches
     \/ Glitch /\ Says(s, "send-failed") /\ UNCHANGED composer
  /\ UNCHANGED <<heard, buffer, keys, watching>>

LoadBuffer(s) ==
  /\ At(s, "idle") /\ s \in MultiLine
  /\ buffer' = s /\ send' = [send EXCEPT ![s].pc = "paste"]
  /\ UNCHANGED <<composer, heard, keys, watching, glitches>>

PasteBuffer(s) ==
  /\ At(s, "paste")
  /\ IF buffer = NoText
     THEN Says(s, "send-failed") /\ UNCHANGED <<composer, buffer>>
     ELSE /\ Typed(send[s].pane, buffer) /\ buffer' = NoText
          /\ send' = [send EXCEPT ![s].pc = "enter"]
  /\ UNCHANGED <<heard, keys, watching, glitches>>

(* submit: Enter, and a look at the cursor line; the text is never retyped. *)
AfterPendingRetyped(s) == IF send[s].left = 1 THEN "said" ELSE "idle"
AfterPending(s) == IF send[s].left = 1 THEN "said" ELSE "enter"
Enter(s) ==
  LET p == send[s].pane IN
  /\ At(s, "enter")
  /\ \/ Submitted(p) /\ UNCHANGED glitches
     \/ Glitch /\ UNCHANGED <<composer, heard>>
  /\ send' = [send EXCEPT ![s].pc = "look"]
  /\ UNCHANGED <<buffer, keys, watching>>

ComposerState(p) == IF composer[p] = <<>> THEN "empty" ELSE "pending"
Look(s) ==
  LET now == ComposerState(send[s].pane) IN
  /\ At(s, "look")
  /\ \/ /\ now = "pending"
        /\ send' = [send EXCEPT ![s] = [pc |-> AfterPending(s), pane |-> @.pane,
                                        left |-> @.left - 1, said |-> "pending"]]
        /\ UNCHANGED glitches
     \/ now = "empty" /\ Says(s, "empty") /\ UNCHANGED glitches
     \/ Glitch /\ Says(s, "unknown")
  /\ UNCHANGED <<composer, heard, buffer, keys, watching>>

\* send(): "empty" and "unknown" are success, the other two throw.
Succeeded(s) == At(s, "said") /\ send[s].said \in {"empty", "unknown"}

\* The drawer's keys go through raw: an Enter submits what is there.
RawEnter(p) ==
  /\ keys < MaxKeys /\ keys' = keys + 1
  /\ \E c \in Client : client[c].st = "watching"
  /\ p = Watched /\ Submitted(p)
  /\ UNCHANGED <<buffer, send, watching, glitches>>

--------------------------------------------------------------------------
(* The hub.                                                                *)
Viewing(h) == [st |-> "watching", hub |-> h]
Closed == [st |-> "idle", hub |-> NoHub]
Unused == {h \in Hub : hubs[h].handle = "none"}

\* A viewer joins the hub of the pane, or makes one and asks for a feed.
Watch(c) ==
  /\ client[c].st = "idle"
  /\ \E h \in Hub :
       /\ IF current = NoHub THEN h \in Unused ELSE h = current
       /\ hubs' = [hubs EXCEPT ![h] = [clients |-> @.clients \cup {c},
                                       handle |-> IF current = NoHub THEN "opening" ELSE @.handle]]
       /\ current' = h
       /\ client' = [client EXCEPT ![c] = Viewing(h)]
  /\ UNCHANGED <<composing, feeding, glitches>>

\* openPane resolved: kept only if this hub is still the one in the map.
KeepsHandle(h) == TRUE
StillMine(h) == current = h
Opened(h) ==
  /\ hubs[h].handle = "opening"
  /\ hubs' = [hubs EXCEPT ![h].handle = IF StillMine(h) THEN "open" ELSE "closed"]
  /\ feeding' = IF StillMine(h) THEN feeding \cup {h} ELSE feeding
  /\ UNCHANGED <<composing, current, client, glitches>>

\* ... or threw: the map entry goes and every response is ended.
OpenFailed(h) ==
  /\ hubs[h].handle = "opening" /\ Glitch
  /\ hubs' = [hubs EXCEPT ![h].handle = "closed"]
  /\ IF current = h
     THEN /\ current' = NoHub
          /\ client' = [c \in Client |-> IF c \in hubs[h].clients THEN [client[c] EXCEPT !.st = "ended"]
                                         ELSE client[c]]
     ELSE UNCHANGED <<current, client>>
  /\ UNCHANGED <<composing, feeding>>

\* The feed found no pane: it closes itself and tells nobody but the screen.
PaneGone(h) ==
  /\ h \in feeding /\ Glitch /\ feeding' = feeding \ {h}
  /\ UNCHANGED <<composing, hubs, current, client>>

\* The viewer's connection closes; the last one takes the key out of the map,
\* whoever's it is by now, and closes the handle.
Leave(c) ==
  LET h == client[c].hub
      left == hubs[h].clients \ {c} IN
  /\ client[c].st # "idle"
  /\ client' = [client EXCEPT ![c] = Closed]
  /\ IF left # {}
     THEN hubs' = [hubs EXCEPT ![h].clients = left] /\ UNCHANGED <<current, feeding>>
     ELSE /\ hubs' = [hubs EXCEPT ![h] = [clients |-> {}, handle |-> IF @.handle = "open" THEN "closed" ELSE @.handle]]
          /\ current' = NoHub /\ feeding' = feeding \ {h}
  /\ UNCHANGED <<composing, glitches>>

Next ==
  \/ \E s \in Sender : TypeLine(s) \/ LoadBuffer(s) \/ PasteBuffer(s) \/ Enter(s) \/ Look(s)
  \/ \E p \in Pane : RawEnter(p)
  \/ \E c \in Client : Watch(c) \/ Leave(c)
  \/ \E h \in Hub : Opened(h) \/ OpenFailed(h) \/ PaneGone(h)
Spec == Init /\ [][Next]_vars

--------------------------------------------------------------------------
Given(p, t) == Cardinality({i \in DOMAIN heard[p] : heard[p][i] = t})

\* However many Enters are retried or swallowed, and whoever else types into
\* the pane, no text reaches an agent twice, and one whose send read the
\* composer empty reached it.  (Two texts of several lines at once may take each
\* other's place in the buffer.)
SharesBuffer == IF Cardinality(MultiLine) > 1 THEN MultiLine ELSE {}
SentOnce ==
  \A s \in Sender \ SharesBuffer :
    /\ Given(send[s].pane, s) <= 1
    /\ At(s, "said") /\ send[s].said = "empty" => Given(send[s].pane, s) = 1

\* A harness feed polls only for somebody: it ends with its last viewer, also
\* when he left before it had opened.
NoLeakedFeed == \A h \in feeding : hubs[h].clients # {}

(* What the words promise and the code does not keep (README).             *)

\* "type a message into a session": the text, and that session.
RightPane == \A s \in Sender, p \in Pane : p # send[s].pane => Given(p, s) = 0
\* "the FIRST subscriber for a key opens ONE harness pane feed".
OneFeed == Cardinality(feeding) <= 1
=============================================================================

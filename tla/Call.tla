-------------------------------- MODULE Call --------------------------------
(***************************************************************************)
(* The voice call of the web UI (ui/js/call.js, the rules in callcore.js): *)
(* the microphone, the VAD, the take being captured, the chain of          *)
(* transcripts that makes a turn, its delivery, the player of the replies, *)
(* mute, a page that hides, and hanging up.                                *)
(*                                                                         *)
(* A chunk is what the captain says between two silences, numbered as it   *)
(* begins; a text is the set of chunks whose words it holds. Every await   *)
(* (microphone, transcription, POST, synthesis) is a state that a later    *)
(* step leaves, whatever happened in between.                              *)
(***************************************************************************)
EXTENDS Naturals, Sequences

CONSTANTS
  Modes,       \* how a turn may end: {"keyword", "silence"} or one of them
  MaxChunks,   \* bound: chunks spoken in a call
  MaxReplies,  \* bound: messages of the lieutenant during a call
  MaxTouches   \* bound: taps (mute, Send, the heard text), times the page is hidden and
               \* times the input device changes or the track ends, together

ASSUME CallAssumption ==
  /\ Modes \subseteq {"keyword", "silence"} /\ Modes # {}
  /\ MaxChunks \in Nat /\ MaxReplies \in Nat /\ MaxTouches \in Nat

VARIABLES
  mode,       \* the call's endMode
  st,         \* CALL_STATES
  ear,        \* the microphone and the VAD: stream, gum (getUserMedia in flight), utt
              \* (inside an utterance), muted, paused, waking (awaits of resume)
  take,       \* the take being captured
  confirmed,  \* the chunks whose barge-in was confirmed
  probe,      \* the chunk a quick transcription is asked about, 0 if none
  turn,       \* audio, frozen and buffer: the turn not yet sent; sendNow
  chain,      \* the segments to be handled, in the order spoken
  hears,      \* what the head of the chain waits for
  asked,      \* the audio of the turn the engine is listening to
  post,       \* the text being POSTed, {} if none
  player,     \* queue, pump (synthesis), air (what sounds), ducked
  awaiting,   \* the lieutenant owes an answer
  waits,      \* filler: off, open or used; status: a line in synthesis
  log         \* spoken, sent, twice (sent again), binned, failed, replies, touches

vars == <<mode, st, ear, take, confirmed, probe, turn, chain, hears, asked, post, player,
          awaiting, waits, log>>
words == <<turn, chain, hears, asked, post>>
voice == <<st, player, awaiting, waits>>

Chunks == 1..MaxChunks
States == {"idle", "listening", "capturing", "sending", "thinking", "speaking", "ended"}
NoTake == [chunk |-> 0, barge |-> FALSE, probe |-> FALSE]
NoTurn == [audio |-> {}, frozen |-> {}, buffer |-> {}, sendNow |-> FALSE]
Silent == [queue |-> 0, pump |-> "off", air |-> {}, ducked |-> FALSE]
Live == st # "ended"

Init ==
  /\ mode \in Modes
  /\ st = "idle"
  /\ ear = [stream |-> "none", gum |-> "open", utt |-> FALSE, muted |-> FALSE,
            paused |-> FALSE, waking |-> "no"]
  /\ take = NoTake /\ confirmed = {} /\ probe = 0
  /\ turn = NoTurn /\ chain = <<>> /\ hears = "nothing" /\ asked = {} /\ post = {}
  /\ player = Silent
  /\ awaiting = FALSE
  /\ waits = [filler |-> "off", status |-> FALSE]
  /\ log = [spoken |-> 0, sent |-> {}, twice |-> {}, binned |-> {}, failed |-> FALSE,
            replies |-> 0, touches |-> 0]

-----------------------------------------------------------------------------
(* The reducer, and what follows from a change of state. *)

Rest(owed) == IF owed THEN "thinking" ELSE "listening"

\* nextCallState as a table; what is not in it leaves the state alone.
Moves(owed) ==
  {<<"idle", "start", "listening">>,
   <<"listening", "speech", "capturing">>, <<"listening", "reply", "speaking">>,
   <<"listening", "commit", "sending">>,
   <<"capturing", "end", "sending">>, <<"capturing", "drop", Rest(owed)>>,
   <<"sending", "sent", "thinking">>, <<"sending", "failed", Rest(owed)>>,
   <<"sending", "speech", "capturing">>,
   <<"thinking", "speech", "capturing">>, <<"thinking", "commit", "sending">>,
   <<"thinking", "reply", "speaking">>,
   <<"speaking", "speech", "capturing">>, <<"speaking", "done", Rest(owed)>>}

NextCallState(s, ev, owed) ==
  IF \E m \in Moves(owed) : m[1] = s /\ m[2] = ev
  THEN (CHOOSE m \in Moves(owed) : m[1] = s /\ m[2] = ev)[3]
  ELSE s

\* Mutant: the player is held only while a turn is on its way.
HeldToSend(s) == s = "sending"
\* He is talking or sending: nothing new starts.
Held(s) == s \in {"capturing", "sending"}

Busy(p) == p.pump # "off" \/ p.air # {}

\* Mutant: the pump starts on an empty queue.
PumpsAnyway(p, s) ==
  IF p.pump = "off" /\ ~Held(s) THEN [p EXCEPT !.pump = "on", !.queue = @ - 1] ELSE p
\* say() and hold(false) start the pump, which takes the first sentence at once.
Pumped(p, s) ==
  IF p.pump = "off" /\ p.queue > 0 /\ ~Held(s)
  THEN [p EXCEPT !.pump = "on", !.queue = @ - 1]
  ELSE p
\* Barge-in: the queue dropped, the synthesis aborted, the air silent.
Stopped(p) == [queue |-> 0, pump |-> IF p.pump = "off" THEN "off" ELSE "stale",
               air |-> {}, ducked |-> FALSE]
Ducked(p, on) == [p EXCEPT !.ducked = on]

\* go(ev) from state s with player p.
Went(s, p, ev, owed) ==
  LET to == NextCallState(s, ev, owed)
      q == Pumped(p, to)
  IN IF to = s THEN [st |-> s, player |-> p]
     ELSE [st |-> IF to \in {"listening", "thinking"} /\ q.queue > 0 THEN "speaking" ELSE to,
           player |-> q]

Go(p, ev) ==
  /\ st' = Went(st, p, ev, awaiting).st
  /\ player' = Went(st, p, ev, awaiting).player
  /\ UNCHANGED <<awaiting, waits>>
Plays(p) == player' = p /\ UNCHANGED <<st, awaiting, waits>>

-----------------------------------------------------------------------------
(* The turn. *)

\* Mutant: the audio of what was sent or cleared is heard again.
KeepsAudio(t) == [NoTurn EXCEPT !.audio = t.audio]
ResetTurn(t) == NoTurn

\* Mutant: a transcript under way when the turn is cleared still counts.
StillCounts(h) == h
\* turnGen moved: what the engine is listening to is not of this turn any more.
Outdated(h) == IF h = "turn" THEN "stale" ELSE h

Job(kind, chunk, probation) ==
  [kind |-> kind, chunk |-> chunk, probation |-> probation, stale |-> FALSE]
Flush == Job("flush", 0, FALSE)
\* A reset makes the flushes asked for before it void.
Voided(jobs) == [i \in DOMAIN jobs |-> [jobs[i] EXCEPT !.stale = TRUE]]

Text(t) == t.frozen \cup t.audio
Touched(l) == [l EXCEPT !.touches = @ + 1]
Bin(cs) == [log EXCEPT !.binned = @ \cup cs]

\* canSend
CanSend ==
  /\ ~ear.paused /\ (ear.muted => turn.buffer # {})
  /\ IF mode = "keyword"
     THEN ~turn.sendNow /\ (turn.buffer # {} \/ take # NoTake)
     ELSE take # NoTake

-----------------------------------------------------------------------------
(* Opening, the microphone, the page. *)

\* Mutant: a stream that arrives after the call ended is kept.
KeepsStream(e) == [e EXCEPT !.stream = "live", !.gum = "none", !.utt = FALSE]
MicAttached(e) == IF Live THEN [e EXCEPT !.stream = "live", !.gum = "none", !.utt = FALSE]
                          ELSE [e EXCEPT !.gum = "none"]

\* getUserMedia resolves: the old stream let go, the take and the VAD reset.
AttachMic ==
  /\ ear.gum # "none"
  /\ ear' = MicAttached(ear)
  /\ take' = IF Live THEN NoTake ELSE take
  /\ log' = IF Live THEN Bin({take.chunk} \ {0}) ELSE log
  /\ UNCHANGED <<mode, confirmed, probe, words, voice>>
\* Refused: opening fails and the call stays on the screen, never started.
NoMic ==
  /\ ear.gum # "none"
  /\ ear' = [ear EXCEPT !.gum = "none"]
  /\ UNCHANGED <<mode, take, confirmed, probe, words, voice, log>>

\* open(), once the engine and the voice are known.
Opened ==
  /\ st = "idle" /\ ear.stream # "none"
  /\ Go(player, "start")
  /\ UNCHANGED <<mode, ear, take, confirmed, probe, words, log>>

\* The input device changes or the track ends: one remic at a time.
DeviceChanged ==
  /\ Live /\ ear.stream # "none" /\ ear.gum = "none" /\ log.touches < MaxTouches
  /\ \/ ear' = [ear EXCEPT !.gum = "remic", !.stream = "dead"]
     \/ st # "idle" /\ ~ear.paused /\ ear' = [ear EXCEPT !.gum = "remic"]
  /\ log' = Touched(log)
  /\ UNCHANGED <<mode, take, confirmed, probe, words, voice>>

Probation(t) == t.barge /\ t.chunk \notin confirmed
Unprobed(t) == IF t.barge /\ t.chunk \notin confirmed THEN Ducked(player, FALSE) ELSE player

Pause ==
  /\ Live /\ ~ear.paused /\ log.touches < MaxTouches
  /\ \E s \in {ear.stream, IF ear.stream = "none" THEN "none" ELSE "dead"} :
       ear' = [ear EXCEPT !.paused = TRUE, !.stream = s]
  /\ take' = NoTake
  /\ Plays(Unprobed(take))
  /\ log' = Touched(Bin({take.chunk} \ {0}))
  /\ UNCHANGED <<mode, confirmed, probe, words>>
\* Back within AWAY_MAX_MS. resume() awaits the clock, then maybe a new stream; that the
\* page hides and comes back twice within one resume() is left out.
Resume ==
  /\ Live /\ ear.paused /\ ear.waking = "no"
  /\ ear' = [ear EXCEPT !.paused = FALSE, !.waking = "clock"]
  /\ UNCHANGED <<mode, take, confirmed, probe, words, voice, log>>
ClockRuns ==
  /\ ear.waking = "clock"
  /\ ear' = [ear EXCEPT !.waking = "mic",
                        !.gum = IF Live /\ ear.stream # "live" /\ @ = "none" THEN "remic" ELSE @]
  /\ UNCHANGED <<mode, take, confirmed, probe, words, voice, log>>
Resumed ==
  /\ ear.waking = "mic" /\ ear.gum = "none"
  /\ ear' = [ear EXCEPT !.waking = "no", !.utt = IF Live THEN FALSE ELSE @]
  /\ UNCHANGED <<mode, take, confirmed, probe, words, voice, log>>

Mute ==
  /\ Live /\ ~ear.muted /\ log.touches < MaxTouches
  /\ ear' = [ear EXCEPT !.muted = TRUE, !.utt = FALSE]
  /\ take' = NoTake
  /\ IF take # NoTake /\ ~Probation(take) THEN Go(player, "drop") ELSE Plays(Unprobed(take))
  /\ chain' = IF turn.sendNow THEN Append(chain, Flush) ELSE chain
  /\ log' = Touched(Bin({take.chunk} \ {0}))
  /\ UNCHANGED <<mode, confirmed, probe, turn, hears, asked, post>>
Unmute ==
  /\ Live /\ ear.muted /\ log.touches < MaxTouches
  /\ ear' = [ear EXCEPT !.muted = FALSE, !.utt = FALSE]
  /\ log' = Touched(log)
  /\ UNCHANGED <<mode, take, confirmed, probe, words, voice>>

\* endCall: hung up, away too long, or the lieutenant is gone.
EndCall ==
  /\ Live
  /\ st' = "ended"
  /\ player' = Stopped(player)
  /\ waits' = [waits EXCEPT !.status = FALSE]
  /\ ear' = [ear EXCEPT !.stream = "none"]
  /\ UNCHANGED <<mode, take, confirmed, probe, words, awaiting, log>>

-----------------------------------------------------------------------------
(* What the VAD makes of the frames. *)

Framed == Live /\ ear.stream = "live" /\ ~ear.paused /\ ~ear.muted

\* An utterance starts: a take, on probation while the player is busy.
SpeechStarts ==
  /\ Framed /\ ~ear.utt /\ log.spoken < MaxChunks
  /\ ear' = [ear EXCEPT !.utt = TRUE]
  /\ take' = [chunk |-> log.spoken + 1, barge |-> Busy(player), probe |-> Busy(player)]
  /\ log' = [Bin({take.chunk} \ {0}) EXCEPT !.spoken = @ + 1]
  /\ LET quiet == [waits EXCEPT !.filler = IF @ = "open" THEN "off" ELSE @] IN
     IF Busy(player)
     THEN player' = Ducked(player, TRUE) /\ waits' = quiet /\ UNCHANGED <<st, awaiting>>
     ELSE /\ st' = Went(st, player, "speech", awaiting).st
          /\ player' = Went(st, player, "speech", awaiting).player
          /\ waits' = quiet /\ UNCHANGED awaiting
  /\ UNCHANGED <<mode, confirmed, probe, words>>

\* What onVad does when the take t ends as `how`, the player being p by then and the
\* turn tn: a cough is dropped, an utterance joins the chain.
FlushOnDrop(tn) == IF tn.sendNow THEN Append(chain, Flush) ELSE chain
\* Mutant: Send tapped over a cough is forgotten.
NoFlush(tn) == chain
Dropped(tn) == FlushOnDrop(tn)

TakeEnds(t, s, p, tn, how, conf, l) ==
  LET probation == t.barge /\ t.chunk \notin conf
      ended == Went(s, p, IF how = "end" /\ mode = "silence" THEN "end" ELSE "drop", awaiting)
  IN /\ take' = NoTake
     /\ ear' = [ear EXCEPT !.utt = FALSE]
     /\ IF probation
        THEN st' = s /\ player' = IF how = "drop" THEN Ducked(p, FALSE) ELSE p
        ELSE st' = ended.st /\ player' = ended.player
     /\ chain' = IF how = "drop" THEN Dropped(tn)
                 ELSE Append(chain, Job(IF mode = "keyword" /\ ~probation THEN "turn" ELSE "seg",
                                        t.chunk, probation))
     /\ log' = IF how = "drop" THEN [l EXCEPT !.binned = @ \cup {t.chunk}] ELSE l

SpeechEnds ==
  /\ Framed /\ ear.utt
  /\ IF take = NoTake
     THEN ear' = [ear EXCEPT !.utt = FALSE] /\ UNCHANGED <<st, player, take, chain, log>>
     ELSE \E how \in {"end", "drop"} : TakeEnds(take, st, player, turn, how, confirmed, log)
  /\ UNCHANGED <<mode, confirmed, probe, turn, hears, asked, post, awaiting, waits>>

\* confirmBarge leaves the player stopped and the state where "speech" leads.
Barged(p) == Went(st, Stopped(p), "speech", awaiting)

\* The quick transcription of a barge's first second, asked once.
ProbeBarge ==
  /\ Live /\ take.probe /\ Probation(take) /\ probe = 0
  /\ probe' = take.chunk
  /\ take' = [take EXCEPT !.probe = FALSE]
  /\ UNCHANGED <<mode, ear, confirmed, words, voice, log>>
ProbeAnswered ==
  /\ probe # 0 /\ probe' = 0
  /\ \/ UNCHANGED <<confirmed, st, player>>
     \/ /\ Live /\ probe \notin confirmed
        /\ confirmed' = confirmed \cup {probe}
        /\ st' = Barged(player).st /\ player' = Barged(player).player
  /\ UNCHANGED <<mode, ear, take, words, awaiting, waits, log>>

\* The Send button: the utterance he is in ends now; outside one, the turn is flushed.
SendTurn ==
  /\ Live /\ CanSend /\ log.touches < MaxTouches
  /\ LET tn == IF mode = "keyword" THEN [turn EXCEPT !.sendNow = TRUE] ELSE turn
         barge == take # NoTake /\ Probation(take)
         conf == IF barge THEN confirmed \cup {take.chunk} ELSE confirmed
         b == IF barge THEN Barged(player) ELSE [st |-> st, player |-> player]
     IN /\ turn' = tn /\ confirmed' = conf
        /\ IF take # NoTake /\ ear.utt
           THEN \E how \in {"end", "drop"} :
                  TakeEnds(take, b.st, b.player, tn, how, conf, Touched(log))
           ELSE /\ st' = b.st /\ player' = b.player
                /\ chain' = IF mode = "keyword" THEN Append(chain, Flush) ELSE chain
                /\ log' = Touched(log) /\ UNCHANGED <<take, ear>>
  /\ UNCHANGED <<mode, probe, hears, asked, post, awaiting, waits>>

-----------------------------------------------------------------------------
(* The chain: one segment at a time, in the order spoken. *)

\* The head is done; what is behind it was voided if the turn was reset.
HeadDone(jobs) == hears' = "nothing" /\ asked' = {} /\ chain' = Tail(jobs)
Quietly == UNCHANGED <<st, player, awaiting, waits>>

\* The head begins: its audio joins the turn and the whole turn is heard again.
HearTurn ==
  /\ hears = "nothing" /\ chain # <<>>
  /\ LET job == Head(chain) IN
     IF ~Live \/ (job.kind = "flush" /\ (job.stale \/ ~turn.sendNow))
     THEN HeadDone(chain) /\ UNCHANGED turn
     ELSE /\ hears' = IF job.kind = "seg" THEN "seg" ELSE "turn"
          /\ turn' = IF job.kind = "turn" THEN [turn EXCEPT !.audio = @ \cup {job.chunk}] ELSE turn
          /\ asked' = IF job.kind = "seg" THEN {} ELSE turn'.audio
          /\ UNCHANGED chain
  /\ UNCHANGED <<mode, ear, take, confirmed, probe, post, voice, log>>

\* deliver: the text is on its way. What was sent is told apart from what is sent twice.
Deliver(text) ==
  /\ post' = text
  /\ hears' = "post" /\ asked' = {}
Sent(l, text) == [l EXCEPT !.sent = @ \cup text, !.twice = @ \cup (text \cap l.sent)]

\* A transcript that comes too late (the call over, the turn cleared) or not at all.
TurnUnheard ==
  /\ hears \in {"turn", "stale"}
  /\ \/ (hears = "stale" \/ ~Live) /\ UNCHANGED log
     \/ Live /\ asked # {} /\ log' = [log EXCEPT !.failed = TRUE]
  /\ HeadDone(chain)
  /\ UNCHANGED <<mode, ear, take, confirmed, probe, turn, post, voice>>

\* The turn was heard: all of it, or nothing but noise.
Heard == hears = "turn" /\ Live
Readings == {{}, asked}

\* "cancela": nothing is sent.
TurnCancelled ==
  /\ Heard /\ asked # {}
  /\ log' = Bin(Text(turn))
  /\ turn' = ResetTurn(turn)
  /\ HeadDone(Voided(chain)) /\ Quietly
  /\ UNCHANGED <<mode, ear, take, confirmed, probe, post>>

\* Ended by the keyword or by the button: what comes before goes, the rest opens the
\* next turn. A keyword with nothing before it sends nothing.
TurnCommitted(text, rest) ==
  /\ turn' = [ResetTurn(turn) EXCEPT !.frozen = rest, !.buffer = rest]
  /\ IF text = {}
     THEN HeadDone(Voided(chain)) /\ Quietly /\ UNCHANGED <<post, log>>
     ELSE /\ Deliver(text)
          /\ chain' = Voided(chain)
          /\ Go(player, "commit")
          /\ log' = Sent(log, text)
  /\ UNCHANGED <<mode, ear, take, confirmed, probe>>
KeywordHeard ==
  /\ Heard /\ asked # {}
  /\ \E cut \in 0..MaxChunks :
       LET full == turn.frozen \cup asked
       IN TurnCommitted({c \in full : c <= cut}, {c \in full : c > cut})
SendNowHeard ==
  /\ Heard /\ turn.sendNow
  /\ \E said \in Readings : TurnCommitted(turn.frozen \cup said, {})

\* Neither: the text is shown; a turn past its window keeps it and starts a new one.
TurnGrows ==
  /\ Heard /\ ~turn.sendNow
  /\ \E said \in Readings :
       LET full == turn.frozen \cup said IN
       \/ turn' = [turn EXCEPT !.buffer = full] /\ HeadDone(chain)
       \/ /\ turn' = [ResetTurn(turn) EXCEPT !.frozen = full, !.buffer = full]
          /\ HeadDone(Voided(chain))
  /\ Quietly
  /\ UNCHANGED <<mode, ear, take, confirmed, probe, post, log>>

\* Tapped away, or an empty tap.
ClearBuffer ==
  /\ Live /\ mode = "keyword" /\ log.touches < MaxTouches
  /\ log' = Touched(Bin(Text(turn)))
  /\ turn' = ResetTurn(turn)
  /\ hears' = Outdated(hears) /\ UNCHANGED asked
  /\ chain' = Voided(chain)
  /\ UNCHANGED <<mode, ear, take, confirmed, probe, post, voice>>

\* A segment on its own: silence mode, or a barge on probation.
SegmentHeard ==
  /\ hears = "seg" /\ Live
  /\ LET job == Head(chain)
         barge == job.probation /\ job.chunk \notin confirmed
         b == IF barge THEN Barged(player) ELSE [st |-> st, player |-> player]
         ended == Went(b.st, b.player, IF mode = "silence" THEN "end" ELSE "drop", awaiting)
         own == IF job.probation THEN ended ELSE b
     IN \E heard \in BOOLEAN :
        IF ~heard
        THEN LET f == IF job.probation /\ ~barge THEN ended ELSE b
                 g == IF mode = "silence" THEN Went(f.st, f.player, "failed", awaiting) ELSE f
             IN /\ IF barge THEN Plays(Ducked(player, FALSE))
                   ELSE st' = g.st /\ player' = g.player /\ UNCHANGED <<awaiting, waits>>
                /\ HeadDone(chain) /\ log' = Bin({job.chunk})
                /\ UNCHANGED <<confirmed, turn, post>>
        ELSE /\ confirmed' = IF barge THEN confirmed \cup {job.chunk} ELSE confirmed
             /\ st' = own.st /\ player' = own.player /\ UNCHANGED <<awaiting, waits, chain>>
             /\ IF mode = "silence"
                THEN Deliver({job.chunk}) /\ log' = Sent(log, {job.chunk}) /\ UNCHANGED turn
                ELSE /\ turn' = [turn EXCEPT !.audio = @ \cup {job.chunk}]
                     /\ hears' = "turn" /\ asked' = turn'.audio /\ UNCHANGED <<post, log>>
  /\ UNCHANGED <<mode, ear, take, probe>>
SegmentFails ==
  /\ hears = "seg"
  /\ LET job == Head(chain)
         barge == job.probation /\ job.chunk \notin confirmed IN
     IF ~Live THEN Quietly
     ELSE IF barge THEN Plays(Ducked(player, FALSE))
     ELSE IF mode = "silence" THEN Go(player, "failed") ELSE Quietly
  /\ HeadDone(chain) /\ log' = [Bin({Head(chain).chunk}) EXCEPT !.failed = TRUE]
  /\ UNCHANGED <<mode, ear, take, confirmed, probe, turn, post>>

-----------------------------------------------------------------------------
(* The delivery, the answers, the player. *)

PostAnswered ==
  /\ post # {}
  /\ post' = {} /\ HeadDone(chain)
  /\ IF Live
     THEN /\ st' = Went(st, player, "sent", TRUE).st
          /\ player' = Went(st, player, "sent", TRUE).player
          /\ awaiting' = TRUE /\ waits' = [waits EXCEPT !.filler = "open"]
     ELSE Quietly
  /\ UNCHANGED <<mode, ear, take, confirmed, probe, turn, log>>
PostFails ==
  /\ post # {}
  /\ post' = {} /\ HeadDone(chain)
  /\ IF Live THEN Go(player, "failed") ELSE Quietly
  /\ UNCHANGED <<mode, ear, take, confirmed, probe, turn, log>>

\* callBoard finds a message of the lieutenant it has not seen: a status line under way
\* is dropped, and the sentences to be spoken are queued (two; none without engine and
\* voice, which a call that opens does not know yet).
Reply ==
  /\ Live /\ log.replies < MaxReplies
  /\ \E n \in IF st = "idle" THEN {0} ELSE {0, 2} :
       LET cut == [player EXCEPT !.air = @ \ {"status"}, !.queue = @ + n]
           said == Pumped(cut, st)
           w == IF n = 0 THEN [st |-> st, player |-> cut] ELSE Went(st, said, "reply", FALSE)
       IN st' = w.st /\ player' = w.player
  /\ awaiting' = FALSE
  /\ waits' = [waits EXCEPT !.filler = "off", !.status = FALSE]
  /\ log' = [log EXCEPT !.replies = @ + 1]
  /\ UNCHANGED <<mode, ear, take, confirmed, probe, words>>

\* Synthesis streams into the air; at its end the pump takes the next sentence.
Sounds ==
  /\ Live /\ player.pump = "on"
  /\ Plays([player EXCEPT !.air = @ \cup {"reply"}])
  /\ UNCHANGED <<mode, ear, take, confirmed, probe, words, log>>
\* The player with nothing to do says so once (idleCheck).
Idles(p) ==
  IF p.pump = "off" /\ p.air = {} /\ ~(p.queue > 0 /\ ~Held(st)) /\ st = "speaking"
  THEN Go(p, "done") ELSE Plays(p)
Synthesised ==
  /\ player.pump # "off"
  /\ Idles(Pumped([player EXCEPT !.pump = "off"], st))
  /\ UNCHANGED <<mode, ear, take, confirmed, probe, words, log>>
Ended ==
  /\ \E kind \in player.air : Idles([player EXCEPT !.air = @ \ {kind}])
  /\ UNCHANGED <<mode, ear, take, confirmed, probe, words, log>>

\* The tick of the call: a filler (once one is cached) once per wait, a status line into
\* silence.
FillerDue == waits.filler = "open"
TickFiller ==
  /\ st = "thinking" /\ ~ear.paused /\ FillerDue
  /\ waits' = [waits EXCEPT !.filler = "used"]
  /\ player' = IF Busy(player) THEN player ELSE [player EXCEPT !.air = {"filler"}]
  /\ UNCHANGED <<mode, ear, take, confirmed, probe, words, st, awaiting, log>>
StatusWanted == st = "thinking" /\ awaiting /\ ~ear.paused /\ ~Busy(player)
\* Time and the activity decide when; what is said is left out.
StatusDue == awaiting /\ ~Busy(player)
TickStatus ==
  /\ StatusWanted /\ ~waits.status /\ StatusDue
  /\ waits' = [waits EXCEPT !.status = TRUE]
  /\ UNCHANGED <<mode, ear, take, confirmed, probe, words, st, player, awaiting, log>>
\* The line is ready, and played only if the moment is still right; or it failed.
SayStatus ==
  /\ waits.status
  /\ waits' = [waits EXCEPT !.status = FALSE]
  /\ \/ StatusWanted /\ player' = [player EXCEPT !.air = {"status"}]
     \/ UNCHANGED player
  /\ UNCHANGED <<mode, ear, take, confirmed, probe, words, st, awaiting, log>>

-----------------------------------------------------------------------------
Segments == \/ HearTurn \/ TurnUnheard \/ TurnCancelled \/ KeywordHeard \/ SendNowHeard
            \/ TurnGrows \/ SegmentHeard \/ SegmentFails
Posts == PostAnswered \/ PostFails
Waking == AttachMic \/ Resume \/ ClockRuns \/ Resumed

Next == \/ NoMic \/ Opened \/ DeviceChanged \/ Pause \/ Waking \/ Mute \/ Unmute \/ EndCall
        \/ SpeechStarts \/ SpeechEnds \/ ProbeBarge \/ ProbeAnswered \/ SendTurn
        \/ Segments \/ ClearBuffer \/ Posts
        \/ Reply \/ Sounds \/ Synthesised \/ Ended \/ TickFiller \/ TickStatus \/ SayStatus

\* Silence ends an utterance, engines and requests answer, sounds end, a page comes back
\* (or the away timer ends the call). The captain need not speak, nor the lieutenant answer.
Fairness == /\ WF_vars(SpeechEnds) /\ WF_vars(Segments) /\ WF_vars(Posts)
            /\ WF_vars(Synthesised) /\ WF_vars(Ended) /\ WF_vars(Waking) /\ WF_vars(Opened)
            /\ WF_vars(ProbeAnswered)

Spec == Init /\ [][Next]_vars /\ Fairness

-----------------------------------------------------------------------------
(* Properties. *)

\* Every variable has its type.
TypeOK ==
  /\ mode \in Modes /\ st \in States
  /\ ear \in [stream : {"none", "live", "dead"}, gum : {"none", "open", "remic"},
              utt : BOOLEAN, muted : BOOLEAN, paused : BOOLEAN, waking : {"no", "clock", "mic"}]
  /\ take \in [chunk : 0..MaxChunks, barge : BOOLEAN, probe : BOOLEAN]
  /\ confirmed \subseteq Chunks /\ probe \in 0..MaxChunks
  /\ turn \in [audio : SUBSET Chunks, frozen : SUBSET Chunks, buffer : SUBSET Chunks,
               sendNow : BOOLEAN]
  /\ \A i \in DOMAIN chain :
       chain[i] \in [kind : {"turn", "seg", "flush"}, chunk : 0..MaxChunks,
                    probation : BOOLEAN, stale : BOOLEAN]
  /\ hears \in {"nothing", "turn", "seg", "stale", "post"}
  /\ post \subseteq Chunks /\ asked \subseteq Chunks
  /\ player \in [queue : 0..(2 * MaxReplies), pump : {"off", "on", "stale"},
                 air : SUBSET {"reply", "filler", "status"}, ducked : BOOLEAN]
  /\ awaiting \in BOOLEAN
  /\ waits \in [filler : {"off", "open", "used"}, status : BOOLEAN]

\* What he said goes to the lieutenant in one message only, however often the turn it
\* belongs to is heard again (turnHeard, resetTurn and the generation between them).
SentOnce == log.twice = {}

\* What was thrown away is never sent: a take open at a mute, a pause or a new stream, a
\* turn cancelled or cleared while the engine listens to it (turnHeard's check of turnGen).
BinnedNeverSent == log.binned \cap log.sent = {}

\* While he is heard talking nothing sounds: what was playing was stopped, what arrives is
\* held (go's player.hold, confirmBarge, tickFiller, sayStatus).
QuietWhileHeTalks == st = "capturing" => player.air = {}

\* His turn is his: what he said goes once, what he threw away not at all, and he is not
\* talked over.
HisTurnKept == SentOnce /\ BinnedNeverSent /\ QuietWhileHeTalks

\* A call that ended sends nothing, plays nothing and holds no microphone, whatever it had
\* under way (every `call !== c` after an await).
HangUpEndsIt ==
  [][st = "ended" => /\ log'.sent = log.sent
                     /\ player'.air = {}
                     /\ ear'.stream = "none"]_vars

\* A tap on Send ends the turn: it goes, is cancelled or is cleared, unless a transcription
\* failed (sendTurn, flushTurn, the drop in onVad, the mute).
SendIsAnswered ==
  turn.sendNow ~> (~turn.sendNow \/ log.failed \/ st = "ended")

\* The call does what its two buttons say.
ButtonsObeyed == HangUpEndsIt /\ SendIsAnswered

\* A reply that landed while he was talking starts when he stops (call.js:605).
ReplyIsHeard == player.queue > 0 ~> player.queue = 0

\* The reply is turned down only while a barge-in is on probation (call.js:622).
DuckedOnProbation ==
  player.ducked => \/ take # NoTake /\ Probation(take)
                   \/ \E i \in DOMAIN chain : chain[i].probation
                   \/ st = "ended"

\* An open take owns the state, whatever an older one turns out to be (call.js:649).
TakeOwnsState ==
  take # NoTake /\ ear.utt /\ ~Probation(take) => st \in {"capturing", "idle", "ended"}
=============================================================================

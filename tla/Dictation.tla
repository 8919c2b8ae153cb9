------------------------------ MODULE Dictation ------------------------------
(***************************************************************************)
(* What he dictates: the microphone beside the composer (src/ui/js/mic.js, *)
(* one recorder and one upload per utterance) and the one of the 3D room   *)
(* (src/ui/js/bridge3d/talk.js, one microphone for the visit, chunks over a*)
(* websocket that src/server/sttproxy.js pipes to the engine).             *)
(***************************************************************************)
EXTENDS Naturals, Sequences, SequencesExt, FiniteSets

CONSTANTS
  MaxTaps,     \* bound: utterances begun in the composer
  MaxTakes,    \* bound: utterances begun in the room
  MaxChunks,   \* bound: chunks of an utterance, a second each
  Trouble, MaxTrouble   \* what may happen besides (see TroubleKinds), how many of them

TroubleKinds == {"twice",  \* tapped again while the browser asks for the microphone
  "escape",    \* thrown away
  "deny",      \* no microphone
  "recfail",   \* a recorder stops by itself
  "upfail"}    \* the upload, or the socket, fails

DictationAssumption ==
  /\ {MaxTaps, MaxTakes, MaxChunks, MaxTrouble} \subseteq Nat /\ Trouble \subseteq TroubleKinds

None == 0
Taps == 1..MaxTaps

VARIABLES
  take,       \* mic.js: the current take
  st,         \* each utterance: asking, recording, flushing, sending, over
  track,      \* those whose microphone is open
  wrote,      \* utterances whose words are in the composer, as often as that
  told,       \* utterances that ended in a line under it
  thrown,     \* history: those he escaped from
  room,       \* talk.js: the take: its state, socket, recorder, text, `pending`, timer
  hush,       \* whether the crew is silent for it
  takes,      \* takes begun
  up, down,   \* chunks the engine has; its answers in the air: chunks each covers
  part, troubles
composer == <<take, st, track, wrote, told, thrown>>
visit == <<room, hush, takes, up, down>>
vars == <<composer, visit, part, troubles>>

Nobody == [state |-> "idle", ws |-> "none", rec |-> "none", text |-> 0, pending |-> FALSE, timer |-> FALSE]

TypeOK ==
  /\ take \in 0..MaxTaps /\ st \in [Taps -> {"unborn", "asking", "recording", "flushing", "sending", "over"}]
  /\ track \subseteq Taps /\ wrote \in [Taps -> 0..2] /\ told \subseteq Taps /\ thrown \subseteq Taps
  /\ room.state \in {"idle", "recording", "settling", "heard", "error"}
  /\ room.ws \in {"none", "connecting", "open"} /\ room.rec \in {"none", "on", "flushing", "off"}
  /\ hush \in BOOLEAN /\ up \in 0..(MaxChunks + 1) /\ down \in Seq(0..(MaxChunks + 1))
  /\ troubles \subseteq Trouble

Init ==
  /\ take = None /\ st = [n \in Taps |-> "unborn"] /\ track = {} /\ wrote = [n \in Taps |-> 0]
  /\ told = {} /\ thrown = {}
  /\ room = Nobody /\ hush = FALSE /\ takes = 0 /\ up = 0 /\ down = <<>>
  /\ part \in {"composer", "room"} /\ troubles = {}

Befalls(kind) == /\ kind \in Trouble \ troubles /\ Cardinality(troubles) < MaxTrouble
                 /\ troubles' = troubles \cup {kind}

-----------------------------------------------------------------------------
(* The composer                                                            *)

Asking == {n \in Taps : st[n] = "asking"}
Begun == {n \in Taps : st[n] # "unborn"}
Tap ==
  /\ part = "composer" /\ take = None
  /\ \/ Asking = {} /\ UNCHANGED troubles
     \/ Asking # {} /\ Befalls("twice")
  /\ \E n \in Taps \ Begun :
       /\ \A k \in Taps \ Begun : n <= k
       /\ st' = [st EXCEPT ![n] = "asking"]
  /\ UNCHANGED <<take, track, wrote, told, thrown, visit, part>>
Granted(n) ==
  /\ st[n] = "asking"
  /\ take' = n /\ track' = track \cup {n}
  /\ st' = [st EXCEPT ![n] = "recording"]
  /\ UNCHANGED <<wrote, told, thrown, visit, part, troubles>>
Refused(n) ==
  /\ st[n] = "asking" /\ Befalls("deny")
  /\ st' = [st EXCEPT ![n] = "over"] /\ told' = told \cup {n}
  /\ UNCHANGED <<take, track, wrote, thrown, visit, part>>
TapAgain ==
  /\ take # None /\ st[take] = "recording" /\ st' = [st EXCEPT ![take] = "flushing"]
  /\ UNCHANGED <<take, track, wrote, told, thrown, visit, part, troubles>>
StaysOpen(t) == UNCHANGED track                               \* (a mutant's)
Closes(t) == track' = track \ {t}
\* The recorder has flushed: what is current is uploaded.
Stopped(n) ==
  /\ st[n] = "flushing"
  /\ IF n = take THEN st' = [st EXCEPT ![n] = "sending"] /\ Closes(n)
     ELSE st' = [st EXCEPT ![n] = "over"] /\ UNCHANGED track
  /\ UNCHANGED <<take, wrote, told, thrown, visit, part, troubles>>
\* drop(): whatever the current take holds.
Drop == /\ take' = None
        /\ IF take = None THEN UNCHANGED <<st, track>>
           ELSE /\ Closes(take)
                /\ st' = [st EXCEPT ![take] = IF @ = "recording" THEN "flushing" ELSE @]
RecorderFails(n) ==
  /\ st[n] \in {"recording", "flushing"} /\ Befalls("recfail")
  /\ Drop /\ told' = told \cup {n} \cup ({take} \ {None})
  /\ UNCHANGED <<wrote, thrown, visit, part>>
Anyones(n) == TRUE                                            \* (a mutant's)
Current(n) == n = take
Answered(n) ==
  /\ st[n] = "sending" /\ st' = [st EXCEPT ![n] = "over"]
  /\ \/ /\ UNCHANGED <<told, troubles>>
        /\ wrote' = IF Current(n) THEN [wrote EXCEPT ![n] = @ + 1] ELSE wrote
     \/ /\ Befalls("upfail") /\ UNCHANGED wrote
        /\ told' = IF Current(n) THEN told \cup {n} ELSE told
  /\ take' = IF Current(n) THEN None ELSE take
  /\ UNCHANGED <<track, thrown, visit, part>>
Escapes ==
  /\ part = "composer" /\ take # None /\ Befalls("escape")
  /\ Drop /\ thrown' = thrown \cup {take}
  /\ UNCHANGED <<wrote, told, visit, part>>

-----------------------------------------------------------------------------
(* The room                                                                *)

Recording == room.state = "recording"
StaysHushed == hush                                         \* (a mutant's)
Unhushed == FALSE
\* close(): the timer, the hush, the recorder, the socket.
Ends(state) == /\ room' = [Nobody EXCEPT !.state = state, !.text = room.text]
               /\ hush' = Unhushed /\ down' = <<>>
Begin ==
  /\ part = "room" /\ takes < MaxTakes /\ takes' = takes + 1 /\ up' = 0 /\ down' = <<>>
  /\ \/ /\ room' = [Nobody EXCEPT !.state = "recording", !.ws = "connecting"] /\ hush' = TRUE
        /\ UNCHANGED troubles
     \/ /\ Befalls("deny")      \* the gate's microphone was refused: a take that fails at once
        /\ room' = [Nobody EXCEPT !.state = "error"] /\ hush' = FALSE
  /\ UNCHANGED <<composer, part>>
NoDeadline == [room EXCEPT !.state = "settling", !.rec = "flushing"]   \* (a mutant's)
Flush == [room EXCEPT !.state = "settling", !.rec = "flushing", !.timer = TRUE]
Opens ==
  /\ room.ws = "connecting"
  /\ room' = [(IF room.pending THEN Flush ELSE [room EXCEPT !.rec = "on"]) EXCEPT !.ws = "open"]
  /\ UNCHANGED <<composer, hush, takes, up, down, part, troubles>>
SendsChunk ==
  /\ room.rec = "on" /\ up < MaxChunks /\ up' = up + 1
  /\ UNCHANGED <<composer, room, hush, takes, down, part, troubles>>
\* The last chunk leaves a while after stop() was called.
Flushed ==
  /\ room.rec = "flushing" /\ room' = [room EXCEPT !.rec = "off"]
  /\ up' = up + 1
  /\ UNCHANGED <<composer, hush, takes, down, part, troubles>>
\* The engine sends everything heard so far, now and then, and after the last chunk at least.
Transcribes ==
  /\ room.ws = "open" /\ up > 0 /\ Len(down) < 2
  /\ ToSet(down) \cap {up} = {}
  /\ down' = Append(down, up)
  /\ UNCHANGED <<composer, room, hush, takes, up, part, troubles>>
LetsGo ==
  /\ Recording /\ ~room.pending
  /\ hush' = FALSE
  /\ IF room.rec = "none" THEN room' = [room EXCEPT !.pending = TRUE] ELSE room' = Flush
  /\ UNCHANGED <<composer, takes, up, down, part, troubles>>
Message ==
  /\ down # <<>> /\ room.state \in {"recording", "settling"}
  /\ IF room.state = "settling"
     THEN /\ room' = [Nobody EXCEPT !.state = "heard", !.text = Head(down)]
          /\ hush' = Unhushed /\ down' = <<>>
     ELSE /\ room' = [room EXCEPT !.text = Head(down)] /\ down' = Tail(down) /\ UNCHANGED hush
  /\ UNCHANGED <<composer, takes, up, part, troubles>>
TimesOut ==
  /\ room.timer /\ room.rec = "off"
  /\ Ends(IF room.text > 0 THEN "heard" ELSE "error")
  /\ UNCHANGED <<composer, takes, up, part, troubles>>
Breaks ==
  /\ room.state \in {"recording", "settling"}
  /\ Befalls("upfail") \/ (room.rec # "none" /\ Befalls("recfail"))
  /\ Ends("error")
  /\ UNCHANGED <<composer, takes, up, part>>
\* "Again", a chat that closes, the visit's end.
Drops ==
  /\ room.state # "idle" /\ Befalls("escape")
  /\ Ends("idle")
  /\ UNCHANGED <<composer, takes, up, part>>

Next ==
  \/ Tap \/ TapAgain \/ Escapes
  \/ \E n \in Taps : Granted(n) \/ Refused(n) \/ Stopped(n) \/ RecorderFails(n) \/ Answered(n)
  \/ Begin \/ Opens \/ SendsChunk \/ Flushed \/ Transcribes \/ LetsGo \/ Message \/ TimesOut
  \/ Breaks \/ Drops

\* The browser answers, a recorder flushes, uploads are answered or fail, a socket opens, the
\* deadline fires; he taps a second time, and lets go.
Fairness ==
  /\ \A n \in Taps : WF_vars(Granted(n)) /\ WF_vars(Stopped(n)) /\ WF_vars(Answered(n))
  /\ WF_vars(TapAgain) /\ WF_vars(Opens) /\ WF_vars(Flushed) /\ SF_vars(LetsGo)
  /\ WF_vars(TimesOut) /\ WF_vars(Message)
Spec == Init /\ [][Next]_vars /\ Fairness

-----------------------------------------------------------------------------
\* The microphone does not outlive the utterance, but for the one whose take was overwritten by
\* the second of two taps (mic.js drop).
IndicatorGoesOut == \A n \in Taps : n \in track ~> n \notin track \/ "twice" \in troubles

\* Every utterance comes to the composer once, or says why not, or was thrown away; what was
\* thrown away never comes (mic.js "only the take that is current ... may write").
WordsComeOnce ==
  /\ \A n \in Taps : wrote[n] <= 1 /\ (n \in thrown => wrote[n] = 0)
  /\ \A n \in Taps : st[n] = "over" => wrote[n] = 1 \/ n \in told \cup thrown \/ "twice" \in troubles

\* The crew is silent while he speaks and not a step longer, however the take ends
\* (talk.js unhush "every way a take can die").
CrewSpeaksAgain == hush => Recording /\ ~room.pending

\* A take he let go of comes to an end: heard or explained (talk.js FINAL_MS).
TakeSettles == room.state = "settling" \/ room.pending ~> room.state \in {"heard", "error", "idle"}

\* "The microphone indicator must not outlive the utterance" (mic.js): no, after two taps.
AlwaysGoesOut == \A n \in Taps : n \in track ~> n \notin track
\* "The first thing said after the flush is the final one" (talk.js): no, an answer to an earlier
\* chunk may be in the air.
HeardToTheEnd == room.state = "heard" => room.text = up
=============================================================================

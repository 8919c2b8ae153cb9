------------------------------- MODULE Speech -------------------------------
(***************************************************************************)
(* The board's voice: which messages are spoken and when                   *)
(* (src/ui/js/voice.js, a queue drained one message at a time), how one is *)
(* spoken (src/ui/js/speech.js: a stream of buffers scheduled ahead into   *)
(* an audio context, heard through one element), how the session is held   *)
(* open between them (speech.js hold, src/ui/js/keepalivesettings.js), and *)
(* the engine's end of the stream (src/server/ttsproxy.js).                *)
(*                                                                         *)
(* A message is its number.  Whether a timer armed from the length of the  *)
(* audio may end before the audio does is `drift`: the wall clock went on  *)
(* while nothing of this message was heard.                                *)
(***************************************************************************)
EXTENDS Naturals, Sequences, SequencesExt, FiniteSets

CONSTANTS
  MaxSaid,     \* bound: messages ever put in the queue
  QueueMax,    \* QUEUE_MAX
  MaxChunks,   \* bound: buffers of one message
  MaxHolds,    \* bound: times the keep-alive is switched
  Trouble, MaxTrouble   \* what may happen besides (see TroubleKinds), how many of them

TroubleKinds == {"pause",  \* pressed on the page or on the lock screen
  "dry",       \* the stream stops for longer than what was buffered
  "dies",      \* the context is dead and reads `running`
  "fails",     \* the engine refuses, or the stream breaks
  "stalls",    \* the engine goes quiet
  "stop", "skip", "halt",   \* stopSpeaking, skipSpeaking, the transport's stop
  "denied"}    \* play() is refused

SpeechAssumption ==
  /\ {MaxSaid, QueueMax, MaxChunks, MaxHolds, MaxTrouble} \subseteq Nat /\ Trouble \subseteq TroubleKinds

None == 0
Said == 1..MaxSaid

VARIABLES
  voiceOn, queue,  \* the toggle; numbers of the messages waiting
  said,       \* messages so far
  loop,       \* drain(): where it is, its message, whether a stop bumped its session
  manual,     \* manualSpeakingKey
  live,       \* speech.js: the speech in flight
  sent, over, \* of it: buffers scheduled so far, nothing more is coming
  pending,    \* its buffers still to be heard
  lost,       \* those that went with a context replaced under them
  ghosts,     \* buffers no longer anybody's that are still scheduled
  audio,      \* the context, what the beat found, the sink, the element, the hum, the switch
  holds,      \* how often the switch was pressed
  engine,     \* the messages the engine is synthesizing
  stalled,    \* of them, those it went quiet on
  drift,      \* history: messages whose tail is shorter than their sound
  fate,       \* history: what became of each message
  troubles    \* history: which befell, each once
vars == <<voiceOn, queue, said, loop, manual, live, sent, over, pending, lost, ghosts, audio,
          holds, engine, stalled, drift, fate, troubles>>

Fates == {"unsaid", "waiting", "speaking", "heard", "skipped", "silenced", "failed", "cut"}
Idle == [at |-> "idle", m |-> None, stale |-> FALSE]

TypeOK ==
  /\ voiceOn \in BOOLEAN /\ queue \in Seq(Said) /\ said \in 0..MaxSaid
  /\ loop.at \in {"idle", "opening", "streaming", "tail", "next"} /\ loop.m \in 0..MaxSaid
  /\ live \in 0..MaxSaid /\ manual \in 0..MaxSaid /\ over \in BOOLEAN
  /\ {sent, pending, lost} \subseteq 0..MaxChunks /\ ghosts \in 0..(MaxChunks * MaxSaid)
  /\ audio.ctx \in {"none", "running", "suspended", "corpse"} /\ audio.sink \in {"none", "open", "refused"}
  /\ engine \subseteq Said /\ stalled \subseteq engine /\ drift \subseteq Said
  /\ fate \in [Said -> Fates] /\ troubles \subseteq Trouble

Init ==
  /\ voiceOn \in BOOLEAN /\ queue = <<>> /\ said = 0 /\ loop = Idle /\ manual = None
  /\ live = None /\ sent = 0 /\ over = FALSE /\ pending = 0 /\ lost = 0 /\ ghosts = 0
  /\ audio = [ctx |-> "none", dead |-> FALSE, sink |-> "none", el |-> FALSE, hum |-> FALSE,
              held |-> FALSE, owned |-> FALSE]
  /\ holds = 0 /\ engine = {} /\ stalled = {} /\ drift = {}
  /\ fate = [m \in Said |-> "unsaid"] /\ troubles = {}

Befalls(kind) == /\ kind \in Trouble \ troubles /\ Cardinality(troubles) < MaxTrouble
                 /\ troubles' = troubles \cup {kind}

-----------------------------------------------------------------------------
(* The audio: operators from what it was to what it is                     *)

\* audio(): a context known to be a corpse is replaced, and its sink with it.
Alive(a) == IF a.ctx = "none" \/ a.dead
            THEN [a EXCEPT !.ctx = "running", !.dead = FALSE, !.sink = IF a.dead THEN "none" ELSE @]
            ELSE a
Resumed(a) == [a EXCEPT !.ctx = IF @ = "suspended" THEN "running" ELSE @]

HumOn(a) == IF a.hum \/ ~a.held \/ a.owned \/ a.sink = "refused" THEN a
            ELSE [Resumed(Alive(a)) EXCEPT !.hum = TRUE, !.sink = "open", !.el = TRUE]
HumOff(a) == [a EXCEPT !.hum = FALSE]
LetsGo(a) == [a EXCEPT !.owned = FALSE, !.el = FALSE]         \* (a mutant's: never holds)
CloseSink(a) == IF a.held THEN HumOn([a EXCEPT !.owned = FALSE])
                ELSE [a EXCEPT !.owned = FALSE, !.el = FALSE]
OpenSink(a) == IF a.sink = "refused" THEN a ELSE [a EXCEPT !.sink = "open", !.el = TRUE]

Sounds == audio.ctx = "running"
Unheard == pending + lost > 0 \/ ~over
\* Leftovers go with the context they were scheduled in.
Leftovers(a) == ghosts' = IF audio.dead /\ ~a.dead THEN 0 ELSE ghosts

-----------------------------------------------------------------------------
(* The queue                                                               *)

\* engineSpeak as far as its first await: what was live is stopped, the tone yields, the context
\* is alive and the element armed inside the tap.
Speaks(m, fates) ==
  LET before == IF live = None THEN audio ELSE CloseSink(Resumed(audio))
      now == Resumed(OpenSink(Alive(HumOff([before EXCEPT !.owned = TRUE]))))
  IN /\ audio' = now /\ Leftovers(now)
     /\ live' = m /\ sent' = 0 /\ over' = FALSE /\ pending' = 0 /\ lost' = 0
     /\ engine' = engine \cup {m}
     /\ fate' = [f \in Said |-> IF f = m THEN "speaking"
                                ELSE IF f = live /\ Unheard /\ fates[f] = "speaking" THEN "cut" ELSE fates[f]]
     /\ loop' = [at |-> "opening", m |-> m, stale |-> FALSE]

Quiet == UNCHANGED <<loop, live, sent, over, pending, lost, ghosts, audio, engine>>
\* Over the top the middle goes and the newest stays.
Enqueue(m) ==
  LET longer == Append(queue, m)
      trimmed == IF Len(longer) > QueueMax THEN RemoveAt(longer, QueueMax) ELSE longer
      fates == [f \in Said |-> IF f \in ToSet(longer) \ ToSet(trimmed) THEN "skipped"
                               ELSE IF f = m THEN "waiting" ELSE fate[f]]
  IN IF loop.at = "idle" THEN queue' = <<>> /\ Speaks(m, fates)
     ELSE queue' = trimmed /\ fate' = fates /\ Quiet

\* A lieutenant's new message (trackMessages, speak).
Arrives ==
  /\ voiceOn /\ said < MaxSaid /\ said' = said + 1
  /\ manual' = None
  /\ Enqueue(said + 1)
  /\ UNCHANGED <<voiceOn, holds, stalled, drift, troubles>>
\* The button beside one (speakMessage); its second press is StopsSpeaking.
Pressed ==
  /\ said < MaxSaid /\ said' = said + 1
  /\ manual' = said + 1
  /\ Enqueue(said + 1)
  /\ UNCHANGED <<voiceOn, holds, stalled, drift, troubles>>

\* speech.js stop().
Stop ==
  IF live = None THEN UNCHANGED <<live, pending, lost, audio, ghosts>>
  ELSE LET now == CloseSink(Resumed(audio))
       IN audio' = now /\ Leftovers(now) /\ live' = None /\ pending' = 0 /\ lost' = 0
Bumped == loop' = IF loop.at = "idle" THEN loop
                  ELSE [loop EXCEPT !.stale = TRUE, !.at = IF @ = "tail" THEN "next" ELSE @]
Silenced(ms) == fate' = [f \in Said |-> IF f \in ms /\ fate[f] \in {"waiting", "speaking"}
                                        THEN "silenced" ELSE fate[f]]
KeepsQueue == UNCHANGED queue                                 \* (a mutant's)
DropsQueue == queue' = <<>>
StopsSpeaking ==
  /\ DropsQueue /\ Bumped /\ Stop
  /\ Silenced(ToSet(queue) \cup {live, loop.m})
  /\ UNCHANGED <<said, sent, over, holds, engine, stalled, drift>>
PressedAgain ==
  /\ manual # None /\ loop.at # "idle" /\ Befalls("stop")
  /\ manual' = None /\ StopsSpeaking
  /\ UNCHANGED voiceOn
VoiceOff == /\ voiceOn /\ voiceOn' = FALSE /\ Befalls("stop") /\ StopsSpeaking /\ UNCHANGED manual
VoiceOn == /\ ~voiceOn /\ voiceOn' = TRUE
           /\ UNCHANGED <<queue, said, loop, manual, live, sent, over, pending, lost, ghosts, audio,
                          holds, engine, stalled, drift, fate, troubles>>
\* Pressing the lieutenant who is speaking, in the room.
Skips ==
  /\ loop.at # "idle" /\ ~loop.stale /\ Befalls("skip")
  /\ manual' = None /\ Bumped /\ Stop /\ Silenced({live, loop.m})
  /\ UNCHANGED <<voiceOn, queue, said, sent, over, holds, engine, stalled, drift>>
\* The stop of the transport and of the lock screen: speech.js alone.
Halts ==
  /\ live # None /\ Befalls("halt")
  /\ Stop /\ Silenced({live})
  /\ UNCHANGED <<voiceOn, queue, said, loop, manual, sent, over, holds, engine, stalled, drift>>

-----------------------------------------------------------------------------
(* The stream                                                              *)

InStream == loop.at \in {"opening", "streaming"} /\ live = loop.m

\* A buffer arrives and is scheduled after the last one.
Chunk ==
  /\ InStream /\ loop.m \notin stalled /\ sent < MaxChunks
  /\ \/ sent > 0 /\ pending = 0 /\ Befalls("dry")
     \/ (sent = 0 \/ pending > 0) /\ UNCHANGED troubles
  /\ sent' = sent + 1 /\ pending' = pending + 1
  /\ drift' = IF Sounds /\ (sent = 0 \/ pending > 0) THEN drift ELSE drift \cup {loop.m}
  /\ loop' = [loop EXCEPT !.at = "streaming"]
  /\ UNCHANGED <<voiceOn, queue, said, manual, live, over, lost, ghosts, audio, holds, engine, stalled, fate>>

\* The stream is over: speak() resolves, and the loop waits for what is left of the sound.
StreamEnds ==
  /\ InStream /\ loop.m \notin stalled /\ sent > 0
  /\ over' = TRUE /\ engine' = engine \ {loop.m}
  /\ IF pending + lost = 0 THEN /\ audio' = CloseSink(audio) /\ Leftovers(audio')
                                /\ fate' = [fate EXCEPT ![loop.m] = "heard"]
     ELSE UNCHANGED <<audio, ghosts, fate>>
  /\ loop' = [loop EXCEPT !.at = IF loop.stale THEN "next" ELSE "tail"]
  /\ UNCHANGED <<voiceOn, queue, said, manual, live, sent, pending, lost, holds, stalled, drift, troubles>>

GivesUp == loop' = Idle                                       \* (a mutant's)
GoesOn == loop' = [loop EXCEPT !.at = "next"]
\* Refused or broken: what was scheduled stays scheduled.
Fails ==
  /\ InStream
  /\ \/ Befalls("fails")
     \/ loop.m \in stalled /\ UNCHANGED troubles    \* the proxy's deadline
  /\ live' = None /\ pending' = 0 /\ lost' = 0 /\ ghosts' = ghosts + pending
  /\ audio' = CloseSink(audio)
  /\ engine' = engine \ {loop.m} /\ stalled' = stalled \ {loop.m}
  /\ fate' = [fate EXCEPT ![loop.m] = "failed"]
  /\ GoesOn
  /\ UNCHANGED <<voiceOn, queue, said, manual, sent, over, holds, drift>>
Stalls == /\ InStream /\ loop.m \notin stalled /\ Befalls("stalls") /\ stalled' = stalled \cup {loop.m}
          /\ UNCHANGED <<voiceOn, queue, said, loop, manual, live, sent, over, pending, lost, ghosts,
                         audio, holds, engine, drift, fate>>
\* stop() aborted the request: nothing of it is left to wait for.
Aborted ==
  /\ loop.at \in {"opening", "streaming"} /\ live # loop.m
  /\ loop' = [loop EXCEPT !.at = "next"]
  /\ UNCHANGED <<voiceOn, queue, said, manual, live, sent, over, pending, lost, ghosts, audio,
                 holds, engine, stalled, drift, fate, troubles>>
\* The hang-up reaches the proxy, which kills the engine's request.
Deaf == UNCHANGED <<engine, stalled>>                         \* (a mutant's)
Kills == /\ engine' = IF InStream THEN engine \cap {loop.m} ELSE {}
         /\ stalled' = stalled \cap engine'
HangsUp ==
  /\ engine \ (IF InStream THEN {loop.m} ELSE {}) # {}
  /\ Kills
  /\ UNCHANGED <<voiceOn, queue, said, loop, manual, live, sent, over, pending, lost, ghosts, audio,
                 holds, drift, fate, troubles>>

\* onended: only "no buffers left AND nothing more coming" is the end.
Heard ==
  /\ Sounds /\ pending > 0 /\ pending' = pending - 1
  /\ IF pending' + lost = 0 /\ over
     THEN audio' = CloseSink(audio) /\ Leftovers(audio') /\ fate' = [fate EXCEPT ![live] = "heard"]
     ELSE UNCHANGED <<audio, ghosts, fate>>
  /\ UNCHANGED <<voiceOn, queue, said, loop, manual, live, sent, over, lost, holds, engine, stalled,
                 drift, troubles>>
GhostHeard == /\ Sounds /\ ghosts > 0 /\ ghosts' = ghosts - 1
              /\ UNCHANGED <<voiceOn, queue, said, loop, manual, live, sent, over, pending, lost, audio,
                             holds, engine, stalled, drift, fate, troubles>>
\* The wait ends: with the sound, or before it when the wall clock ran ahead.
Elapsed == TRUE                                               \* (a mutant's)
TailIsOver == pending = 0 \/ loop.m \in drift
TailEnds ==
  /\ loop.at = "tail" /\ TailIsOver
  /\ loop' = [loop EXCEPT !.at = "next"]
  /\ UNCHANGED <<voiceOn, queue, said, manual, live, sent, over, pending, lost, ghosts, audio,
                 holds, engine, stalled, drift, fate, troubles>>
TakesNext ==
  /\ loop.at = "next"
  /\ IF queue = <<>> THEN /\ loop' = Idle
                          /\ UNCHANGED <<queue, live, sent, over, pending, lost, ghosts, audio, engine, fate>>
     ELSE queue' = Tail(queue) /\ Speaks(Head(queue), fate)
  /\ UNCHANGED <<voiceOn, said, manual, holds, stalled, drift, troubles>>

-----------------------------------------------------------------------------
(* The session                                                             *)

Drifts == drift' = IF live # None /\ sent > 0 /\ Unheard THEN drift \cup {live} ELSE drift
Pauses ==
  /\ audio.ctx = "running" /\ (live # None \/ audio.hum) /\ Befalls("pause")
  /\ audio' = [audio EXCEPT !.ctx = "suspended", !.el = (audio.sink = "refused" /\ @)]
  /\ Drifts
  /\ UNCHANGED <<voiceOn, queue, said, loop, manual, live, sent, over, pending, lost, ghosts, holds,
                 engine, stalled, fate>>
Resumes ==
  /\ audio.ctx = "suspended"
  /\ audio' = [Resumed(audio) EXCEPT !.el = (audio.sink = "open" \/ @)]
  /\ UNCHANGED <<voiceOn, queue, said, loop, manual, live, sent, over, pending, lost, ghosts, holds,
                 engine, stalled, drift, fate, troubles>>
\* An interruption: the context makes no more samples, the element is paused.
Dies ==
  /\ audio.ctx = "running" /\ Befalls("dies")
  /\ audio' = [audio EXCEPT !.ctx = "corpse", !.el = FALSE]
  /\ Drifts
  /\ UNCHANGED <<voiceOn, queue, said, loop, manual, live, sent, over, pending, lost, ghosts, holds,
                 engine, stalled, fate>>
Beats ==
  /\ audio.dead # (audio.ctx = "corpse")
  /\ audio' = [audio EXCEPT !.dead = (audio.ctx = "corpse")]
  /\ UNCHANGED <<voiceOn, queue, said, loop, manual, live, sent, over, pending, lost, ghosts, holds,
                 engine, stalled, drift, fate, troubles>>
\* play() is refused: the speech goes to the bare speakers for good, the tone waits for a gesture.
Denied ==
  /\ audio.el /\ Befalls("denied")
  /\ audio' = [audio EXCEPT !.el = FALSE, !.hum = FALSE, !.sink = IF audio.owned THEN "refused" ELSE @]
  /\ UNCHANGED <<voiceOn, queue, said, loop, manual, live, sent, over, pending, lost, ghosts, holds,
                 engine, stalled, drift, fate>>
\* A touch anywhere: a corpse is replaced, and a switch that is on tries its tone again.
Cured == HumOn(Alive(HumOff(audio)))
Touches ==
  LET cured == IF audio.dead THEN Cured ELSE audio
      now == IF audio.held THEN HumOn(cured) ELSE cured
  IN /\ now # audio /\ audio' = now /\ Leftovers(now)
     /\ IF audio.dead /\ ~now.dead THEN lost' = lost + pending /\ pending' = 0 ELSE UNCHANGED <<lost, pending>>
     /\ UNCHANGED <<voiceOn, queue, said, loop, manual, live, sent, over, holds, engine, stalled,
                    drift, fate, troubles>>
\* The switch of the settings (hold); a change of what it plays is an off and an on.
Holds ==
  /\ holds < MaxHolds /\ holds' = holds + 1
  /\ LET on == [audio EXCEPT !.held = TRUE]
         off == HumOff([audio EXCEPT !.held = FALSE])
     IN audio' = IF ~audio.held THEN HumOn(on) ELSE IF audio.owned THEN off ELSE CloseSink(off)
  /\ Leftovers(audio')
  /\ UNCHANGED <<voiceOn, queue, said, loop, manual, live, sent, over, pending, lost, engine, stalled,
                 drift, fate, troubles>>

Next ==
  \/ Arrives \/ Pressed \/ PressedAgain \/ VoiceOff \/ VoiceOn \/ Skips \/ Halts
  \/ Chunk \/ StreamEnds \/ Fails \/ Stalls \/ Aborted \/ HangsUp \/ Heard \/ GhostHeard
  \/ TailEnds \/ TakesNext \/ Pauses \/ Resumes \/ Dies \/ Beats \/ Denied \/ Touches \/ Holds

\* The engine ends a stream it has not gone quiet on, the proxy's deadline ends the others, a
\* hang-up arrives; buffers are heard, timers go off, the page is touched now and then.
Fairness ==
  /\ WF_vars(StreamEnds) /\ WF_vars(Fails) /\ WF_vars(Aborted) /\ WF_vars(HangsUp)
  /\ WF_vars(Chunk) /\ WF_vars(Heard) /\ WF_vars(TailEnds) /\ WF_vars(TakesNext)
  /\ WF_vars(Beats) /\ WF_vars(Touches)
Spec == Init /\ [][Next]_vars /\ Fairness

-----------------------------------------------------------------------------
\* The next message does not cut the one that is being heard, unless the wall clock ran ahead of
\* the sound (voice.js "the one speaking finishes, the next starts").
HeardWhole == \A m \in Said : fate[m] = "cut" => m \in drift

\* What he silenced stays silent: not one message of then is begun afterwards
\* (voice.js "silence means silence, not a pause before the backlog resumes").
SilenceIsSilence ==
  /\ \A i \in DOMAIN queue : fate[queue[i]] = "waiting"
  /\ live # None => fate[live] \in {"speaking", "heard"}

\* Every message has its turn, or is dropped by a rule: no refusal, stall or stop takes the rest
\* of the queue with it (voice.js drain).
EveryTurnComes == \A m \in Said : fate[m] = "waiting" ~> fate[m] # "waiting"

\* The engine is left alone with one message at a time before long: an abandoned synthesis ends
\* (ttsproxy.js "A client that hangs up kills the upstream request").
AbandonedEnds == \A m \in Said : m \in engine /\ fate[m] # "speaking" ~> m \notin engine

\* While the switch is on the session is held, between messages as well: the tone is back when
\* the last buffer was heard, and after an interruption.  Not so when the context died under a
\* message (`lost`), when he paused it, or where the browser refuses for good (speech.js hold).
Held == audio.hum /\ audio.el /\ audio.ctx = "running"
SessionHeld == []<>(\/ ~audio.held \/ Held \/ loop.at # "idle" \/ lost > 0
                    \/ "pause" \in troubles \/ audio.sink = "refused")

\* The next message starts when the one before it was heard: no (a pause, a stream that ran dry).
NeverCut == \A m \in Said : fate[m] # "cut"
\* "One voice at a time" (speech.js speak): no, what a broken stream left is heard with the next.
OneVoice == ~(ghosts > 0 /\ pending > 0 /\ Sounds)
\* "The board never asks for a second speech while one is in flight" (voice.js): the engine may.
OneSynthesis == Cardinality(engine) <= 1
\* The keep-alive comes back whatever happened (speech.js closeSink): no.
AlwaysHeld == []<>(~audio.held \/ Held \/ loop.at # "idle" \/ audio.ctx = "suspended" \/ audio.sink = "refused")
=============================================================================

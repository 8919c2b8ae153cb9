----------------------------- MODULE CallProofs -----------------------------
(***************************************************************************)
(* Theorems about module Call, for every value of its constants: what he   *)
(* said is sent once, what he threw away never, he is not talked over, and *)
(* a call that ended sends, plays and hears nothing.                       *)
(***************************************************************************)
EXTENDS Call, SequenceTheorems, TLAPS

Players == [queue : Nat, pump : {"off", "on", "stale"},
            air : SUBSET {"reply", "filler", "status"}, ducked : BOOLEAN]
JobSet == [kind : {"turn", "seg", "flush"}, chunk : Nat, probation : BOOLEAN, stale : BOOLEAN]
Takes == [chunk : Nat, barge : BOOLEAN, probe : BOOLEAN]
Turns == [audio : SUBSET Nat, frozen : SUBSET Nat, buffer : SUBSET Nat, sendNow : BOOLEAN]
Logs == [spoken : Nat, sent : SUBSET Nat, twice : SUBSET Nat, binned : SUBSET Nat,
         failed : BOOLEAN, replies : Nat, touches : Nat]
Ears == [stream : {"none", "live", "dead"}, gum : {"none", "open", "remic"}, utt : BOOLEAN,
         muted : BOOLEAN, paused : BOOLEAN, waking : {"no", "clock", "mic"}]

Shape ==
  /\ st \in States /\ player \in Players /\ ear \in Ears
  /\ take \in Takes /\ turn \in Turns /\ chain \in Seq(JobSet) /\ log \in Logs
  /\ hears \in {"nothing", "turn", "seg", "stale", "post"}
  /\ asked \subseteq Nat /\ post \subseteq Nat /\ awaiting \in BOOLEAN

-----------------------------------------------------------------------------
(* The voice.                                                              *)

\* While he talks nothing sounds or is about to; once the call ended nothing ever will.
Fine(s, p) ==
  /\ s \in {"capturing", "ended"} => p.air = {} /\ p.pump # "on"
  /\ s = "ended" => p.queue = 0

Sound(s, p) == s \in States /\ p \in Players /\ Fine(s, p)
\* And the step that led there did not end the call.
Voiced(s, p) == Sound(s, p) /\ (s = "ended" => st = "ended")
VoiceInv == Fine(st, player) /\ (st = "ended" => ear.stream = "none")

-----------------------------------------------------------------------------
(* The words.                                                              *)

\* The jobs of ch whose chunk is still to be handled, the head waiting as h says: the head
\* is one of them until its audio joins the turn.
Waiting(ch, h) == {i \in DOMAIN ch : i > 1 \/ h \in {"nothing", "seg"}}

\* Each chunk is in one place: the take, the chain, the text of the turn, or gone.
Placed(spoken, chunk, text, gone, ch, h) ==
  /\ text \cup gone \subseteq 1..spoken
  /\ text \cap gone = {}
  /\ chunk \in (0..spoken) \ (text \cup gone)
  /\ \A i \in Waiting(ch, h) :
       /\ ch[i].chunk \in (0..spoken) \ (text \cup gone)
       /\ ch[i].chunk # 0 => ch[i].chunk # chunk
       /\ \A j \in Waiting(ch, h) : i # j /\ ch[i].chunk # 0 => ch[i].chunk # ch[j].chunk

\* A job that is no flush has a chunk; what the head of ch waits for is of its kind: only
\* audio of the turn is asked about, and only a post in flight has a text.
Heads(ch, h, heard, audio, text) ==
  /\ \A i \in DOMAIN ch : ch[i].kind # "flush" => ch[i].chunk # 0
  /\ h = "seg" => Head(ch).kind = "seg"
  /\ h = "turn" => heard \subseteq audio
  /\ h # "nothing" => ch # <<>>
  /\ text # {} => h = "post"

Gone == log.sent \cup log.binned
PlacesInv ==
  /\ Placed(log.spoken, take.chunk, Text(turn), Gone, chain, hears)
  /\ log.sent \cap log.binned = {} /\ log.twice = {}
  /\ take # NoTake => take.chunk # 0
  /\ Heads(chain, hears, asked, turn.audio, post)

-----------------------------------------------------------------------------
Events == {"start", "speech", "reply", "commit", "end", "drop", "sent", "failed", "done"}

\* The reducer: only speech leads to capturing, and nothing leads out of a call that ended.
LEMMA Reduced ==
  ASSUME NEW s \in States, NEW ev \in Events, NEW owed \in BOOLEAN
  PROVE  LET to == NextCallState(s, ev, owed) IN
         /\ to \in States
         /\ to = "capturing" => s = "capturing" \/ ev = "speech"
         /\ s = "ended" <=> to = "ended"
<1> DEFINE to == NextCallState(s, ev, owed)
           found == \E m \in Moves(owed) : m[1] = s /\ m[2] = ev
<1>1. CASE ~found
  BY <1>1 DEF NextCallState
<1>2. CASE found
  <2>1. PICK m \in Moves(owed) : m[1] = s /\ m[2] = ev /\ to = m[3]
    BY <1>2 DEF NextCallState
  <2>2. Rest(owed) \in {"thinking", "listening"}
    BY DEF Rest
  <2> QED BY <2>1, <2>2 DEF Moves, States
<1> QED BY <1>1, <1>2

LEMMA PumpedFine ==
  ASSUME NEW s \in States, NEW p \in Players
  PROVE  /\ Pumped(p, s) \in Players
         /\ s = "capturing" => Pumped(p, s) = p
         /\ p.queue = 0 => Pumped(p, s) = p
         /\ Pumped(p, s).air = p.air
<1> DEFINE starts == p.pump = "off" /\ p.queue > 0 /\ ~Held(s)
<1>1. CASE starts
  <2>1. Pumped(p, s) = [[p EXCEPT !.pump = "on"] EXCEPT !.queue = p.queue - 1]
    BY <1>1 DEF Pumped, Players
  <2>2. p.queue \in Nat /\ p.queue # 0 /\ p.queue - 1 \in Nat
    BY <1>1 DEF Players
  <2>3. s # "capturing"
    BY <1>1 DEF Held
  <2> HIDE DEF starts
  <2> QED BY <2>1, <2>2, <2>3 DEF Players
<1>2. CASE ~starts
  BY <1>2 DEF Pumped
<1> QED BY <1>1, <1>2

\* go(ev) keeps the player fine, when on speech nothing sounded or is about to.
LEMMA WentFine ==
  ASSUME NEW s \in States, NEW p \in Players, NEW ev \in Events, NEW owed \in BOOLEAN,
         Fine(s, p), ev = "speech" => p.air = {} /\ p.pump # "on"
  PROVE  /\ Went(s, p, ev, owed).st \in States
         /\ Went(s, p, ev, owed).player \in Players
         /\ Fine(Went(s, p, ev, owed).st, Went(s, p, ev, owed).player)
         /\ s = "ended" <=> Went(s, p, ev, owed).st = "ended"
         /\ s = "ended" => Went(s, p, ev, owed).player = p
<1> DEFINE to == NextCallState(s, ev, owed)
           q == Pumped(p, to)
           w == Went(s, p, ev, owed)
<1>1. /\ to \in States /\ (to = "capturing" => s = "capturing" \/ ev = "speech")
      /\ (s = "ended" <=> to = "ended")
  BY Reduced
<1>2. q \in Players /\ (to = "capturing" => q = p)
  BY <1>1, PumpedFine
<1>3. w = IF to = s THEN [st |-> s, player |-> p]
          ELSE [st |-> IF to \in {"listening", "thinking"} /\ q.queue > 0 THEN "speaking" ELSE to,
                player |-> q]
  BY DEF Went
<1>4. /\ w.st \in States /\ w.player \in Players /\ Fine(w.st, w.player)
      /\ (s = "ended" <=> w.st = "ended")
      /\ (s = "ended" => w.player = p)
  <2> HIDE DEF to, q, w
  <2>1. CASE to = s
    <3>1. w.st = s /\ w.player = p
      BY <1>3, <2>1
    <3> QED BY <3>1
  <2>2. CASE to # s
    <3>1. w.player = q /\ w.st \in {to, "speaking"}
      BY <1>3, <2>2
    <3>2. w.st \in States
      BY <1>1, <3>1 DEF States
    <3>3. w.st # "ended" /\ s # "ended"
      BY <1>1, <2>2, <3>1
    <3>4. w.st = "capturing" => q = p /\ p.air = {} /\ p.pump # "on"
      BY <1>1, <1>2, <2>2, <3>1
    <3> QED BY <1>2, <3>1, <3>2, <3>3, <3>4 DEF Fine
  <2> QED BY <2>1, <2>2
<1> QED BY <1>4

LEMMA StoppedFine ==
  ASSUME NEW p \in Players
  PROVE  /\ Stopped(p) \in Players
         /\ \A s : Fine(s, Stopped(p))
         /\ Stopped(p).air = {} /\ Stopped(p).pump # "on"
BY DEF Players, Stopped, Fine

LEMMA DuckedFine ==
  ASSUME NEW s, NEW p \in Players, Fine(s, p), NEW on \in BOOLEAN
  PROVE  /\ Ducked(p, on) \in Players /\ Fine(s, Ducked(p, on))
BY DEF Players, Ducked, Fine

LEMMA WentVoiced ==
  ASSUME NEW s, NEW p, NEW ev \in Events, NEW owed \in BOOLEAN,
         Voiced(s, p), ev = "speech" => p.air = {} /\ p.pump # "on"
  PROVE  /\ Voiced(Went(s, p, ev, owed).st, Went(s, p, ev, owed).player)
         /\ s = "ended" <=> Went(s, p, ev, owed).st = "ended"
BY WentFine DEF Voiced, Sound

LEMMA BargedVoiced ==
  ASSUME Shape, Live
  PROVE  Voiced(Barged(player).st, Barged(player).player)
<1>1. Voiced(st, Stopped(player)) /\ Stopped(player).air = {} /\ Stopped(player).pump # "on"
  BY StoppedFine DEF Shape, Voiced, Sound
<1>2. "speech" \in Events
  BY DEF Events
<1> QED BY <1>1, <1>2, WentVoiced DEF Barged, Shape

LEMMA TakeEndsVoiced ==
  ASSUME NEW t, NEW s, NEW p, NEW tn, NEW how \in {"end", "drop"}, NEW conf, NEW l,
         awaiting \in BOOLEAN, Voiced(s, p), TakeEnds(t, s, p, tn, how, conf, l)
  PROVE  Voiced(st', player')
<1> DEFINE ev == IF how = "end" /\ mode = "silence" THEN "end" ELSE "drop"
<1>1. ev \in Events /\ ev # "speech"
  BY DEF Events
<1>2. Voiced(Went(s, p, ev, awaiting).st, Went(s, p, ev, awaiting).player)
  BY <1>1, WentVoiced
<1>3. Voiced(s, Ducked(p, FALSE))
  BY DuckedFine DEF Voiced, Sound
<1>4. \/ st' = s /\ player' = p
      \/ st' = s /\ player' = Ducked(p, FALSE)
      \/ st' = Went(s, p, ev, awaiting).st /\ player' = Went(s, p, ev, awaiting).player
  BY DEF TakeEnds
<1> QED BY <1>2, <1>3, <1>4

\* Every step but the end of the call leaves the player fine for the state it leads to.
LEMMA VoiceStep == Shape /\ VoiceInv /\ [Next]_vars /\ ~EndCall => Voiced(st', player')
<1> SUFFICES ASSUME Shape, VoiceInv, [Next]_vars, ~EndCall PROVE Voiced(st', player')
  OBVIOUS
<1> USE DEF Live
<1>0. Voiced(st, player) /\ awaiting \in BOOLEAN /\ take \in Takes
  BY DEF Shape, VoiceInv, Voiced, Sound
<1>g. ASSUME NEW ev \in Events \ {"speech"}, NEW p, Voiced(st, p), Go(p, ev)
      PROVE  Voiced(st', player')
  BY <1>g, <1>0, WentVoiced DEF Go
<1>u. ASSUME UNCHANGED <<st, player>> PROVE Voiced(st', player')
  BY <1>u, <1>0
<1>d. ASSUME NEW on \in BOOLEAN, st' = st, player' = Ducked(player, on) PROVE Voiced(st', player')
  BY <1>d, <1>0, DuckedFine DEF Voiced, Sound
<1>1. CASE UNCHANGED vars
  BY <1>1, <1>u DEF vars
<1>2. CASE NoMic \/ DeviceChanged \/ Waking \/ Unmute \/ ProbeBarge \/ TickStatus
           \/ HearTurn \/ TurnUnheard \/ ClearBuffer
  BY <1>2, <1>u DEF NoMic, DeviceChanged, Waking, AttachMic, Resume, ClockRuns, Resumed, Unmute,
     ProbeBarge, TickStatus, HearTurn, TurnUnheard, ClearBuffer, voice
<1>3. CASE Opened
  BY <1>3, <1>0, <1>g DEF Opened, Events
<1>4. CASE Pause
  BY <1>4, <1>u, <1>d DEF Pause, Plays, Unprobed
<1>5. CASE Mute
  BY <1>5, <1>0, <1>g, <1>u, <1>d DEF Mute, Plays, Unprobed, Events
<1>7. CASE SpeechStarts
  <2>1. CASE Busy(player)
    BY <1>7, <2>1, <1>d DEF SpeechStarts
  <2>2. CASE ~Busy(player)
    <3>1. st' = Went(st, player, "speech", awaiting).st
          /\ player' = Went(st, player, "speech", awaiting).player
      BY <1>7, <2>2 DEF SpeechStarts
    <3>2. player.air = {} /\ player.pump # "on" /\ "speech" \in Events
      BY <2>2 DEF Busy, Events
    <3> QED BY <1>0, <3>1, <3>2, WentVoiced
  <2> QED BY <2>1, <2>2
<1>8. CASE SpeechEnds
  BY <1>8, <1>0, <1>u, TakeEndsVoiced DEF SpeechEnds
<1>9. CASE ProbeAnswered
  BY <1>9, <1>u, BargedVoiced DEF ProbeAnswered
<1>10. CASE SendTurn
  <2> DEFINE tn == IF mode = "keyword" THEN [turn EXCEPT !.sendNow = TRUE] ELSE turn
             barge == take # NoTake /\ Probation(take)
             conf == IF barge THEN confirmed \cup {take.chunk} ELSE confirmed
             b == IF barge THEN Barged(player) ELSE [st |-> st, player |-> player]
  <2>1. Voiced(b.st, b.player)
    BY <1>0, <1>10, BargedVoiced DEF SendTurn
  <2>2. \/ \E how \in {"end", "drop"} :
             TakeEnds(take, b.st, b.player, tn, how, conf, Touched(log))
        \/ st' = b.st /\ player' = b.player
    BY <1>10 DEF SendTurn
  <2> HIDE DEF tn, conf, b
  <2> QED BY <1>0, <2>1, <2>2, TakeEndsVoiced
<1>11. CASE TurnCancelled \/ TurnGrows
  BY <1>11, <1>u DEF TurnCancelled, TurnGrows, Quietly
<1>12. CASE KeywordHeard \/ SendNowHeard
  <2>1. ASSUME NEW text, NEW rest, TurnCommitted(text, rest) PROVE Voiced(st', player')
    BY <2>1, <1>0, <1>g, <1>u DEF TurnCommitted, Quietly, Events
  <2>2. PICK text, rest : TurnCommitted(text, rest)
    BY <1>12 DEF KeywordHeard, SendNowHeard
  <2> QED BY <2>1, <2>2
<1>13. CASE SegmentHeard
  <2> DEFINE job == Head(chain)
             barge == job.probation /\ job.chunk \notin confirmed
             b == IF barge THEN Barged(player) ELSE [st |-> st, player |-> player]
             ev == IF mode = "silence" THEN "end" ELSE "drop"
             ended == Went(b.st, b.player, ev, awaiting)
             own == IF job.probation THEN ended ELSE b
             f == IF job.probation /\ ~barge THEN ended ELSE b
             g == IF mode = "silence" THEN Went(f.st, f.player, "failed", awaiting) ELSE f
  <2>1. Voiced(b.st, b.player)
    BY <1>0, <1>13, BargedVoiced DEF SegmentHeard
  <2>2. ev \in Events /\ ev # "speech" /\ "failed" \in Events
    BY DEF Events
  <2>3. Voiced(ended.st, ended.player)
    <3> HIDE DEF b, ev
    <3> QED BY <1>0, <2>1, <2>2, WentVoiced
  <2>4. Voiced(own.st, own.player) /\ Voiced(f.st, f.player)
    <3> HIDE DEF b, ended
    <3> QED BY <2>1, <2>3
  <2>5. Voiced(g.st, g.player)
    <3> HIDE DEF f
    <3> QED BY <1>0, <2>2, <2>4, WentVoiced
  <2>6. \/ Plays(Ducked(player, FALSE))
        \/ st' = g.st /\ player' = g.player
        \/ st' = own.st /\ player' = own.player
    BY <1>13 DEF SegmentHeard
  <2>7. Plays(Ducked(player, FALSE)) => Voiced(st', player')
    BY <1>d DEF Plays
  <2> HIDE DEF g, own
  <2> QED BY <2>4, <2>5, <2>6, <2>7
<1>14. CASE SegmentFails
  BY <1>14, <1>0, <1>g, <1>u, <1>d DEF SegmentFails, Quietly, Plays, Events
<1>15. CASE PostAnswered
  <2>1. "sent" \in Events
    BY DEF Events
  <2>2. Voiced(Went(st, player, "sent", TRUE).st, Went(st, player, "sent", TRUE).player)
    BY <1>0, <2>1, WentVoiced
  <2> QED BY <1>15, <2>2, <1>u DEF PostAnswered, Quietly
<1>16. CASE PostFails
  BY <1>16, <1>0, <1>g, <1>u DEF PostFails, Quietly, Events
<1>17. CASE Reply
  <2>1. PICK n \in {0, 2} :
          LET cut == [player EXCEPT !.air = @ \ {"status"}, !.queue = @ + n]
              said == Pumped(cut, st)
              w == IF n = 0 THEN [st |-> st, player |-> cut] ELSE Went(st, said, "reply", FALSE)
          IN st' = w.st /\ player' = w.player
    BY <1>17 DEF Reply
  <2> DEFINE cut == [[player EXCEPT !.air = player.air \ {"status"}]
                      EXCEPT !.queue = player.queue + n]
             said == Pumped(cut, st)
  <2>2. cut = [player EXCEPT !.air = @ \ {"status"}, !.queue = @ + n]
    BY <1>0 DEF Voiced, Sound, Players
  <2>3. cut \in Players /\ Fine(st, cut) /\ st \in States /\ st # "ended"
    <3>1. st \in States /\ st # "ended" /\ player \in Players /\ Fine(st, player)
      BY <1>0, <1>17 DEF Voiced, Sound, Reply
    <3>2. player.queue + n \in Nat /\ player.air \ {"status"} \in SUBSET {"reply", "filler", "status"}
      BY <3>1 DEF Players
    <3>3. cut \in Players /\ cut.air = player.air \ {"status"} /\ cut.pump = player.pump
      BY <3>1, <3>2 DEF Players
    <3> HIDE DEF cut
    <3> QED BY <3>1, <3>3 DEF Fine
  <2>4. Voiced(st, said)
    <3> HIDE DEF cut
    <3> QED BY <2>3, PumpedFine DEF Voiced, Sound, Fine
  <2>5. "reply" \in Events /\ FALSE \in BOOLEAN
    BY DEF Events
  <2>6. Voiced(Went(st, said, "reply", FALSE).st, Went(st, said, "reply", FALSE).player)
    <3> HIDE DEF said
    <3> QED BY <2>4, <2>5, WentVoiced
  <2>7. \/ st' = st /\ player' = cut
        \/ st' = Went(st, said, "reply", FALSE).st
           /\ player' = Went(st, said, "reply", FALSE).player
    BY <2>1, <2>2
  <2> HIDE DEF cut, said
  <2> QED BY <2>3, <2>6, <2>7 DEF Voiced, Sound
<1>18. CASE Sounds
  BY <1>18, <1>0 DEF Sounds, Plays, Voiced, Sound, Fine, Players
<1>i. ASSUME NEW p, Voiced(st, p), Idles(p) PROVE Voiced(st', player')
  BY <1>i, <1>0, <1>g DEF Idles, Plays, Events
<1>19. CASE Synthesised
  <2> DEFINE p == [player EXCEPT !.pump = "off"]
  <2>1. p \in Players /\ Fine(st, p) /\ st \in States /\ (st = "ended" => p.queue = 0)
    BY <1>0 DEF Voiced, Sound, Players, Fine
  <2>2. Voiced(st, Pumped(p, st))
    <3> HIDE DEF p
    <3> QED BY <2>1, PumpedFine DEF Voiced, Sound, Fine
  <2> QED BY <1>19, <2>2, <1>i DEF Synthesised
<1>20. CASE Ended
  <2>1. PICK kind \in player.air : Idles([player EXCEPT !.air = @ \ {kind}])
    BY <1>20 DEF Ended
  <2>2. Voiced(st, [player EXCEPT !.air = @ \ {kind}])
    BY <1>0 DEF Voiced, Sound, Players, Fine
  <2> QED BY <2>1, <2>2, <1>i
<1>21. CASE TickFiller
  BY <1>21, <1>0 DEF TickFiller, Voiced, Sound, Fine, Players
<1>22. CASE SayStatus
  BY <1>22, <1>0 DEF SayStatus, StatusWanted, Voiced, Sound, Fine, Players
<1> QED BY <1>1, <1>2, <1>3, <1>4, <1>5, <1>7, <1>8, <1>9, <1>10, <1>11, <1>12, <1>13,
           <1>14, <1>15, <1>16, <1>17, <1>18, <1>19, <1>20, <1>21, <1>22 DEF Next, Segments, Posts

LEMMA VoiceNext ==
  Shape /\ VoiceInv /\ [Next]_vars => Sound(st', player') /\ (st' = "ended" => st = "ended" \/ EndCall)
<1>1. Shape /\ EndCall => Sound(st', player')
  BY StoppedFine DEF EndCall, Sound, States, Shape
<1> QED BY <1>1, VoiceStep DEF Voiced

-----------------------------------------------------------------------------
(* The shape of the state, and the call that ended.                        *)

LEMMA Logged ==
  ASSUME NEW l \in Logs, NEW cs \in SUBSET Nat
  PROVE  /\ [l EXCEPT !.binned = @ \cup cs] \in Logs
         /\ Touched(l) \in Logs
         /\ Sent(l, cs) \in Logs
         /\ [l EXCEPT !.failed = TRUE] \in Logs
         /\ [l EXCEPT !.spoken = @ + 1] \in Logs
         /\ [l EXCEPT !.replies = @ + 1] \in Logs
<1>1. [l EXCEPT !.binned = @ \cup cs] \in Logs
  BY DEF Logs
<1>2. Touched(l) \in Logs
  BY DEF Logs, Touched
<1>3. Sent(l, cs) \in Logs
  <2>1. Sent(l, cs) = [[l EXCEPT !.sent = l.sent \cup cs] EXCEPT !.twice = l.twice \cup (cs \cap l.sent)]
    BY DEF Sent, Logs
  <2> QED BY <2>1 DEF Logs
<1>4. [l EXCEPT !.failed = TRUE] \in Logs
  BY DEF Logs
<1>5. [l EXCEPT !.spoken = @ + 1] \in Logs
  BY DEF Logs
<1>6. [l EXCEPT !.replies = @ + 1] \in Logs
  BY DEF Logs
<1> QED BY <1>1, <1>2, <1>3, <1>4, <1>5, <1>6

LEMMA JobShape ==
  ASSUME NEW kind \in {"turn", "seg", "flush"}, NEW chunk \in Nat, NEW probation \in BOOLEAN
  PROVE  Job(kind, chunk, probation) \in JobSet
BY DEF Job, JobSet

LEMMA VoidedShape ==
  ASSUME NEW jobs \in Seq(JobSet)
  PROVE  /\ Voided(jobs) \in Seq(JobSet) /\ Len(Voided(jobs)) = Len(jobs)
         /\ \A i \in DOMAIN jobs : /\ Voided(jobs)[i].chunk = jobs[i].chunk
                                   /\ Voided(jobs)[i].kind = jobs[i].kind
<1>1. \A i \in 1..Len(jobs) : jobs[i] \in JobSet
  BY ElementOfSeq
<1>2. \A job \in JobSet : [job EXCEPT !.stale = TRUE] \in JobSet
  BY DEF JobSet
<1>3. Voided(jobs) = [i \in 1..Len(jobs) |-> [jobs[i] EXCEPT !.stale = TRUE]]
  BY DEF Voided
<1>4. \A i \in 1..Len(jobs) : Voided(jobs)[i] \in JobSet
  BY <1>1, <1>2, <1>3
<1>5. Len(jobs) \in Nat
  OBVIOUS
<1>6. Voided(jobs) \in Seq(JobSet) /\ Len(Voided(jobs)) = Len(jobs)
  BY <1>3, <1>4, <1>5
<1>7. \A i \in 1..Len(jobs) : /\ Voided(jobs)[i].chunk = jobs[i].chunk
                              /\ Voided(jobs)[i].kind = jobs[i].kind
  BY <1>1, <1>3 DEF JobSet
<1> QED BY <1>6, <1>7

LEMMA TakeEndsShape ==
  ASSUME Shape, NEW tn, NEW s, NEW p, NEW how \in {"end", "drop"}, NEW conf, NEW l \in Logs,
         TakeEnds(take, s, p, tn, how, conf, l)
  PROVE  take' \in Takes /\ ear' \in Ears /\ chain' \in Seq(JobSet) /\ log' \in Logs
<1>1. take' \in Takes /\ take.chunk \in Nat /\ take.barge \in BOOLEAN
  BY DEF TakeEnds, NoTake, Takes, Shape
<1>2. ear' \in Ears
  BY DEF TakeEnds, Shape, Ears
<1>3. log' \in Logs
  BY <1>1, Logged DEF TakeEnds
<1>4. chain' \in Seq(JobSet)
  <2>1. Flush \in JobSet /\ chain \in Seq(JobSet)
    BY JobShape DEF Flush, Shape
  <2> DEFINE probation == take.barge /\ take.chunk \notin conf
             kind == IF mode = "keyword" /\ ~probation THEN "turn" ELSE "seg"
  <2>2. probation \in BOOLEAN /\ kind \in {"turn", "seg", "flush"}
    BY <1>1
  <2>3. Job(kind, take.chunk, probation) \in JobSet
    <3> HIDE DEF kind, probation
    <3> QED BY <1>1, <2>2, JobShape
  <2>4. \/ chain' = chain \/ chain' = Append(chain, Flush)
        \/ chain' = Append(chain, Job(kind, take.chunk, probation))
    BY DEF TakeEnds, Dropped, FlushOnDrop
  <2> HIDE DEF kind, probation
  <2> QED BY <2>1, <2>3, <2>4
<1> QED BY <1>1, <1>2, <1>3, <1>4

LEMMA HeadDoneShape ==
  ASSUME NEW jobs \in Seq(JobSet), jobs # <<>>, HeadDone(jobs)
  PROVE  hears' = "nothing" /\ asked' = {} /\ chain' \in Seq(JobSet)
BY DEF HeadDone

\* What is not the voice keeps its shape.
LEMMA ShapeNext ==
  Shape /\ VoiceInv /\ PlacesInv /\ [Next]_vars => Shape'
<1> SUFFICES ASSUME Shape, VoiceInv, PlacesInv, [Next]_vars PROVE Shape'
  OBVIOUS
<1> DEFINE Rest1 == /\ ear' \in Ears /\ take' \in Takes /\ log' \in Logs
                    /\ awaiting' \in BOOLEAN
           Rest2 == /\ turn' \in Turns /\ chain' \in Seq(JobSet)
                    /\ hears' \in {"nothing", "turn", "seg", "stale", "post"}
                    /\ asked' \subseteq Nat /\ post' \subseteq Nat
<1>0. /\ ear \in Ears /\ take \in Takes /\ log \in Logs /\ awaiting \in BOOLEAN
      /\ turn \in Turns /\ chain \in Seq(JobSet)
      /\ hears \in {"nothing", "turn", "seg", "stale", "post"}
      /\ asked \subseteq Nat /\ post \subseteq Nat
      /\ Flush \in JobSet /\ NoTake \in Takes /\ take.chunk \in Nat
  BY JobShape DEF Shape, Flush, NoTake, Takes
<1>n. NoTurn \in Turns /\ turn.audio \subseteq Nat /\ turn.frozen \subseteq Nat
  BY <1>0 DEF NoTurn, Turns
<1>b. ASSUME NEW cs \in SUBSET Nat PROVE Bin(cs) \in Logs /\ Touched(Bin(cs)) \in Logs
  BY <1>b, <1>0, Logged DEF Bin
<1>t. Touched(log) \in Logs /\ [log EXCEPT !.failed = TRUE] \in Logs
  BY <1>0, Logged
<1>w. UNCHANGED words => Rest2
  BY <1>0 DEF words
<1>v. Sound(st', player')
  BY VoiceNext
<1>s. UNCHANGED <<ear, take, log, awaiting>> => Rest1
  BY <1>0
<1>h. ASSUME chain # <<>>, HeadDone(chain) \/ HeadDone(Voided(chain))
      PROVE  hears' = "nothing" /\ asked' = {} /\ chain' \in Seq(JobSet)
  <2>1. Voided(chain) \in Seq(JobSet) /\ Voided(chain) # <<>>
    BY <1>0, <1>h, VoidedShape
  <2> QED BY <1>0, <1>h, <2>1, HeadDoneShape
<1>c. hears # "nothing" => chain # <<>>
  BY DEF PlacesInv, Heads
<1>j. chain # <<>> => Head(chain) \in JobSet /\ Head(chain).chunk \in Nat
  <2>1. \A job \in JobSet : job.chunk \in Nat
    BY DEF JobSet
  <2> QED BY <1>0, <2>1, HeadTailProperties
<1>1. CASE UNCHANGED vars
  BY <1>1, <1>s, <1>w DEF vars, words, Shape, VoiceInv
<1>2. ASSUME NoMic \/ DeviceChanged \/ Waking \/ Unmute \/ EndCall PROVE Rest1 /\ Rest2
  <2>1. Rest2 /\ awaiting' = awaiting
    BY <1>2, <1>w DEF NoMic, DeviceChanged, Waking, AttachMic, Resume, ClockRuns, Resumed, Unmute,
       EndCall, voice
  <2>2. ear' \in Ears
    BY <1>2, <1>0 DEF NoMic, DeviceChanged, Waking, AttachMic, Resume, ClockRuns, Resumed, Unmute,
       EndCall, voice, MicAttached, Ears
  <2>3. take' \in Takes
    BY <1>2, <1>0 DEF NoMic, DeviceChanged, Waking, AttachMic, Resume, ClockRuns, Resumed, Unmute,
       EndCall, voice
  <2>4. log' \in Logs
    BY <1>2, <1>0, <1>b, <1>t DEF NoMic, DeviceChanged, Waking, AttachMic, Resume, ClockRuns,
       Resumed, Unmute, EndCall, voice
  <2> QED BY <1>0, <2>1, <2>2, <2>3, <2>4
<1>3. ASSUME Opened \/ TickStatus \/ ProbeAnswered \/ TickFiller \/ SayStatus \/ Sounds
             \/ Synthesised \/ Ended
      PROVE  Rest1 /\ Rest2
  BY <1>3, <1>s, <1>w DEF Opened, TickStatus, ProbeAnswered, TickFiller, SayStatus, Sounds,
     Synthesised, Ended, Idles, Go, Plays
<1>4. ASSUME Pause PROVE Rest1 /\ Rest2
  <2>1. ear' \in Ears
    BY <1>4, <1>0 DEF Pause, Ears
  <2> QED BY <1>4, <1>0, <1>b, <1>w, <2>1 DEF Pause, Plays, Unprobed
<1>5. ASSUME Mute PROVE Rest1 /\ Rest2
  <2>1. ear' \in Ears
    BY <1>5, <1>0 DEF Mute, Ears
  <2>2. take' \in Takes /\ awaiting' = awaiting /\ UNCHANGED <<turn, hears, asked, post>>
    BY <1>5, <1>0 DEF Mute, Plays, Go
  <2>3. log' \in Logs
    BY <1>5, <1>0, <1>b DEF Mute
  <2>4. chain' = Append(chain, Flush) \/ chain' = chain
    BY <1>5 DEF Mute
  <2> QED BY <1>0, <2>1, <2>2, <2>3, <2>4
<1>6. ASSUME SpeechStarts PROVE Rest1 /\ Rest2
  <2>1. ear' \in Ears
    BY <1>6, <1>0 DEF SpeechStarts, Ears
  <2>2. take' \in Takes
    BY <1>6, <1>0 DEF SpeechStarts, Takes, Logs, Busy
  <2>3. log' \in Logs
    BY <1>6, <1>b, <1>0, Logged DEF SpeechStarts
  <2> QED BY <1>6, <1>0, <1>w, <2>1, <2>2, <2>3 DEF SpeechStarts
<1>7. ASSUME SpeechEnds PROVE Rest1 /\ Rest2
  <2>1. /\ UNCHANGED <<turn, hears, asked, post, awaiting>>
        /\ \/ ear' = [ear EXCEPT !.utt = FALSE] /\ UNCHANGED <<take, chain, log>>
           \/ \E how \in {"end", "drop"} : TakeEnds(take, st, player, turn, how, confirmed, log)
    BY <1>7 DEF SpeechEnds
  <2>2. CASE ear' = [ear EXCEPT !.utt = FALSE] /\ UNCHANGED <<take, chain, log>>
    BY <1>0, <2>1, <2>2 DEF Ears
  <2>3. CASE \E how \in {"end", "drop"} : TakeEnds(take, st, player, turn, how, confirmed, log)
    BY <1>0, <2>1, <2>3, TakeEndsShape
  <2> QED BY <2>1, <2>2, <2>3
<1>8. ASSUME ProbeBarge PROVE Rest1 /\ Rest2
  BY <1>8, <1>0, <1>w DEF ProbeBarge, Takes, voice
<1>9. ASSUME SendTurn PROVE Rest1 /\ Rest2
  <2> DEFINE tn == IF mode = "keyword" THEN [turn EXCEPT !.sendNow = TRUE] ELSE turn
             barge == take # NoTake /\ Probation(take)
             conf == IF barge THEN confirmed \cup {take.chunk} ELSE confirmed
             b == IF barge THEN Barged(player) ELSE [st |-> st, player |-> player]
  <2>1. /\ turn' = tn /\ UNCHANGED <<hears, asked, post, awaiting>>
        /\ \/ \E how \in {"end", "drop"} :
                TakeEnds(take, b.st, b.player, tn, how, conf, Touched(log))
           \/ /\ chain' \in {chain, Append(chain, Flush)}
              /\ log' = Touched(log) /\ UNCHANGED <<take, ear>>
    BY <1>9 DEF SendTurn
  <2>2. tn \in Turns
    BY <1>0 DEF Turns
  <2> HIDE DEF tn, b, conf
  <2>3. CASE \E how \in {"end", "drop"} :
               TakeEnds(take, b.st, b.player, tn, how, conf, Touched(log))
    <3>1. take' \in Takes /\ ear' \in Ears /\ chain' \in Seq(JobSet) /\ log' \in Logs
      BY <1>t, <2>3, TakeEndsShape
    <3> QED BY <1>0, <2>1, <2>2, <3>1
  <2>4. CASE /\ chain' \in {chain, Append(chain, Flush)}
             /\ log' = Touched(log) /\ UNCHANGED <<take, ear>>
    BY <1>0, <1>t, <2>1, <2>2, <2>4
  <2> QED BY <2>1, <2>3, <2>4
<1>10. ASSUME HearTurn PROVE Rest1 /\ Rest2
  <2> DEFINE job == Head(chain)
  <2>1. Rest1 /\ post' = post
    BY <1>10, <1>s DEF HearTurn, voice
  <2>2. chain # <<>> /\ job.chunk \in Nat
    BY <1>10, <1>j DEF HearTurn
  <2>3. turn' \in Turns
    <3>1. turn' = turn \/ turn' = [turn EXCEPT !.audio = @ \cup {job.chunk}]
      BY <1>10 DEF HearTurn
    <3> HIDE DEF job
    <3> QED BY <1>0, <2>2, <3>1 DEF Turns
  <2>4. \/ HeadDone(chain)
        \/ hears' \in {"seg", "turn"} /\ asked' \in {{}, turn'.audio} /\ chain' = chain
    BY <1>10 DEF HearTurn
  <2>5. turn'.audio \subseteq Nat
    BY <2>3 DEF Turns
  <2> QED BY <1>0, <1>h, <2>1, <2>2, <2>3, <2>4, <2>5
<1>11. ASSUME TurnUnheard PROVE Rest1 /\ Rest2
  BY <1>11, <1>0, <1>t, <1>c, <1>h DEF TurnUnheard, voice
<1>12. ASSUME TurnCancelled PROVE Rest1 /\ Rest2
  <2>1. Text(turn) \in SUBSET Nat
    BY <1>n DEF Text
  <2> QED BY <1>12, <1>0, <1>b, <1>c, <1>h, <1>n, <2>1 DEF TurnCancelled, Heard, ResetTurn, Quietly
<1>13. ASSUME NEW text \in SUBSET Nat, NEW rest \in SUBSET Nat, TurnCommitted(text, rest),
              hears = "turn"
       PROVE  Rest1 /\ Rest2
  <2>1. turn' \in Turns
    BY <1>13 DEF TurnCommitted, ResetTurn, NoTurn, Turns
  <2>2. CASE text = {}
    BY <1>13, <1>0, <1>c, <1>h, <2>1, <2>2 DEF TurnCommitted, Quietly
  <2>3. CASE text # {}
    <3>1. Sent(log, text) \in Logs /\ Voided(chain) \in Seq(JobSet)
      BY <1>0, <1>13, Logged, VoidedShape
    <3> QED BY <1>13, <1>0, <2>1, <2>3, <3>1 DEF TurnCommitted, Deliver, Go
  <2> QED BY <2>2, <2>3
<1>14. ASSUME KeywordHeard \/ SendNowHeard PROVE Rest1 /\ Rest2
  <2>1. PICK text \in SUBSET Nat, rest \in SUBSET Nat : TurnCommitted(text, rest)
    BY <1>14, <1>0, <1>n DEF KeywordHeard, SendNowHeard, Readings
  <2>2. hears = "turn"
    BY <1>14 DEF KeywordHeard, SendNowHeard, Heard
  <2> QED BY <1>13, <2>1, <2>2
<1>15. ASSUME TurnGrows PROVE Rest1 /\ Rest2
  <2>1. PICK full \in SUBSET Nat :
          \/ turn' = [turn EXCEPT !.buffer = full] /\ HeadDone(chain)
          \/ turn' = [ResetTurn(turn) EXCEPT !.frozen = full, !.buffer = full]
             /\ HeadDone(Voided(chain))
    BY <1>15, <1>0, <1>n DEF TurnGrows, Readings
  <2>2. turn' \in Turns
    BY <1>0, <2>1 DEF ResetTurn, NoTurn, Turns
  <2> QED BY <1>15, <1>0, <1>c, <1>h, <2>1, <2>2 DEF TurnGrows, Heard, Quietly
<1>16. ASSUME ClearBuffer PROVE Rest1 /\ Rest2
  <2>1. Text(turn) \in SUBSET Nat /\ Voided(chain) \in Seq(JobSet)
    BY <1>0, <1>n, VoidedShape DEF Text
  <2> QED BY <1>16, <1>0, <1>b, <1>n, <2>1 DEF ClearBuffer, voice, ResetTurn, Outdated
<1>17. ASSUME SegmentHeard PROVE Rest1 /\ Rest2
  <2>1. /\ UNCHANGED <<ear, take, awaiting>> /\ hears = "seg"
        /\ \/ HeadDone(chain) /\ log' = Bin({Head(chain).chunk}) /\ UNCHANGED <<turn, post>>
           \/ /\ Deliver({Head(chain).chunk}) /\ log' = Sent(log, {Head(chain).chunk})
              /\ UNCHANGED <<turn, chain>>
           \/ /\ turn' = [turn EXCEPT !.audio = @ \cup {Head(chain).chunk}]
              /\ hears' = "turn" /\ asked' = turn'.audio /\ UNCHANGED <<post, log, chain>>
    BY <1>17 DEF SegmentHeard, Plays
  <2>2. {Head(chain).chunk} \in SUBSET Nat /\ chain # <<>>
    BY <1>c, <1>j, <2>1
  <2>3. CASE HeadDone(chain) /\ log' = Bin({Head(chain).chunk}) /\ UNCHANGED <<turn, post>>
    BY <1>0, <1>b, <1>h, <2>1, <2>2, <2>3
  <2>4. CASE /\ Deliver({Head(chain).chunk}) /\ log' = Sent(log, {Head(chain).chunk})
             /\ UNCHANGED <<turn, chain>>
    BY <1>0, <2>1, <2>2, <2>4, Logged DEF Deliver
  <2>5. CASE /\ turn' = [turn EXCEPT !.audio = @ \cup {Head(chain).chunk}]
             /\ hears' = "turn" /\ asked' = turn'.audio /\ UNCHANGED <<post, log, chain>>
    <3>1. turn' \in Turns /\ turn'.audio \subseteq Nat
      BY <1>0, <2>2, <2>5 DEF Turns
    <3> QED BY <1>0, <2>1, <2>5, <3>1
  <2> QED BY <2>1, <2>3, <2>4, <2>5
<1>18. ASSUME SegmentFails PROVE Rest1 /\ Rest2
  <2>1. chain # <<>> /\ {Head(chain).chunk} \in SUBSET Nat
    BY <1>18, <1>c, <1>j DEF SegmentFails
  <2>2. Bin({Head(chain).chunk}) \in Logs
    BY <1>b, <2>1
  <2>3. log' \in Logs
    BY <1>18, <2>2, Logged DEF SegmentFails
  <2> QED BY <1>18, <1>0, <1>h, <2>1, <2>3 DEF SegmentFails, Quietly, Plays, Go
<1>19. ASSUME Posts PROVE Rest1 /\ Rest2
  <2>1. chain # <<>>
    BY <1>19, <1>c DEF Posts, PostAnswered, PostFails, PlacesInv, Heads
  <2> QED BY <1>19, <1>0, <1>h, <2>1 DEF Posts, PostAnswered, PostFails, Quietly, Go
<1>20. ASSUME Reply PROVE Rest1 /\ Rest2
  BY <1>20, <1>0, <1>w, Logged DEF Reply
<1>21. [Next]_vars => (UNCHANGED vars \/ (Rest1 /\ Rest2))
  <2> HIDE DEF Rest1, Rest2
  <2> QED BY <1>2, <1>3, <1>4, <1>5, <1>6, <1>7, <1>8, <1>9, <1>10, <1>11, <1>12, <1>14, <1>15,
     <1>16, <1>17, <1>18, <1>19, <1>20 DEF Next, Segments
<1> QED BY <1>1, <1>21, <1>v DEF Shape, Sound

-----------------------------------------------------------------------------
(* Where a chunk may go next.                                              *)

\* Words move from the text to what is gone, or are forgotten; what waits grows no longer.
LEMMA TextGoes ==
  ASSUME NEW sp \in Nat, NEW c, NEW T, NEW G, NEW T2, NEW G2, NEW ch, NEW h, NEW h2,
         Placed(sp, c, T, G, ch, h), T2 \cup G2 \subseteq T \cup G, T2 \cap G2 = {},
         h2 \in {"nothing", "seg"} => h \in {"nothing", "seg"}
  PROVE  Placed(sp, c, T2, G2, ch, h2)
BY DEF Placed, Waiting

\* The head's chunk joins the text or is gone.
LEMMA HeadGoes ==
  ASSUME NEW sp \in Nat, NEW c, NEW T, NEW G, NEW T2, NEW G2, NEW ch, NEW h, NEW h2,
         Placed(sp, c, T, G, ch, h), h \in {"nothing", "seg"}, h2 \notin {"nothing", "seg"},
         ch \in Seq(JobSet), ch # <<>>, Head(ch).chunk # 0,
         T2 \cup G2 \subseteq T \cup G \cup {Head(ch).chunk}, T2 \cap G2 = {}
  PROVE  Placed(sp, c, T2, G2, ch, h2)
<1>1. 1 \in Waiting(ch, h) /\ Head(ch) = ch[1] /\ DOMAIN ch = 1..Len(ch)
  BY DEF Waiting
<1>2. Waiting(ch, h2) \subseteq Waiting(ch, h) /\ 1 \notin Waiting(ch, h2)
  BY DEF Waiting
<1>3. ch[1].chunk \in 1..sp /\ ch[1].chunk # c
  BY <1>1 DEF Placed
<1>4. T2 \cup G2 \subseteq 1..sp
  BY <1>1, <1>3 DEF Placed
<1>5. c \in (0..sp) \ (T2 \cup G2)
  BY <1>1, <1>3 DEF Placed
<1>6. ASSUME NEW i \in Waiting(ch, h2)
      PROVE  ch[i].chunk \in (0..sp) \ (T2 \cup G2)
  <2>1. ch[i].chunk \in (0..sp) \ (T \cup G) /\ ch[i].chunk # ch[1].chunk
    BY <1>1, <1>2, <1>6 DEF Placed
  <2> QED BY <1>1, <2>1
<1> QED BY <1>2, <1>4, <1>5, <1>6 DEF Placed

\* The head is done.
LEMMA HeadLeaves ==
  ASSUME NEW sp \in Nat, NEW c, NEW T, NEW G, NEW ch \in Seq(JobSet), NEW h,
         Placed(sp, c, T, G, ch, h), ch # <<>>
  PROVE  Placed(sp, c, T, G, Tail(ch), "nothing")
<1> DEFINE tl == Tail(ch)
<1>1. \A i \in Waiting(tl, "nothing") : i + 1 \in Waiting(ch, h) /\ tl[i] = ch[i + 1] /\ i \in Nat
  <2>1. Len(ch) \in Nat /\ DOMAIN ch = 1..Len(ch) /\ DOMAIN tl = 1..(Len(ch) - 1)
        /\ \A i \in 1..(Len(ch) - 1) : tl[i] = ch[i + 1]
    BY HeadTailProperties, LenProperties
  <2> HIDE DEF tl
  <2> QED BY <2>1 DEF Waiting
<1>2. ASSUME NEW i \in Waiting(tl, "nothing")
      PROVE  /\ tl[i].chunk \in (0..sp) \ (T \cup G)
             /\ tl[i].chunk # 0 => tl[i].chunk # c
             /\ \A j \in Waiting(tl, "nothing") :
                  i # j /\ tl[i].chunk # 0 => tl[i].chunk # tl[j].chunk
  <2>1. i + 1 \in Waiting(ch, h) /\ tl[i] = ch[i + 1] /\ i \in Nat
    BY <1>1, <1>2
  <2>2. ASSUME NEW j \in Waiting(tl, "nothing"), i # j, tl[i].chunk # 0
        PROVE  tl[i].chunk # tl[j].chunk
    <3> HIDE DEF tl
    <3>0. j + 1 \in Waiting(ch, h) /\ tl[j] = ch[j + 1] /\ j \in Nat
      BY <1>1, <2>2
    <3>1. i + 1 # j + 1
      BY <2>1, <2>2, <3>0
    <3> QED BY <2>1, <2>2, <3>0, <3>1 DEF Placed
  <2> HIDE DEF tl
  <2> QED BY <2>1, <2>2 DEF Placed
<1> HIDE DEF tl
<1>3. Placed(sp, c, T, G, tl, "nothing")
  BY <1>2 DEF Placed
<1> QED BY <1>3 DEF tl

\* Only the chunks of the jobs matter.
LEMMA SameChunks ==
  ASSUME NEW sp \in Nat, NEW c, NEW T, NEW G, NEW ch, NEW ch2, NEW h,
         Placed(sp, c, T, G, ch, h), DOMAIN ch2 = DOMAIN ch,
         \A i \in DOMAIN ch : ch2[i].chunk = ch[i].chunk
  PROVE  Placed(sp, c, T, G, ch2, h)
<1>1. Waiting(ch2, h) = Waiting(ch, h) /\ Waiting(ch, h) \subseteq DOMAIN ch
  BY DEF Waiting
<1>2. \A i \in Waiting(ch, h) : ch2[i].chunk = ch[i].chunk
  BY <1>1
<1> QED BY <1>1, <1>2 DEF Placed

\* The take is thrown away.
LEMMA TakeGoes ==
  ASSUME NEW sp \in Nat, NEW c, NEW T, NEW G, NEW ch, NEW h, Placed(sp, c, T, G, ch, h)
  PROVE  Placed(sp, 0, T, G \cup ({c} \ {0}), ch, h)
BY DEF Placed

\* He starts to talk.
LEMMA TakeStarts ==
  ASSUME NEW sp \in Nat, NEW c, NEW T, NEW G, NEW ch, NEW h, Placed(sp, c, T, G, ch, h)
  PROVE  Placed(sp + 1, sp + 1, T, G \cup ({c} \ {0}), ch, h)
BY DEF Placed

\* A job joins the chain: a flush, or the take.
LEMMA JobJoins ==
  ASSUME NEW sp \in Nat, NEW c, NEW T, NEW G, NEW ch \in Seq(JobSet), NEW h,
         NEW job \in JobSet, NEW c2, Placed(sp, c, T, G, ch, h),
         (job.chunk = 0 /\ c2 \in {0, c}) \/ (job.chunk = c /\ c2 = 0)
  PROVE  Placed(sp, c2, T, G, Append(ch, job), h)
<1> DEFINE app == Append(ch, job)
           n == Len(ch) + 1
<1>1. /\ n \in Nat /\ DOMAIN app = 1..n /\ app[n] = job
      /\ \A i \in (1..n) \ {n} : app[i] = ch[i] /\ i \in DOMAIN ch
  OBVIOUS
<1> HIDE DEF app, n
<1>2. \A i \in Waiting(app, h) : i = n \/ (i \in Waiting(ch, h) /\ app[i] = ch[i])
  BY <1>1 DEF Waiting
<1>3. /\ T \cup G \subseteq 1..sp /\ T \cap G = {} /\ c \in (0..sp) \ (T \cup G)
      /\ 0 \in (0..sp) \ (T \cup G)
  BY DEF Placed
<1>4. c2 \in (0..sp) \ (T \cup G) /\ job.chunk \in (0..sp) \ (T \cup G)
  BY <1>3
<1>5. ASSUME NEW i \in Waiting(app, h)
      PROVE  /\ app[i].chunk \in (0..sp) \ (T \cup G)
             /\ app[i].chunk # 0 => app[i].chunk # c2
             /\ \A j \in Waiting(app, h) :
                  i # j /\ app[i].chunk # 0 => app[i].chunk # app[j].chunk
  <2>1. CASE i = n
    <3>1. app[i].chunk = job.chunk
      BY <1>1, <2>1
    <3>2. ASSUME NEW j \in Waiting(app, h), i # j, job.chunk # 0 PROVE job.chunk # app[j].chunk
      <4>1. j \in Waiting(ch, h) /\ app[j] = ch[j]
        BY <1>2, <2>1, <3>2
      <4> QED BY <3>2, <4>1 DEF Placed
    <3> QED BY <1>4, <3>1, <3>2
  <2>2. CASE i # n
    <3>1. i \in Waiting(ch, h) /\ app[i] = ch[i]
      BY <1>2, <1>5, <2>2
    <3>2. /\ ch[i].chunk \in (0..sp) \ (T \cup G)
          /\ ch[i].chunk # 0 => ch[i].chunk # c /\ ch[i].chunk # c2
      BY <3>1 DEF Placed
    <3>3. ASSUME NEW j \in Waiting(app, h), i # j, ch[i].chunk # 0
          PROVE  ch[i].chunk # app[j].chunk
      <4>1. CASE j = n
        BY <1>1, <3>2, <3>3, <4>1
      <4>2. CASE j # n
        <5>1. j \in Waiting(ch, h) /\ app[j] = ch[j]
          BY <1>2, <3>3, <4>2
        <5> QED BY <3>1, <3>3, <5>1 DEF Placed
      <4> QED BY <4>1, <4>2
    <3> QED BY <3>1, <3>2, <3>3
  <2> QED BY <2>1, <2>2
<1>6. Placed(sp, c2, T, G, app, h)
  BY <1>3, <1>4, <1>5 DEF Placed
<1> QED BY <1>6 DEF app

LEMMA HeadsAppend ==
  ASSUME NEW ch \in Seq(JobSet), NEW h, NEW heard, NEW audio, NEW text, NEW job \in JobSet,
         Heads(ch, h, heard, audio, text), job.kind # "flush" => job.chunk # 0
  PROVE  Heads(Append(ch, job), h, heard, audio, text)
<1> DEFINE app == Append(ch, job)
<1>1. \A i \in DOMAIN app : app[i] = job \/ (i \in DOMAIN ch /\ app[i] = ch[i])
  OBVIOUS
<1>2. app # <<>> /\ (ch # <<>> => Head(app) = Head(ch))
  OBVIOUS
<1> HIDE DEF app
<1>3. Heads(app, h, heard, audio, text)
  BY <1>1, <1>2 DEF Heads
<1> QED BY <1>3 DEF app

LEMMA HeadsVoided ==
  ASSUME NEW ch \in Seq(JobSet), NEW h, NEW heard, NEW audio, NEW text,
         Heads(ch, h, heard, audio, text)
  PROVE  Heads(Voided(ch), h, heard, audio, text)
<1> DEFINE v == Voided(ch)
<1>1. /\ v \in Seq(JobSet) /\ Len(v) = Len(ch)
      /\ \A i \in DOMAIN ch : v[i].kind = ch[i].kind /\ v[i].chunk = ch[i].chunk
  BY VoidedShape
<1> HIDE DEF v
<1>2. DOMAIN v = DOMAIN ch /\ (ch # <<>> => v # <<>> /\ Head(v).kind = Head(ch).kind)
  <2>1. DOMAIN v = DOMAIN ch
    BY <1>1
  <2>2. ch # <<>> => v # <<>> /\ 1 \in DOMAIN ch /\ Head(v) = v[1] /\ Head(ch) = ch[1]
    BY <1>1
  <2> QED BY <1>1, <2>1, <2>2
<1>3. Heads(v, h, heard, audio, text)
  BY <1>1, <1>2 DEF Heads
<1> QED BY <1>3 DEF v

LEMMA HeadsTail ==
  ASSUME NEW ch \in Seq(JobSet), NEW h, NEW heard, NEW audio, NEW text, ch # <<>>,
         Heads(ch, h, heard, audio, text), NEW audio2
  PROVE  Heads(Tail(ch), "nothing", {}, audio2, {})
<1> DEFINE tl == Tail(ch)
<1>1. \A i \in DOMAIN tl : i + 1 \in DOMAIN ch /\ tl[i] = ch[i + 1]
  BY HeadTailProperties
<1> HIDE DEF tl
<1>2. Heads(tl, "nothing", {}, audio2, {})
  BY <1>1 DEF Heads
<1> QED BY <1>2 DEF tl

LEMMA LogFields ==
  ASSUME NEW l \in Logs, NEW cs
  PROVE  /\ [l EXCEPT !.binned = @ \cup cs].spoken = l.spoken
         /\ [l EXCEPT !.binned = @ \cup cs].sent = l.sent
         /\ [l EXCEPT !.binned = @ \cup cs].twice = l.twice
         /\ [l EXCEPT !.binned = @ \cup cs].binned = l.binned \cup cs
         /\ Sent(l, cs).spoken = l.spoken /\ Sent(l, cs).sent = l.sent \cup cs
         /\ Sent(l, cs).twice = l.twice \cup (cs \cap l.sent) /\ Sent(l, cs).binned = l.binned
         /\ Touched(l).spoken = l.spoken /\ Touched(l).sent = l.sent
         /\ Touched(l).twice = l.twice /\ Touched(l).binned = l.binned
<1>1. Sent(l, cs) = [[l EXCEPT !.sent = l.sent \cup cs] EXCEPT !.twice = l.twice \cup (cs \cap l.sent)]
  BY DEF Sent, Logs
<1>2. /\ Sent(l, cs).spoken = l.spoken /\ Sent(l, cs).sent = l.sent \cup cs
      /\ Sent(l, cs).twice = l.twice \cup (cs \cap l.sent) /\ Sent(l, cs).binned = l.binned
  BY <1>1 DEF Logs
<1>3. /\ Touched(l).spoken = l.spoken /\ Touched(l).sent = l.sent
      /\ Touched(l).twice = l.twice /\ Touched(l).binned = l.binned
  BY DEF Touched, Logs
<1>4. /\ [l EXCEPT !.binned = @ \cup cs].spoken = l.spoken
      /\ [l EXCEPT !.binned = @ \cup cs].sent = l.sent
      /\ [l EXCEPT !.binned = @ \cup cs].twice = l.twice
      /\ [l EXCEPT !.binned = @ \cup cs].binned = l.binned \cup cs
  BY DEF Logs
<1> QED BY <1>2, <1>3, <1>4

\* What the next log holds of the words: sent and binned grow by these.
Grows(spoken, sent, binned) ==
  /\ log'.spoken = spoken /\ log'.sent = log.sent \cup sent
  /\ log'.binned = log.binned \cup binned /\ log'.twice = log.twice \cup (sent \cap log.sent)

LEMMA FlushJoins ==
  ASSUME Shape, NEW c, NEW T, NEW G, Placed(log.spoken, c, T, G, chain, hears),
         Heads(chain, hears, asked, turn.audio, post)
  PROVE  /\ Placed(log.spoken, c, T, G, Append(chain, Flush), hears)
         /\ Heads(Append(chain, Flush), hears, asked, turn.audio, post)
<1> DEFINE n == log.spoken
<1>1. Flush \in JobSet /\ Flush.chunk = 0 /\ Flush.kind = "flush"
  BY JobShape DEF Flush, Job
<1>2. chain \in Seq(JobSet) /\ n \in Nat /\ Placed(n, c, T, G, chain, hears)
  BY DEF Shape, Logs
<1>5. (Flush.chunk = 0 /\ c \in {0, c}) \/ (Flush.chunk = c /\ c = 0)
  BY <1>1
<1> HIDE DEF Flush, n
<1>3. Placed(n, c, T, G, Append(chain, Flush), hears)
  BY <1>1, <1>2, <1>5, JobJoins, Zenon
<1>4. Heads(Append(chain, Flush), hears, asked, turn.audio, post)
  BY <1>1, <1>2, HeadsAppend
<1> QED BY <1>3, <1>4 DEF n

\* A take that ends as a cough is binned, as an utterance joins the chain.
LEMMA TakeEndsPlaces ==
  ASSUME Shape, PlacesInv, take # NoTake, NEW tn, NEW s, NEW p, NEW how \in {"end", "drop"},
         NEW conf, NEW l \in Logs,
         l.spoken = log.spoken, l.sent = log.sent, l.binned = log.binned, l.twice = log.twice,
         TakeEnds(take, s, p, tn, how, conf, l)
  PROVE  /\ take' = NoTake
         /\ \E binned \in {{}, {take.chunk}} :
              /\ Grows(log.spoken, {}, binned)
              /\ Placed(log.spoken, 0, Text(turn), Gone \cup binned, chain', hears)
         /\ Heads(chain', hears, asked, turn.audio, post)
<1>1. /\ take' = NoTake /\ take.chunk \in Nat /\ take.chunk # 0 /\ take.barge \in BOOLEAN
      /\ chain \in Seq(JobSet) /\ log.spoken \in Nat
      /\ Placed(log.spoken, take.chunk, Text(turn), Gone, chain, hears)
      /\ Heads(chain, hears, asked, turn.audio, post)
  BY DEF TakeEnds, Shape, Takes, PlacesInv, Logs
<1>2. CASE how = "drop"
  <2>1. log' = [l EXCEPT !.binned = @ \cup {take.chunk}] /\ chain' \in {chain, Append(chain, Flush)}
    BY <1>2 DEF TakeEnds, Dropped, FlushOnDrop
  <2>2. Grows(log.spoken, {}, {take.chunk})
    BY <2>1, LogFields DEF Grows
  <2>3. Placed(log.spoken, 0, Text(turn), Gone \cup {take.chunk}, chain, hears)
    <3>1. {take.chunk} \ {0} = {take.chunk}
      BY <1>1
    <3>2. Placed(log.spoken, 0, Text(turn), Gone \cup ({take.chunk} \ {0}), chain, hears)
      BY <1>1, TakeGoes
    <3> QED BY <3>1, <3>2
  <2> QED BY <1>1, <2>1, <2>2, <2>3, FlushJoins
<1>3. CASE how = "end"
  <2> DEFINE probation == take.barge /\ take.chunk \notin conf
             kind == IF mode = "keyword" /\ ~probation THEN "turn" ELSE "seg"
             job == Job(kind, take.chunk, probation)
  <2>1. log' = l /\ chain' = Append(chain, job)
    BY <1>3 DEF TakeEnds
  <2>2. probation \in BOOLEAN /\ kind \in {"turn", "seg", "flush"}
    BY <1>1
  <2>3. job \in JobSet /\ job.chunk = take.chunk
    <3> HIDE DEF kind, probation
    <3> QED BY <1>1, <2>2, JobShape DEF Job
  <2>4. Grows(log.spoken, {}, {})
    BY <2>1 DEF Grows
  <2> HIDE DEF job
  <2>5. Placed(log.spoken, 0, Text(turn), Gone, chain', hears)
    BY <1>1, <2>1, <2>3, JobJoins
  <2>6. Heads(chain', hears, asked, turn.audio, post)
    BY <1>1, <2>1, <2>3, HeadsAppend
  <2>7. Gone \cup {} = Gone
    OBVIOUS
  <2> QED BY <1>1, <2>4, <2>5, <2>6, <2>7
<1> QED BY <1>2, <1>3

\* Every step keeps each chunk in one place.
LEMMA PlacesNext == Shape /\ PlacesInv /\ [Next]_vars => PlacesInv'
<1> SUFFICES ASSUME Shape, PlacesInv, [Next]_vars PROVE PlacesInv'
  OBVIOUS
<1> DEFINE sp == log.spoken
           T == Text(turn)
           k == Head(chain).chunk
           Holds(ch, h) == Placed(sp, take.chunk, T, Gone, ch, h)
           Heading == Heads(chain', hears', asked', turn'.audio, post')
           SameTake == take'.chunk = take.chunk /\ (take' # NoTake => take'.chunk # 0)
           SameHeads == UNCHANGED <<chain, hears, asked, post>> /\ turn'.audio = turn.audio
           SameText == turn'.frozen \cup turn'.audio = T
<1>0. /\ log \in Logs /\ sp \in Nat /\ take \in Takes /\ chain \in Seq(JobSet) /\ turn \in Turns
      /\ hears \in {"nothing", "turn", "seg", "stale", "post"}
      /\ T = turn.frozen \cup turn.audio
  BY DEF Shape, Logs, Text
<1>p. Holds(chain, hears)
  BY DEF PlacesInv
<1>i. /\ log.sent \cap log.binned = {} /\ log.twice = {}
      /\ (take # NoTake => take.chunk # 0)
      /\ Heads(chain, hears, asked, turn.audio, post)
  BY DEF PlacesInv
<1>d. /\ T \cap Gone = {} /\ take.chunk \notin T \cup Gone
      /\ T \cap log.sent = {} /\ T \cap log.binned = {}
  BY <1>p DEF Placed, Gone
<1>k. hears \in {"nothing", "seg"} /\ chain # <<>> => k \notin T \cup Gone
  <2>1. ASSUME hears \in {"nothing", "seg"}, chain # <<>> PROVE 1 \in Waiting(chain, hears)
    BY <1>0, <2>1 DEF Waiting
  <2>2. chain # <<>> => k = chain[1].chunk
    BY <1>0
  <2> QED BY <1>p, <2>1, <2>2 DEF Placed
\* What is to be shown, for a step that sends and bins what it does.
<1>g. ASSUME NEW spoken, NEW sent, NEW binned, Grows(spoken, sent, binned),
             sent \cap log.sent = {}, sent \cap log.binned = {}, binned \cap log.sent = {},
             sent \cap binned = {},
             Placed(spoken, take'.chunk, turn'.frozen \cup turn'.audio, Gone \cup (sent \cup binned),
                    chain', hears'),
             take' # NoTake => take'.chunk # 0, Heading
      PROVE  PlacesInv'
  <2>1. log'.sent \cup log'.binned = Gone \cup (sent \cup binned)
    BY <1>g DEF Grows, Gone
  <2>2. log'.sent \cap log'.binned = {} /\ log'.twice = {}
    BY <1>g, <1>i DEF Grows
  <2> QED BY <1>g, <2>1, <2>2 DEF PlacesInv, Gone, Text, Grows
\* Nothing sent, nothing binned.
<1>e. ASSUME Grows(sp, {}, {}), Placed(sp, take'.chunk, turn'.frozen \cup turn'.audio, Gone, chain', hears'),
             take' # NoTake => take'.chunk # 0, Heading
      PROVE  PlacesInv'
  <2>1. Gone \cup ({} \cup {}) = Gone
    OBVIOUS
  <2> QED BY <1>e, <1>g, <2>1
<1>s. /\ log' = log => Grows(sp, {}, {})
      /\ log' = Touched(log) => Grows(sp, {}, {})
      /\ (\E b \in {TRUE, FALSE} : log' = [log EXCEPT !.failed = b]) => Grows(sp, {}, {})
  BY <1>0, LogFields DEF Grows, Logs
<1>b. ASSUME NEW cs, log' \in {Bin(cs), Touched(Bin(cs)), [Bin(cs) EXCEPT !.failed = TRUE]}
      PROVE  Grows(sp, {}, cs)
  <2>1. Bin(cs).spoken = sp /\ Bin(cs).sent = log.sent /\ Bin(cs).binned = log.binned \cup cs
        /\ Bin(cs).twice = log.twice
    BY <1>0 DEF Bin, Logs
  <2>2. Touched(Bin(cs)).spoken = sp /\ Touched(Bin(cs)).sent = log.sent
        /\ Touched(Bin(cs)).binned = log.binned \cup cs /\ Touched(Bin(cs)).twice = log.twice
    BY <2>1, <1>0 DEF Bin, Touched, Logs
  <2>3. LET l == [Bin(cs) EXCEPT !.failed = TRUE] IN
        l.spoken = sp /\ l.sent = log.sent /\ l.binned = log.binned \cup cs /\ l.twice = log.twice
    BY <2>1, <1>0 DEF Bin, Logs
  <2> QED BY <1>b, <2>1, <2>2, <2>3 DEF Grows
\* Nothing of the words changes.
<1>n. ASSUME Grows(sp, {}, {}), SameTake, SameHeads, SameText PROVE PlacesInv'
  <2>1. Heading
    BY <1>n, <1>i
  <2>2. Placed(sp, take'.chunk, turn'.frozen \cup turn'.audio, Gone, chain', hears')
    BY <1>n, <1>p
  <2> QED BY <1>e, <1>n, <2>1, <2>2
<1>1. CASE UNCHANGED vars
  BY <1>1 DEF vars, PlacesInv, Placed, Heads, Waiting, Text, Gone
<1>u. UNCHANGED <<take, words>> => SameTake /\ SameHeads /\ SameText
  BY <1>0, <1>i DEF words
<1>2. CASE NoMic \/ Opened \/ Resume \/ ClockRuns \/ Resumed \/ EndCall \/ ProbeAnswered \/ Sounds
           \/ Synthesised \/ Ended \/ TickFiller \/ TickStatus \/ SayStatus \/ DeviceChanged \/ Unmute
  <2>1. UNCHANGED <<take, words>> /\ log' \in {log, Touched(log)}
    BY <1>2 DEF NoMic, Opened, Resume, ClockRuns, Resumed, EndCall, ProbeAnswered, Sounds,
       Synthesised, Ended, TickFiller, TickStatus, SayStatus, DeviceChanged, Unmute, Idles, Go, Plays
  <2> HIDE DEF SameTake, SameHeads, SameText
  <2> QED BY <2>1, <1>u, <1>s, <1>n
<1>3. CASE Reply \/ ProbeBarge
  <2>1. Grows(sp, {}, {})
    <3>1. CASE Reply
      BY <1>0, <3>1 DEF Reply, Grows, Logs
    <3>2. CASE ProbeBarge
      BY <1>s, <3>2 DEF ProbeBarge
    <3> QED BY <1>3, <3>1, <3>2
  <2>2. UNCHANGED words /\ SameTake
    <3>1. CASE Reply
      BY <1>i, <3>1 DEF Reply
    <3>2. CASE ProbeBarge
      <4>1. take # NoTake
        BY <3>2 DEF ProbeBarge, NoTake
      <4>2. take'.chunk = take.chunk /\ UNCHANGED words
        BY <1>0, <3>2 DEF ProbeBarge, Takes
      <4> QED BY <1>i, <4>1, <4>2
    <3> QED BY <1>3, <3>1, <3>2
  <2>3. SameHeads /\ SameText
    BY <1>0, <2>2 DEF words
  <2> HIDE DEF SameTake, SameHeads, SameText
  <2> QED BY <1>n, <2>1, <2>2, <2>3
\* The take is thrown away.
<1>4. ASSUME take' = NoTake, log' \in {Bin({take.chunk} \ {0}), Touched(Bin({take.chunk} \ {0}))},
             UNCHANGED <<turn, hears, asked, post>>, chain' \in {chain, Append(chain, Flush)}
      PROVE  PlacesInv'
  <2> DEFINE cs == {take.chunk} \ {0}
  <2>1. Grows(sp, {}, cs) /\ take'.chunk = 0
    BY <1>4, <1>b DEF NoTake
  <2>2. Placed(sp, 0, T, Gone \cup cs, chain, hears)
    BY <1>0, <1>p, TakeGoes
  <2>3. Placed(sp, 0, T, Gone \cup cs, chain', hears) /\ Heads(chain', hears, asked, turn.audio, post)
    BY <1>4, <1>i, <2>2, FlushJoins
  <2>4. Heading /\ turn'.frozen \cup turn'.audio = T
    BY <1>0, <1>4, <2>3
  <2>5. Gone \cup ({} \cup cs) = Gone \cup cs /\ cs \cap log.sent = {}
    BY <1>d DEF Gone
  <2> HIDE DEF cs, Heading, sp, T
  <2> QED BY <1>4, <1>g, <2>1, <2>3, <2>4, <2>5
<1>5. CASE AttachMic
  <2>1. CASE Live
    BY <1>4, <1>5, <2>1 DEF AttachMic, words
  <2>2. CASE ~Live
    <3>1. UNCHANGED <<take, words, log>>
      BY <1>5, <2>2 DEF AttachMic
    <3> HIDE DEF SameTake, SameHeads, SameText
    <3> QED BY <3>1, <1>u, <1>s, <1>n
  <2> QED BY <2>1, <2>2
<1>6. CASE Pause
  BY <1>4, <1>6 DEF Pause, words
<1>7. CASE Mute
  BY <1>4, <1>7 DEF Mute
<1> HIDE DEF sp, T, k, Heading
<1>8. CASE SpeechStarts
  <2> DEFINE cs == {take.chunk} \ {0}
  <2>1. /\ take' = [chunk |-> sp + 1, barge |-> Busy(player), probe |-> Busy(player)]
        /\ log' = [Bin(cs) EXCEPT !.spoken = @ + 1] /\ UNCHANGED words
    BY <1>8 DEF SpeechStarts, sp
  <2>2. Grows(sp + 1, {}, cs)
    BY <1>0, <2>1 DEF Grows, Bin, Logs, sp
  <2>3. take'.chunk = sp + 1 /\ take'.chunk # 0
    BY <1>0, <2>1
  <2>4. Placed(sp + 1, sp + 1, T, Gone \cup cs, chain, hears)
    BY <1>0, <1>p, TakeStarts
  <2>5. Heading /\ turn'.frozen \cup turn'.audio = T /\ UNCHANGED <<chain, hears>>
    BY <1>0, <1>i, <2>1 DEF words, Heading
  <2>6. Gone \cup ({} \cup cs) = Gone \cup cs /\ cs \cap log.sent = {}
    BY <1>d DEF Gone
  <2> HIDE DEF cs
  <2>7. Placed(sp + 1, take'.chunk, turn'.frozen \cup turn'.audio, Gone \cup ({} \cup cs), chain', hears')
    BY <2>3, <2>4, <2>5, <2>6
  <2> QED BY <1>g, <2>2, <2>3, <2>5, <2>6, <2>7
\* The take ends.
<1>9. ASSUME take # NoTake, UNCHANGED <<hears, asked, post>>, turn'.frozen = turn.frozen,
             turn'.audio = turn.audio,
             \E tn, s, p, conf, l : \E how \in {"end", "drop"} :
               l \in {log, Touched(log)} /\ TakeEnds(take, s, p, tn, how, conf, l)
      PROVE  PlacesInv'
  <2>1. PICK tn, s, p, conf, l :
          /\ l \in {log, Touched(log)}
          /\ \E how \in {"end", "drop"} : TakeEnds(take, s, p, tn, how, conf, l)
    BY <1>9
  <2>2. /\ l \in Logs /\ l.spoken = log.spoken /\ l.sent = log.sent /\ l.binned = log.binned
        /\ l.twice = log.twice
    BY <1>0, <2>1, Logged, LogFields
  <2>3. /\ take' = NoTake
        /\ \E binned \in {{}, {take.chunk}} :
              /\ Grows(log.spoken, {}, binned)
              /\ Placed(log.spoken, 0, Text(turn), Gone \cup binned, chain', hears)
        /\ Heads(chain', hears, asked, turn.audio, post)
    BY <1>9, <2>1, <2>2, TakeEndsPlaces
  <2>4. PICK binned \in {{}, {take.chunk}} :
              /\ Grows(sp, {}, binned)
              /\ Placed(sp, 0, T, Gone \cup binned, chain', hears)
    BY <2>3 DEF sp, T
  <2>5. Heading /\ turn'.frozen \cup turn'.audio = T /\ take'.chunk = 0
    BY <1>0, <1>9, <2>3 DEF Heading, NoTake
  <2>6. Gone \cup ({} \cup binned) = Gone \cup binned /\ binned \cap log.sent = {}
    BY <1>d DEF Gone
  <2>7. Placed(sp, take'.chunk, turn'.frozen \cup turn'.audio, Gone \cup ({} \cup binned), chain', hears')
    BY <1>9, <2>4, <2>5, <2>6
  <2> QED BY <1>g, <2>3, <2>4, <2>5, <2>6, <2>7
<1>10. CASE SpeechEnds
  <2>1. CASE take = NoTake
    <3>1. UNCHANGED <<take, words, log>>
      BY <1>10, <2>1 DEF SpeechEnds, words
    <3> HIDE DEF SameTake, SameHeads, SameText
    <3> QED BY <3>1, <1>u, <1>s, <1>n
  <2>2. CASE take # NoTake
    <3>1. /\ UNCHANGED <<turn, hears, asked, post>>
          /\ \E how \in {"end", "drop"} : TakeEnds(take, st, player, turn, how, confirmed, log)
      BY <1>10, <2>2 DEF SpeechEnds
    <3> QED BY <1>9, <2>2, <3>1
  <2> QED BY <2>1, <2>2
<1>11. CASE SendTurn
  <2> DEFINE tn == IF mode = "keyword" THEN [turn EXCEPT !.sendNow = TRUE] ELSE turn
             barge == take # NoTake /\ Probation(take)
             conf == IF barge THEN confirmed \cup {take.chunk} ELSE confirmed
             b == IF barge THEN Barged(player) ELSE [st |-> st, player |-> player]
  <2>1. /\ turn' = tn /\ UNCHANGED <<hears, asked, post>>
        /\ \/ /\ take # NoTake
              /\ \E how \in {"end", "drop"} :
                   TakeEnds(take, b.st, b.player, tn, how, conf, Touched(log))
           \/ /\ chain' \in {chain, Append(chain, Flush)}
              /\ log' = Touched(log) /\ UNCHANGED take
    BY <1>11 DEF SendTurn
  <2>2. tn.frozen = turn.frozen /\ tn.audio = turn.audio
    BY <1>0 DEF Turns
  <2> HIDE DEF tn, b, conf
  <2>3. CASE /\ take # NoTake
             /\ \E how \in {"end", "drop"} :
                   TakeEnds(take, b.st, b.player, tn, how, conf, Touched(log))
    BY <1>9, <2>1, <2>2, <2>3
  <2>4. CASE /\ chain' \in {chain, Append(chain, Flush)}
             /\ log' = Touched(log) /\ UNCHANGED take
    <3>1. Placed(sp, take.chunk, T, Gone, chain', hears) /\ Heads(chain', hears, asked, turn.audio, post)
      BY <1>p, <1>i, <2>4, FlushJoins DEF sp, T
    <3>2. /\ Placed(sp, take'.chunk, turn'.frozen \cup turn'.audio, Gone, chain', hears')
          /\ (take' # NoTake => take'.chunk # 0) /\ Heading
      BY <1>0, <1>i, <2>1, <2>2, <2>4, <3>1 DEF Heading
    <3> QED BY <1>e, <1>s, <2>4, <3>2
  <2> QED BY <2>1, <2>3, <2>4

\* The head is done: what it leaves behind is placed, and headed by nothing.
<1>h. ASSUME NEW T2, NEW G2, chain # <<>>, HeadDone(chain) \/ HeadDone(Voided(chain)),
             Placed(sp, take.chunk, T2, G2, chain, hears)
      PROVE  /\ Placed(sp, take.chunk, T2, G2, chain', hears')
             /\ post' = {} => Heading
  <2> DEFINE v == Voided(chain)
  <2>1. /\ v \in Seq(JobSet) /\ v # <<>> /\ DOMAIN v = DOMAIN chain
        /\ \A i \in DOMAIN chain : v[i].chunk = chain[i].chunk
    BY <1>0, <1>h, VoidedShape
  <2>2. Heads(v, hears, asked, turn.audio, post)
    BY <1>0, <1>i, HeadsVoided
  <2> HIDE DEF v
  <2>3. Placed(sp, take.chunk, T2, G2, v, hears)
    BY <1>0, <1>h, <2>1, SameChunks
  <2>4. Placed(sp, take.chunk, T2, G2, Tail(v), "nothing")
        /\ Placed(sp, take.chunk, T2, G2, Tail(chain), "nothing")
    BY <1>0, <1>h, <2>1, <2>3, HeadLeaves
  <2>5. /\ Heads(Tail(v), "nothing", {}, turn'.audio, {})
        /\ Heads(Tail(chain), "nothing", {}, turn'.audio, {})
    BY <1>0, <1>h, <1>i, <2>1, <2>2, HeadsTail
  <2>6. hears' = "nothing" /\ asked' = {} /\ chain' \in {Tail(chain), Tail(v)}
    BY <1>h DEF HeadDone, v
  <2> QED BY <2>4, <2>5, <2>6 DEF Heading
<1>c. /\ hears # "nothing" => chain # <<>>
      /\ hears # "post" => post = {}
      /\ hears = "turn" => asked \subseteq turn.audio
  BY <1>i DEF Heads
<1>t. UNCHANGED take => /\ take'.chunk = take.chunk /\ (take' # NoTake => take'.chunk # 0)
  BY <1>i
<1>12. CASE HearTurn
  <2>1. hears = "nothing" /\ chain # <<>> /\ UNCHANGED <<take, post, log>> /\ post = {}
    BY <1>12, <1>c DEF HearTurn
  <2>2. CASE HeadDone(chain) /\ UNCHANGED turn
    <3>1. Placed(sp, take.chunk, T, Gone, chain', hears') /\ Heading
      BY <1>h, <1>p, <2>1, <2>2
    <3>2. turn'.frozen \cup turn'.audio = T
      BY <1>0, <2>2
    <3>3. Placed(sp, take'.chunk, turn'.frozen \cup turn'.audio, Gone, chain', hears')
      BY <2>1, <3>1, <3>2
    <3> QED BY <1>e, <1>s, <1>t, <2>1, <3>1, <3>3
  <2>3. CASE /\ hears' = IF Head(chain).kind = "seg" THEN "seg" ELSE "turn"
             /\ turn' = IF Head(chain).kind = "turn" THEN [turn EXCEPT !.audio = @ \cup {k}] ELSE turn
             /\ asked' = IF Head(chain).kind = "seg" THEN {} ELSE turn'.audio
             /\ UNCHANGED chain
    <3>1. Heading
      BY <1>i, <2>1, <2>3 DEF Heading, Heads
    <3>2. Head(chain).kind # "flush" => k # 0
      <4>1. 1 \in DOMAIN chain /\ Head(chain) = chain[1]
        BY <1>0, <2>1
      <4> QED BY <1>i, <4>1 DEF Heads, k
    <3>3. Placed(sp, take.chunk, turn'.frozen \cup turn'.audio, Gone, chain, hears')
      <4>1. CASE Head(chain).kind = "turn"
        <5>1. turn'.frozen \cup turn'.audio = T \cup {k}
          BY <1>0, <2>3, <4>1 DEF Turns
        <5>2. k # 0 /\ hears' \notin {"nothing", "seg"} /\ (T \cup {k}) \cap Gone = {}
          BY <1>d, <1>k, <2>1, <2>3, <3>2, <4>1
        <5> QED BY <1>0, <1>p, <2>1, <5>1, <5>2, HeadGoes DEF k
      <4>2. CASE Head(chain).kind # "turn"
        <5>1. turn'.frozen \cup turn'.audio = T
          BY <1>0, <2>3, <4>2
        <5> QED BY <1>0, <1>d, <1>p, <2>1, <5>1, TextGoes
      <4> QED BY <4>1, <4>2
    <3>4. Placed(sp, take'.chunk, turn'.frozen \cup turn'.audio, Gone, chain', hears')
      BY <2>1, <2>3, <3>3
    <3> QED BY <1>e, <1>s, <1>t, <2>1, <3>1, <3>4
  <2> QED BY <1>12, <2>2, <2>3 DEF HearTurn, k
<1>13. CASE TurnUnheard
  <2>1. chain # <<>> /\ HeadDone(chain) /\ UNCHANGED <<take, turn, post>> /\ post = {}
        /\ (log' = log \/ log' = [log EXCEPT !.failed = TRUE])
    BY <1>13, <1>c DEF TurnUnheard
  <2>2. Placed(sp, take.chunk, T, Gone, chain', hears') /\ Heading
    BY <1>h, <1>p, <2>1
  <2>3. turn'.frozen \cup turn'.audio = T /\ Grows(sp, {}, {})
    BY <1>0, <1>s, <2>1
  <2>4. Placed(sp, take'.chunk, turn'.frozen \cup turn'.audio, Gone, chain', hears')
    BY <2>1, <2>2, <2>3
  <2> QED BY <1>e, <1>t, <2>1, <2>2, <2>3, <2>4
\* The text of the turn is thrown away.
<1>x. Placed(sp, take.chunk, {}, Gone \cup T, chain, hears)
  <2>1. {} \cup (Gone \cup T) \subseteq T \cup Gone /\ {} \cap (Gone \cup T) = {}
    OBVIOUS
  <2> QED BY <1>0, <1>p, <2>1, TextGoes
<1>14. CASE TurnCancelled
  <2>1. /\ log' = Bin(T) /\ turn' = NoTurn /\ HeadDone(Voided(chain)) /\ UNCHANGED <<take, post>>
        /\ post = {} /\ chain # <<>>
    BY <1>14, <1>c DEF TurnCancelled, Heard, ResetTurn, T
  <2>2. Placed(sp, take.chunk, {}, Gone \cup T, chain', hears') /\ Heading
    BY <1>h, <1>x, <2>1
  <2>3. turn'.frozen \cup turn'.audio = {} /\ Grows(sp, {}, T)
    BY <1>b, <2>1 DEF NoTurn
  <2>4. Gone \cup ({} \cup T) = Gone \cup T /\ T \cap log.sent = {}
    BY <1>d
  <2>5. Placed(sp, take'.chunk, turn'.frozen \cup turn'.audio, Gone \cup ({} \cup T), chain', hears')
    BY <2>1, <2>2, <2>3, <2>4
  <2> QED BY <1>g, <1>t, <2>1, <2>2, <2>3, <2>4, <2>5
<1>15. CASE ClearBuffer
  <2> DEFINE v == Voided(chain)
  <2>1. /\ log' = Touched(Bin(T)) /\ turn' = NoTurn /\ hears' = Outdated(hears)
        /\ chain' = v /\ UNCHANGED <<take, asked, post>>
    BY <1>15 DEF ClearBuffer, ResetTurn, T
  <2>2. /\ v \in Seq(JobSet) /\ DOMAIN v = DOMAIN chain
        /\ \A i \in DOMAIN chain : v[i].chunk = chain[i].chunk
        /\ Heads(v, hears, asked, turn.audio, post)
    BY <1>0, <1>i, VoidedShape, HeadsVoided
  <2> HIDE DEF v
  <2>3. Heading
    BY <2>1, <2>2 DEF Heading, Heads, Outdated
  <2>4. Placed(sp, take.chunk, {}, Gone \cup T, v, hears)
    BY <1>0, <1>x, <2>2, SameChunks
  <2>5. hears' \in {"nothing", "seg"} => hears \in {"nothing", "seg"}
    BY <2>1 DEF Outdated
  <2>6. Placed(sp, take.chunk, {}, Gone \cup T, v, hears')
    <3>1. {} \cup (Gone \cup T) \subseteq {} \cup (Gone \cup T) /\ {} \cap (Gone \cup T) = {}
      OBVIOUS
    <3> QED BY <1>0, <2>4, <2>5, <3>1, TextGoes
  <2>7. turn'.frozen \cup turn'.audio = {} /\ Grows(sp, {}, T)
    BY <1>b, <2>1 DEF NoTurn
  <2>8. Gone \cup ({} \cup T) = Gone \cup T /\ T \cap log.sent = {}
    BY <1>d
  <2>9. Placed(sp, take'.chunk, turn'.frozen \cup turn'.audio, Gone \cup ({} \cup T), chain', hears')
    BY <2>1, <2>6, <2>7, <2>8
  <2> QED BY <1>g, <1>t, <2>1, <2>3, <2>7, <2>8, <2>9
<1>16. CASE TurnGrows
  <2>1. /\ hears = "turn" /\ chain # <<>> /\ post = {} /\ UNCHANGED <<take, post, log>>
        /\ asked \subseteq turn.audio
    BY <1>16, <1>c DEF TurnGrows, Heard
  <2>2. HeadDone(chain) \/ HeadDone(Voided(chain))
    BY <1>16 DEF TurnGrows
  <2>3. PICK said \in Readings :
          LET full == turn.frozen \cup said IN
          \/ turn' = [turn EXCEPT !.buffer = full]
          \/ turn' = [ResetTurn(turn) EXCEPT !.frozen = full, !.buffer = full]
    BY <1>16 DEF TurnGrows
  <2>4. turn'.frozen \cup turn'.audio \subseteq T
    BY <1>0, <2>1, <2>3 DEF Readings, ResetTurn, NoTurn, Turns
  <2> DEFINE T2 == turn'.frozen \cup turn'.audio
  <2>5. T2 \cup Gone \subseteq T \cup Gone /\ T2 \cap Gone = {}
    BY <1>d, <2>4
  <2> HIDE DEF T2
  <2>6. Placed(sp, take.chunk, T2, Gone, chain, hears)
    BY <1>0, <1>p, <2>5, TextGoes
  <2>7. Placed(sp, take.chunk, T2, Gone, chain', hears') /\ Heading
    BY <1>h, <2>1, <2>2, <2>6
  <2>8. Placed(sp, take'.chunk, turn'.frozen \cup turn'.audio, Gone, chain', hears')
    BY <2>1, <2>7 DEF T2
  <2> QED BY <1>e, <1>s, <1>t, <2>1, <2>7, <2>8
<1>17. ASSUME NEW text, NEW rest, TurnCommitted(text, rest), hears = "turn",
              text \cup rest \subseteq T, text \cap rest = {}
       PROVE  PlacesInv'
  <2>1. turn' = [NoTurn EXCEPT !.frozen = rest, !.buffer = rest] /\ UNCHANGED take
    BY <1>17 DEF TurnCommitted, ResetTurn
  <2>2. turn'.frozen \cup turn'.audio = rest
    BY <2>1 DEF NoTurn
  <2>3. chain # <<>> /\ post = {}
    BY <1>17, <1>c
  <2>4. CASE text = {}
    <3>1. HeadDone(Voided(chain)) /\ UNCHANGED <<post, log>>
      BY <1>17, <2>4 DEF TurnCommitted
    <3>2. rest \cup Gone \subseteq T \cup Gone /\ rest \cap Gone = {}
      BY <1>17, <1>d
    <3>3. Placed(sp, take.chunk, rest, Gone, chain, hears)
      BY <1>0, <1>p, <3>2, TextGoes
    <3>4. Placed(sp, take.chunk, rest, Gone, chain', hears') /\ Heading
      BY <1>h, <2>3, <3>1, <3>3
    <3>5. Placed(sp, take'.chunk, turn'.frozen \cup turn'.audio, Gone, chain', hears')
      BY <2>1, <2>2, <3>4
    <3> QED BY <1>e, <1>s, <1>t, <2>1, <3>1, <3>4, <3>5
  <2>5. CASE text # {}
    <3> DEFINE v == Voided(chain)
    <3>1. chain' = v /\ log' = Sent(log, text) /\ post' = text /\ hears' = "post" /\ asked' = {}
      BY <1>17, <2>5 DEF TurnCommitted, Deliver
    <3>2. /\ v \in Seq(JobSet) /\ v # <<>> /\ DOMAIN v = DOMAIN chain
          /\ \A i \in DOMAIN chain : v[i].chunk = chain[i].chunk
          /\ Heads(v, hears, asked, turn.audio, post)
      BY <1>0, <1>i, <2>3, VoidedShape, HeadsVoided
    <3> HIDE DEF v
    <3>3. Heading
      BY <3>1, <3>2 DEF Heading, Heads
    <3>4. Grows(sp, text, {})
      BY <1>0, <3>1, LogFields DEF Grows, sp
    <3>5. /\ rest \cup (Gone \cup (text \cup {})) \subseteq T \cup Gone
          /\ rest \cap (Gone \cup (text \cup {})) = {}
          /\ text \cap log.sent = {} /\ text \cap log.binned = {}
      BY <1>17, <1>d
    <3>6. Placed(sp, take.chunk, T, Gone, v, hears)
      BY <1>0, <1>p, <3>2, SameChunks
    <3>7. Placed(sp, take.chunk, rest, Gone \cup (text \cup {}), v, hears')
      BY <1>0, <3>1, <3>5, <3>6, TextGoes
    <3>8. Placed(sp, take'.chunk, turn'.frozen \cup turn'.audio, Gone \cup (text \cup {}), chain', hears')
      BY <2>1, <2>2, <3>1, <3>7
    <3> QED BY <1>g, <1>t, <2>1, <3>3, <3>4, <3>5, <3>8
  <2> QED BY <2>4, <2>5
<1>18. CASE KeywordHeard \/ SendNowHeard
  <2>1. hears = "turn" /\ asked \subseteq turn.audio /\ T = turn.frozen \cup turn.audio
    BY <1>18, <1>c, <1>0 DEF KeywordHeard, SendNowHeard, Heard
  <2>2. CASE KeywordHeard
    <3>1. PICK cut \in 0..MaxChunks :
            LET full == turn.frozen \cup asked
            IN TurnCommitted({c \in full : c <= cut}, {c \in full : c > cut})
      BY <2>2 DEF KeywordHeard
    <3> DEFINE text == {c \in turn.frozen \cup asked : c <= cut}
               rest == {c \in turn.frozen \cup asked : c > cut}
    <3>2. text \cup rest \subseteq T /\ text \cap rest = {}
      <4>1. turn.frozen \subseteq Nat /\ turn.audio \subseteq Nat
        BY <1>0 DEF Turns
      <4>2. cut \in Nat
        BY CallAssumption
      <4>3. \A c \in turn.frozen \cup asked : c \in Nat
        BY <2>1, <4>1
      <4> QED BY <2>1, <4>2, <4>3
    <3>3. TurnCommitted(text, rest)
      BY <3>1
    <3> HIDE DEF text, rest
    <3> QED BY <1>17, <2>1, <3>2, <3>3
  <2>3. CASE SendNowHeard
    <3>1. PICK said \in Readings : TurnCommitted(turn.frozen \cup said, {})
      BY <2>3 DEF SendNowHeard
    <3>2. (turn.frozen \cup said) \cup {} \subseteq T /\ (turn.frozen \cup said) \cap {} = {}
      BY <2>1 DEF Readings
    <3> QED BY <1>17, <2>1, <3>1, <3>2
  <2> QED BY <1>18, <2>2, <2>3
\* The head's chunk is thrown away.
<1>y. ASSUME hears = "seg", HeadDone(chain), UNCHANGED <<take, turn, post>>,
             log' \in {Bin({k}), [Bin({k}) EXCEPT !.failed = TRUE]}
      PROVE  PlacesInv'
  <2>1. chain # <<>> /\ post = {} /\ post' = {} /\ k \notin T \cup Gone /\ k # 0
    <3>1. chain # <<>> /\ 1 \in DOMAIN chain /\ Head(chain) = chain[1] /\ Head(chain).kind = "seg"
      BY <1>0, <1>i, <1>y DEF Heads
    <3>2. k # 0
      BY <1>i, <3>1 DEF Heads, k
    <3> QED BY <1>c, <1>k, <1>y, <3>1, <3>2
  <2>2. Placed(sp, take.chunk, T, Gone \cup {k}, chain, "stale")
    <3>1. T \cup (Gone \cup {k}) \subseteq T \cup Gone \cup {k} /\ T \cap (Gone \cup {k}) = {}
      BY <1>d, <2>1
    <3> QED BY <1>0, <1>p, <1>y, <2>1, <3>1, HeadGoes DEF k
  <2>3. Placed(sp, take.chunk, T, Gone \cup {k}, Tail(chain), "nothing")
    BY <1>0, <2>1, <2>2, HeadLeaves
  <2>4. Heading
    BY <1>h, <1>p, <1>y, <2>1
  <2>5. /\ turn'.frozen \cup turn'.audio = T /\ chain' = Tail(chain) /\ hears' = "nothing"
        /\ Gone \cup ({} \cup {k}) = Gone \cup {k} /\ {k} \cap log.sent = {}
    BY <1>0, <1>y, <2>1 DEF HeadDone, Gone
  <2>6. Grows(sp, {}, {k})
    BY <1>b, <1>y
  <2>7. Placed(sp, take'.chunk, turn'.frozen \cup turn'.audio, Gone \cup ({} \cup {k}), chain', hears')
    BY <1>y, <2>3, <2>5
  <2> QED BY <1>g, <1>t, <1>y, <2>4, <2>5, <2>6, <2>7
<1>19. CASE SegmentHeard
  <2>1. /\ UNCHANGED take /\ hears = "seg"
        /\ \/ HeadDone(chain) /\ log' = Bin({k}) /\ UNCHANGED <<turn, post>>
           \/ /\ Deliver({k}) /\ log' = Sent(log, {k})
              /\ UNCHANGED <<turn, chain>>
           \/ /\ turn' = [turn EXCEPT !.audio = @ \cup {k}]
              /\ hears' = "turn" /\ asked' = turn'.audio /\ UNCHANGED <<post, log, chain>>
    BY <1>19 DEF SegmentHeard, Plays, k
  <2>2. chain # <<>> /\ post = {} /\ k \notin T \cup Gone /\ k # 0
    <3>1. chain # <<>> /\ 1 \in DOMAIN chain /\ Head(chain) = chain[1] /\ Head(chain).kind = "seg"
      BY <1>0, <1>i, <2>1 DEF Heads
    <3>2. k # 0
      BY <1>i, <3>1 DEF Heads, k
    <3> QED BY <1>c, <1>k, <2>1, <3>1, <3>2
  <2>3. CASE HeadDone(chain) /\ log' = Bin({k}) /\ UNCHANGED <<turn, post>>
    BY <1>y, <2>1, <2>3
  <2>4. CASE Deliver({k}) /\ log' = Sent(log, {k}) /\ UNCHANGED <<turn, chain>>
    <3>1. Heading
      BY <1>i, <2>1, <2>2, <2>4 DEF Heading, Heads, Deliver
    <3>2. Grows(sp, {k}, {})
      BY <1>0, <2>4, LogFields DEF Grows, sp
    <3>3. /\ T \cup (Gone \cup ({k} \cup {})) \subseteq T \cup Gone \cup {k}
          /\ T \cap (Gone \cup ({k} \cup {})) = {}
          /\ {k} \cap log.sent = {} /\ {k} \cap log.binned = {}
          /\ hears' \notin {"nothing", "seg"}
      BY <1>d, <2>2, <2>4 DEF Deliver, Gone
    <3>4. Placed(sp, take.chunk, T, Gone \cup ({k} \cup {}), chain, hears')
      BY <1>0, <1>p, <2>1, <2>2, <3>3, HeadGoes DEF k
    <3>5. turn'.frozen \cup turn'.audio = T
      BY <1>0, <2>4
    <3>6. Placed(sp, take'.chunk, turn'.frozen \cup turn'.audio, Gone \cup ({k} \cup {}), chain', hears')
      BY <2>1, <2>4, <3>4, <3>5
    <3> QED BY <1>g, <1>t, <2>1, <3>1, <3>2, <3>3, <3>6
  <2>5. CASE /\ turn' = [turn EXCEPT !.audio = @ \cup {k}]
             /\ hears' = "turn" /\ asked' = turn'.audio /\ UNCHANGED <<post, log, chain>>
    <3>1. Heading
      BY <1>i, <2>1, <2>2, <2>5 DEF Heading, Heads
    <3>2. turn'.frozen \cup turn'.audio = T \cup {k}
      BY <1>0, <2>5 DEF Turns
    <3>3. /\ (T \cup {k}) \cup Gone \subseteq T \cup Gone \cup {k}
          /\ (T \cup {k}) \cap Gone = {} /\ hears' \notin {"nothing", "seg"}
      BY <1>d, <2>2, <2>5
    <3>4. Placed(sp, take.chunk, T \cup {k}, Gone, chain, hears')
      BY <1>0, <1>p, <2>1, <2>2, <3>3, HeadGoes DEF k
    <3>5. Placed(sp, take'.chunk, turn'.frozen \cup turn'.audio, Gone, chain', hears')
      BY <2>1, <2>5, <3>2, <3>4
    <3> QED BY <1>e, <1>s, <1>t, <2>1, <2>5, <3>1, <3>5
  <2> QED BY <2>1, <2>3, <2>4, <2>5
<1>20. CASE SegmentFails
  BY <1>y, <1>20 DEF SegmentFails, k
<1>21. CASE Posts
  <2>1. /\ chain # <<>> /\ HeadDone(chain) /\ post' = {} /\ UNCHANGED <<take, turn, log>>
    BY <1>21, <1>c DEF Posts, PostAnswered, PostFails
  <2>2. Placed(sp, take.chunk, T, Gone, chain', hears') /\ Heading
    BY <1>h, <1>p, <2>1
  <2>3. Placed(sp, take'.chunk, turn'.frozen \cup turn'.audio, Gone, chain', hears')
    BY <1>0, <2>1, <2>2
  <2> QED BY <1>e, <1>s, <1>t, <2>1, <2>2, <2>3
<1> QED BY <1>1, <1>2, <1>3, <1>5, <1>6, <1>7, <1>8, <1>10, <1>11, <1>12, <1>13, <1>14, <1>15,
           <1>16, <1>18, <1>19, <1>20, <1>21 DEF Next, Waking, Segments

-----------------------------------------------------------------------------
(* Theorems.                                                               *)

\* A call that ended stays ended, sends nothing and opens no microphone.
LEMMA EndedNext ==
  Shape /\ VoiceInv /\ [Next]_vars /\ st = "ended" =>
    st' = "ended" /\ ear'.stream = "none" /\ log'.sent = log.sent /\ player'.air = {}
<1> SUFFICES ASSUME Shape, VoiceInv, [Next]_vars, st = "ended"
             PROVE  st' = "ended" /\ ear'.stream = "none" /\ log'.sent = log.sent
                    /\ player'.air = {}
  OBVIOUS
<1>0. /\ ear \in Ears /\ log \in Logs /\ ear.stream = "none" /\ ~Live /\ player \in Players
      /\ player.air = {} /\ player.queue = 0 /\ player.pump # "on" /\ awaiting \in BOOLEAN
  BY DEF Shape, VoiceInv, Fine, Live
<1> DEFINE Dead == st' = "ended" /\ ear'.stream = "none" /\ log'.sent = log.sent
                   /\ player'.air = {}
<1>1. CASE UNCHANGED vars
  BY <1>0, <1>1 DEF vars
<1>2. CASE NoMic \/ Waking
  BY <1>0, <1>2 DEF NoMic, Waking, AttachMic, Resume, ClockRuns, Resumed, MicAttached, Ears, voice
<1>3. CASE Segments
  <2>1. ~Heard
    BY <1>0 DEF Heard
  <2>2. log'.sent = log.sent /\ UNCHANGED <<st, player, ear>>
    BY <1>0, <1>3, <2>1 DEF Segments, HearTurn, TurnUnheard, TurnCancelled, KeywordHeard,
       SendNowHeard, TurnGrows, SegmentHeard, SegmentFails, Quietly, voice, Bin, Logs
  <2> QED BY <1>0, <2>2
<1>4. CASE Posts
  BY <1>0, <1>4 DEF Posts, PostAnswered, PostFails, Quietly
<1>5. CASE ProbeAnswered
  BY <1>0, <1>5 DEF ProbeAnswered
<1>6. CASE Synthesised
  <2> DEFINE p == [player EXCEPT !.pump = "off"]
  <2>1. p.queue = 0 /\ p.air = {} /\ Idles(Pumped(p, st))
    BY <1>0, <1>6 DEF Synthesised, Players
  <2>2. Pumped(p, st) = p
    <3> HIDE DEF p
    <3> QED BY <2>1 DEF Pumped
  <2> HIDE DEF p
  <2> QED BY <1>0, <1>6, <2>1, <2>2 DEF Synthesised, Idles, Plays
<1>7. CASE Ended
  BY <1>0, <1>7 DEF Ended
<1>8. CASE SayStatus
  BY <1>0, <1>8 DEF SayStatus, StatusWanted
<1> QED BY <1>0, <1>1, <1>2, <1>3, <1>4, <1>5, <1>6, <1>7, <1>8 DEF Next, Opened, DeviceChanged,
           Pause, Mute, Unmute, EndCall, SpeechStarts, SpeechEnds, Framed, ProbeBarge, SendTurn,
           ClearBuffer, Reply, Sounds, TickFiller, TickStatus, StatusWanted, Live

CallInv == Shape /\ VoiceInv /\ PlacesInv

LEMMA CallInit == Init => CallInv
<1> SUFFICES ASSUME Init PROVE CallInv
  OBVIOUS
<1>1. Shape
  <2>1. st \in States /\ awaiting \in BOOLEAN
        /\ hears \in {"nothing", "turn", "seg", "stale", "post"}
        /\ asked \subseteq Nat /\ post \subseteq Nat
    BY DEF Init, States
  <2>6. chain \in Seq(JobSet)
    BY EmptySeq DEF Init
  <2>2. player \in Players
    BY DEF Init, Players, Silent
  <2>3. ear \in Ears
    BY DEF Init, Ears
  <2>4. take \in Takes /\ turn \in Turns
    BY DEF Init, Takes, NoTake, Turns, NoTurn
  <2>5. log \in Logs
    BY DEF Init, Logs
  <2> QED BY <2>1, <2>2, <2>3, <2>4, <2>5, <2>6 DEF Shape
<1>2. VoiceInv
  BY DEF Init, VoiceInv, Fine, Silent
<1>3. PlacesInv
  BY DEF Init, PlacesInv, Placed, Heads, Waiting, Gone, Text, NoTake, NoTurn
<1> QED BY <1>1, <1>2, <1>3 DEF CallInv

LEMMA CallNext == CallInv /\ [Next]_vars => CallInv'
<1> SUFFICES ASSUME CallInv, [Next]_vars PROVE CallInv'
  OBVIOUS
<1>1. Shape' /\ PlacesInv'
  BY ShapeNext, PlacesNext DEF CallInv
<1>2. VoiceInv'
  <2>1. Sound(st', player') /\ (st' = "ended" => st = "ended" \/ EndCall)
    BY VoiceNext DEF CallInv
  <2>2. st = "ended" => ear'.stream = "none"
    BY EndedNext DEF CallInv
  <2>3. EndCall => ear'.stream = "none"
    BY DEF EndCall, CallInv, Shape, Ears
  <2> QED BY <2>1, <2>2, <2>3 DEF VoiceInv, Sound
<1> QED BY <1>1, <1>2 DEF CallInv

LEMMA CallInvariant == Spec => []CallInv
BY CallInit, CallNext, PTL DEF Spec

\* What the captain says is sent once, what he threw away never, and while he talks nothing
\* sounds (call.js: turnHeard and its generation, resetTurn, onVad, go, confirmBarge).
THEOREM HisTurnIsKept == Spec => []HisTurnKept
<1>1. CallInv => HisTurnKept
  BY DEF CallInv, PlacesInv, VoiceInv, Fine, HisTurnKept, SentOnce, BinnedNeverSent,
     QuietWhileHeTalks
<1> QED BY <1>1, CallInvariant, PTL

\* After hanging up nothing is sent, nothing plays and no microphone is held, whatever was
\* awaited when it ended (call.js: `call !== c` after each await).
THEOREM HangingUpEndsIt == Spec => HangUpEndsIt
<1>1. CallInv /\ [Next]_vars =>
        [st = "ended" => log'.sent = log.sent /\ player'.air = {} /\ ear'.stream = "none"]_vars
  BY EndedNext DEF CallInv
<1> QED BY <1>1, CallInvariant, PTL DEF Spec, HangUpEndsIt
=============================================================================

------------------------------- MODULE Gauges -------------------------------
(***************************************************************************)
(* What is measured only while somebody looks: the load of the machine     *)
(* (src/server/sysload.js createSampler, its stream in                     *)
(* src/server/server.js, the panel src/ui/js/monitor.js) and the usage     *)
(* screen (src/ui/js/usage.js), which asks one question at a time and asks *)
(* again while an index is running.                                        *)
(*                                                                         *)
(* A sample is known by the watch its deltas start from: the n-th time     *)
(* somebody began to look.                                                 *)
(***************************************************************************)
EXTENDS Naturals, FiniteSets

CONSTANTS
  Viewers,     \* browsers
  MaxConn,     \* bound: streams a browser ever opens
  MaxWatch,    \* bound: times the watching begins
  Questions,   \* what the usage screen may ask
  MaxAsk,      \* bound: questions asked by hand
  Trouble, MaxTrouble   \* what may happen besides (see TroubleKinds), how many of them

TroubleKinds == {"drop",  \* a stream breaks
  "fail",                 \* a sample fails
  "refuse",               \* a question is answered by an error
  "hide"}                 \* the usage screen is out of sight for a while (a phone's other tab)

GaugesAssumption ==
  /\ {MaxConn, MaxWatch, MaxAsk, MaxTrouble} \subseteq Nat /\ Trouble \subseteq TroubleKinds

Never == 0
NoSample == [base |-> Never, watch |-> Never]

VARIABLES
  subs,       \* the sampler's subscribers: streams, as <<browser, number>>
  running, timers,  \* a sample in flight, timeouts pending
  handle,     \* whether `timer` is the pending one's
  last, prev, \* latest sample; the watch its counters were read in
  base,       \* of the sample in flight: the prev it started from
  watch,      \* history: how often somebody began to look
  panel, hidden,    \* each browser's panel and tab
  es, conns, live,  \* its stream's number, how many it opened, "sampling every ~2s"
  got,        \* history: each browser's last sample
  Q, data,    \* the question; the answer on the screen
  loads, pollT,     \* requests in flight, by question; the timer of the next one
  shown,      \* whether the usage screen is in sight
  asked,      \* questions asked by hand
  index,      \* an index run is in flight
  part,       \* bound: which of the two is looked at, they share nothing
  troubles    \* history: which befell, each once
sampler == <<subs, running, timers, handle, last, prev, base, watch>>
panels  == <<panel, hidden, es, conns, live, got>>
screen  == <<Q, data, loads, pollT, shown, asked, index>>
vars    == <<sampler, panels, screen, part, troubles>>

Streams == Viewers \X (1..MaxConn)
Entry == CHOOSE q \in Questions : TRUE
NoAnswer == [q |-> "none", running |-> FALSE]

TypeOK ==
  /\ subs \subseteq Streams /\ running \in BOOLEAN /\ timers \in 0..2 /\ handle \in BOOLEAN
  /\ prev \in 0..MaxWatch /\ base \in 0..MaxWatch /\ watch \in 0..MaxWatch
  /\ es \in [Viewers -> 0..MaxConn] /\ conns \in [Viewers -> 0..MaxConn]
  /\ live \in [Viewers -> BOOLEAN] /\ panel \in [Viewers -> BOOLEAN]
  /\ Q \in Questions /\ data.q \in Questions \cup {"none"}
  /\ troubles \subseteq Trouble

Init ==
  /\ subs = {} /\ running = FALSE /\ timers = 0 /\ handle = FALSE
  /\ last = NoSample /\ prev = Never /\ base = Never /\ watch = 0
  /\ panel = [v \in Viewers |-> FALSE] /\ hidden = [v \in Viewers |-> FALSE]
  /\ es = [v \in Viewers |-> 0] /\ conns = [v \in Viewers |-> 0]
  /\ live = [v \in Viewers |-> FALSE] /\ got = [v \in Viewers |-> NoSample]
  /\ Q = Entry /\ data = NoAnswer /\ loads = [q \in Questions |-> 0]
  /\ pollT = FALSE /\ shown = TRUE /\ asked = 0 /\ index = FALSE
  /\ part \in {"load", "usage"} /\ troubles = {}

Befalls(kind) == /\ kind \in Trouble \ troubles /\ Cardinality(troubles) < MaxTrouble
                 /\ troubles' = troubles \cup {kind}

-----------------------------------------------------------------------------
(* The sampler                                                             *)

\* sampleOnce, as far as its first await.
Samples == running' = TRUE /\ base' = prev
Tick == IF running \/ subs' = {} THEN UNCHANGED <<running, base>> ELSE Samples

Heard(to, sample) ==
  /\ live' = [v \in Viewers |-> live[v] \/ <<v, es[v]>> \in to]
  /\ got' = [v \in Viewers |-> IF <<v, es[v]>> \in to THEN sample ELSE got[v]]

SampledAnyway == handle' = TRUE /\ timers' = timers + 1     \* (a mutant's)
LastBeat == UNCHANGED <<timers, handle>>                    \* (a mutant's)
NextBeat == IF subs = {} THEN UNCHANGED <<timers, handle>> ELSE handle' = TRUE /\ timers' = timers + 1
\* A sample is ready: kept for the next one's deltas, told to whoever is there.
Sampled ==
  /\ running /\ running' = FALSE
  /\ prev' = watch
  /\ LET sample == [base |-> base, watch |-> watch]
     IN IF subs = {} THEN UNCHANGED <<last, live, got>> ELSE last' = sample /\ Heard(subs, sample)
  /\ NextBeat
  /\ UNCHANGED <<subs, base, watch, panel, hidden, es, conns, screen, part, troubles>>
SampleFails ==
  /\ running /\ running' = FALSE /\ Befalls("fail")
  /\ NextBeat
  /\ UNCHANGED <<subs, last, prev, base, watch, panels, screen, part>>
Beat ==
  /\ timers > 0 /\ timers' = timers - 1 /\ subs' = subs
  /\ Tick
  /\ UNCHANGED <<handle, last, prev, watch, panels, screen, part, troubles>>

\* A stream arrives: the first viewer's starts the loop, another gets the latest sample.
Subscribe(v) ==
  /\ es[v] # 0 /\ <<v, es[v]>> \notin subs /\ (subs # {} \/ watch < MaxWatch)
  /\ subs' = subs \cup {<<v, es[v]>>}
  /\ IF subs = {}
     THEN watch' = watch + 1 /\ Tick /\ UNCHANGED <<live, got>>
     ELSE /\ UNCHANGED <<watch, running, base>>
          /\ IF last = NoSample THEN UNCHANGED <<live, got>> ELSE Heard({<<v, es[v]>>}, last)
  /\ UNCHANGED <<timers, handle, last, prev, panel, hidden, es, conns, screen, part, troubles>>
\* Nobody looks any more: no next beat, no deltas.
Dropped == /\ timers' = (IF handle /\ timers > 0 THEN timers - 1 ELSE timers) /\ handle' = FALSE
           /\ prev' = Never /\ last' = NoSample
Unsubscribe(s) ==
  /\ s \in subs /\ es[s[1]] # s[2]
  /\ subs' = subs \ {s}
  /\ IF subs' = {} THEN Dropped ELSE UNCHANGED <<timers, handle, prev, last>>
  /\ UNCHANGED <<running, base, watch, panels, screen, part, troubles>>

-----------------------------------------------------------------------------
(* The panel                                                               *)

Connect(v) == /\ conns[v] < MaxConn /\ conns' = [conns EXCEPT ![v] = @ + 1]
              /\ es' = [es EXCEPT ![v] = conns[v] + 1]
              /\ live' = [live EXCEPT ![v] = FALSE]
Stop(v) == /\ es' = [es EXCEPT ![v] = 0] /\ live' = [live EXCEPT ![v] = FALSE]
           /\ UNCHANGED conns
Opens(v) ==
  /\ part = "load" /\ ~panel[v] /\ ~hidden[v] /\ panel' = [panel EXCEPT ![v] = TRUE]
  /\ Connect(v)
  /\ UNCHANGED <<sampler, hidden, got, screen, part, troubles>>
Closes(v) ==
  /\ panel[v] /\ panel' = [panel EXCEPT ![v] = FALSE]
  /\ Stop(v)
  /\ UNCHANGED <<sampler, hidden, got, screen, part, troubles>>
StaysConnected(v) == UNCHANGED <<es, conns, live>>            \* (a mutant's)
GoesDark(v) == Stop(v)
Turns(v) ==
  /\ part = "load" /\ hidden' = [hidden EXCEPT ![v] = ~@]
  /\ IF ~panel[v] THEN UNCHANGED <<es, conns, live>>
     ELSE IF hidden[v] THEN Connect(v) ELSE GoesDark(v)
  /\ UNCHANGED <<sampler, panel, got, screen, part, troubles>>
\* The browser opens another stream by itself.
Breaks(v) ==
  /\ es[v] # 0 /\ Befalls("drop") /\ Connect(v)
  /\ UNCHANGED <<sampler, panel, hidden, got, screen, part>>

-----------------------------------------------------------------------------
(* The usage screen                                                        *)

Loading == \E q \in Questions : loads[q] > 0
Load(q) == loads' = [loads EXCEPT ![q] = @ + 1]
\* Entering, a control, a bar, the button: which asks for an index besides.
Asks(q) ==
  /\ part = "usage" /\ asked < MaxAsk /\ asked' = asked + 1 /\ shown
  /\ Q' = q /\ Load(q)
  /\ index' \in {index, TRUE}
  /\ UNCHANGED <<part, sampler, panels, data, pollT, shown, troubles>>
NoPoll == pollT' = FALSE                                      \* (a mutant's)
PollIfRunning == pollT' = (data'.running /\ shown)
Answered(q) ==
  /\ loads[q] > 0 /\ loads' = [loads EXCEPT ![q] = @ - 1]
  /\ \/ data' = [q |-> q, running |-> index] /\ UNCHANGED troubles
     \/ UNCHANGED data /\ Befalls("refuse")
  /\ PollIfRunning
  /\ UNCHANGED <<part, sampler, panels, Q, shown, asked, index>>
Poll ==
  /\ pollT /\ pollT' = FALSE /\ Load(Q)
  /\ UNCHANGED <<part, sampler, panels, Q, data, shown, asked, index, troubles>>
IndexEnds ==
  /\ index /\ index' = FALSE
  /\ UNCHANGED <<part, sampler, panels, Q, data, loads, pollT, shown, asked, troubles>>
Hides == /\ part = "usage" /\ shown /\ shown' = FALSE /\ Befalls("hide")
         /\ UNCHANGED <<part, sampler, panels, Q, data, loads, pollT, asked, index>>
Shows == /\ ~shown /\ shown' = TRUE
         /\ UNCHANGED <<part, sampler, panels, Q, data, loads, pollT, asked, index, troubles>>

Next ==
  \/ Sampled \/ SampleFails \/ Beat \/ Poll \/ IndexEnds \/ Hides \/ Shows
  \/ \E v \in Viewers : Subscribe(v) \/ Opens(v) \/ Closes(v) \/ Turns(v) \/ Breaks(v)
  \/ \E s \in Streams : Unsubscribe(s)
  \/ \E q \in Questions : Asks(q) \/ Answered(q)

\* Samples and answers arrive, timers go off, a stream reaches the server, and so does its
\* end; an index run ends, and a screen put away is looked at again.
Fairness ==
  /\ WF_vars(Sampled) /\ WF_vars(Beat) /\ WF_vars(Poll) /\ WF_vars(IndexEnds) /\ WF_vars(Shows)
  /\ \A v \in Viewers : WF_vars(Subscribe(v))
  /\ \A s \in Streams : WF_vars(Unsubscribe(s))
  /\ \A q \in Questions : WF_vars(Answered(q))
Spec == Init /\ [][Next]_vars /\ Fairness

-----------------------------------------------------------------------------
\* With nobody looking nothing runs but the sample that was under way, and a loop is one
\* loop (sysload.js "zero cost when closed").
IdleUnwatched == /\ subs = {} => timers = 0
                 /\ timers + (IF running THEN 1 ELSE 0) <= 1

\* An open panel in a tab that stays in front comes to life, whoever else comes and goes
\* (sysload.js subscribe, monitor.js).
ComesAlive == \A v \in Viewers : es[v] # 0 ~> (live[v] \/ es[v] = 0 \/ watch = MaxWatch)

\* A watch that ends leaves nothing behind for ever (monitor.js visibilitychange).
FinallyIdle == <>[](\A v \in Viewers : ~panel[v] \/ hidden[v]) => <>[](subs = {} /\ timers = 0)

\* The screen does not say "indexing..." for ever, unless it was out of sight when an answer
\* came: then nothing asks again (usage.js load).
IndexingEnds == []<>(~data.running \/ "hide" \in troubles)

\* A sample's deltas start in the watch it is told in (sysload.js "always re-baselines"): no.
FreshBaseline == \A v \in Viewers : got[v].base \in {Never, got[v].watch}
\* With no request under way the answer is that of the question asked (usage.js): no.
ShownIsAsked == ~Loading /\ data.q # "none" => data.q = Q
=============================================================================

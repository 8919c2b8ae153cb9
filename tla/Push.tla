-------------------------------- MODULE Push --------------------------------
(***************************************************************************)
(* The captain's phone.  Every event reaches it through the scan that a    *)
(* save schedules (src/server/server.js pushScan), a chat message through  *)
(* the one door it goes in by (appendMessage); the store of devices and    *)
(* what each one takes is src/server/webpush.js; the switch, the column of *)
(* categories and their mirror are src/ui/js/push.js, the rotation of an   *)
(* endpoint src/ui/sw.js.                                                  *)
(*                                                                         *)
(* One device: whatever endpoint it does not hold is dead, and the push    *)
(* service says so.  An event is known by its number.                      *)
(***************************************************************************)
EXTENDS Naturals, FiniteSets

CONSTANTS
  MaxSeq,      \* bound: events
  MaxEnd,      \* bound: endpoints the browser is ever given
  MaxReq,      \* bound: requests in flight at once
  Trouble,     \* what may happen besides: see TroubleKinds
  MaxTrouble   \* bound: of them all together

TroubleKinds == {"restart",  \* of the server
  "archive",                 \* a card leaves the board with an event not scanned yet
  "lose",                    \* a request that never arrives
  "mute",                    \* an answer that never arrives
  "wipe",                    \* the store's directory deleted
  "rotate",                  \* the push service replaces the endpoint
  "overlap"}                 \* he goes on before a request is answered

PushAssumption ==
  /\ {MaxSeq, MaxEnd, MaxReq, MaxTrouble} \subseteq Nat
  /\ Trouble \subseteq TroubleKinds

Category == {"chat", "other"}
Choices == SUBSET Category       \* the categories a device takes
Defaults == {"chat"}
Unknown == {"unknown"}

VARIABLES
  events,   \* events on the board, not yet scanned or already: number -> category
  seq,      \* board.seq
  pushSeq, queued, shadows,   \* pushSeq, pushScanQueued, pushShadowSeqs
  store,    \* subscriptions.json: a set of [ep, cats]
  ep,       \* the browser's own subscription, 0 when it has none
  used,     \* endpoints given so far
  page,     \* push.js: on, busy, endpoint, cats
  mirror,   \* what localStorage remembers of the categories
  reqs,     \* requests to the board, on their way or answered
  pushes,   \* pushes handed to the push service: [ep, seq]
  heard,    \* history: how often the device showed each event
  due,      \* history: events it must still be sent
  chosen,   \* history: the categories he last chose
  troubles  \* history: which happened, each once, and at most MaxTrouble of them
vars == <<events, seq, pushSeq, queued, shadows, store, ep, used, page, mirror, reqs,
          pushes, heard, due, chosen, troubles>>
scanning == <<events, seq, pushSeq, queued, shadows>>
device   == <<ep, used, page, mirror>>
sending  == <<pushes, heard, due>>

NoPage == [on |-> FALSE, busy |-> FALSE, endpoint |-> 0, cats |-> Unknown]
Record == [ep : 1..MaxEnd, cats : Choices]
Kind == {"subscribe", "unsubscribe", "prefs"}

TypeOK ==
  /\ seq \in 0..MaxSeq /\ pushSeq \in 0..MaxSeq /\ queued \in BOOLEAN
  /\ DOMAIN events \subseteq 1..MaxSeq /\ shadows \subseteq 1..MaxSeq
  /\ store \subseteq Record
  /\ ep \in 0..MaxEnd /\ used \in 0..MaxEnd
  /\ page \in [on : BOOLEAN, busy : BOOLEAN, endpoint : 0..MaxEnd, cats : Choices \cup {Unknown}]
  /\ mirror \in Choices \cup {Unknown}
  /\ \A r \in reqs : r.kind \in Kind /\ r.st \in {"sent", "ok", "failed"}
  /\ pushes \subseteq [ep : 1..MaxEnd, seq : 1..MaxSeq]
  /\ heard \in [1..MaxSeq -> Nat] /\ due \subseteq [seq : 1..MaxSeq, cat : Category]
  /\ chosen \in Choices
  /\ troubles \subseteq Trouble

Init ==
  /\ events = << >> /\ seq = 0 /\ pushSeq = 0 /\ queued = FALSE /\ shadows = {}
  /\ store = {} /\ ep = 0 /\ used = 0
  /\ page = NoPage
  /\ mirror = Unknown /\ reqs = {}
  /\ pushes = {} /\ heard = [n \in 1..MaxSeq |-> 0] /\ due = {}
  /\ chosen = Defaults /\ troubles = {}

Befalls(kind) == /\ kind \in Trouble \ troubles /\ Cardinality(troubles) < MaxTrouble
                 /\ troubles' = troubles \cup {kind}

-----------------------------------------------------------------------------
(* Out: from the board to the devices                                      *)

Takers(c) == {s \in store : c \in s.cats}
\* What this device is to be told of, now that it happened.
OwedTo(c) == \E s \in Takers(c) : s.ep = ep
ToEach(n, c) == {[ep |-> s.ep, seq |-> n] : s \in Takers(c)}
ToDevices(n, c) == pushes' = pushes \cup ToEach(n, c)

Scheduled == queued' = TRUE   \* saveBoard's last line

Lands(c) == /\ seq < MaxSeq /\ seq' = seq + 1
            /\ events' = [n \in DOMAIN events \cup {seq + 1} |->
                            IF n = seq + 1 THEN c ELSE events[n]]
            /\ Scheduled

Event(c) ==
  /\ Lands(c)
  /\ due' = IF OwedTo(c) THEN due \cup {[seq |-> seq + 1, cat |-> c]} ELSE due
  /\ UNCHANGED <<pushSeq, shadows, store, device, reqs, pushes, heard, chosen, troubles>>

\* A lieutenant's post in its main chat: pushed as a message there and then, and an
\* event besides, which the scan is to leave alone.
Message ==
  /\ Lands("other")
  /\ ToDevices(seq + 1, "chat")
  /\ shadows' = shadows \cup {seq + 1}
  /\ UNCHANGED <<pushSeq, store, device, reqs, heard, due, chosen, troubles>>

FreshOffByOne == {n \in DOMAIN events : n > pushSeq + 1}   \* (a mutant's)
Fresh == {n \in DOMAIN events : n > pushSeq}
UntoldTwice == Fresh                                       \* (a mutant's)
Untold == Fresh \ shadows
Scan ==
  /\ queued /\ queued' = FALSE
  /\ pushSeq' = seq
  /\ IF store = {}
       THEN shadows' = {} /\ UNCHANGED <<pushes, due>>
       ELSE /\ shadows' = shadows \ Fresh
            /\ pushes' = pushes \cup UNION {ToEach(n, events[n]) : n \in Untold}
            /\ due' = {d \in due : d.seq \notin Fresh}
  /\ UNCHANGED <<events, seq, store, device, reqs, heard, chosen, troubles>>

Archive(n) ==
  /\ Befalls("archive") /\ n \in DOMAIN events /\ n > pushSeq
  /\ events' = [m \in DOMAIN events \ {n} |-> events[m]]
  /\ Scheduled
  /\ UNCHANGED <<seq, pushSeq, shadows, store, device, reqs, sending, chosen>>

\* The push service delivers, or answers that the endpoint is dead.
Delivered(p) ==
  /\ p \in pushes /\ p.ep = ep
  /\ pushes' = pushes \ {p}
  /\ heard' = [heard EXCEPT ![p.seq] = @ + 1]
  /\ UNCHANGED <<scanning, store, device, reqs, due, chosen, troubles>>

Gone(p) ==
  /\ p \in pushes /\ p.ep # ep
  /\ pushes' = pushes \ {p}
  /\ store' = {s \in store : s.ep # p.ep}
  /\ UNCHANGED <<scanning, device, reqs, heard, due, chosen, troubles>>

\* A restart starts from the number the board booted with: what was saved and not yet
\* scanned is never looked at again, and nobody waits for the push service's answers.
Restart ==
  /\ Befalls("restart")
  /\ pushSeq' = seq /\ queued' = FALSE /\ shadows' = {} /\ due' = {}
  /\ pushes' = {p \in pushes : p.ep = ep}
  /\ reqs' = {IF r.st = "sent" THEN [r EXCEPT !.st = "failed"] ELSE r : r \in {q \in reqs : q.mine}}
  /\ UNCHANGED <<events, seq, store, device, heard, chosen>>

-----------------------------------------------------------------------------
(* The store                                                               *)

Of(e) == {s \in store : s.ep = e}
Listed(e) == Of(e) # {}
CatsOf(e) == (CHOOSE s \in Of(e) : TRUE).cats

CarriedNever(e, old, remembered) == IF Listed(e) THEN CatsOf(e) ELSE Defaults
\* What a device subscribing takes: its own record, else that of the endpoint it
\* replaces, else what it remembers, else the defaults.
Carried(e, old, remembered) ==
  CASE Listed(e) -> CatsOf(e)
    [] ~Listed(e) /\ Listed(old) -> CatsOf(old)
    [] ~Listed(e) /\ ~Listed(old) /\ remembered # Unknown -> remembered
    [] OTHER -> Defaults

Added(e, old, remembered) ==
  {s \in store : s.ep \notin {e, old}} \cup {[ep |-> e, cats |-> Carried(e, old, remembered)]}
Flipped(cats, c, on) == IF on THEN cats \cup {c} ELSE cats \ {c}
Patched(e, c, on) ==
  {IF s.ep = e THEN [s EXCEPT !.cats = Flipped(@, c, on)] ELSE s : s \in store}

\* Nobody waits for the answer to a request that is not the page's.
Answer(r, st, cats) ==
  reqs' = (reqs \ {r}) \cup (IF r.mine THEN {[r EXCEPT !.st = st, !.answer = cats]} ELSE {})

Serve(r) ==
  /\ r \in reqs /\ r.st = "sent"
  /\ CASE r.kind = "subscribe" ->
            /\ store' = Added(r.ep, r.old, r.cats)
            /\ Answer(r, "ok", Carried(r.ep, r.old, r.cats))
       [] r.kind = "unsubscribe" ->
            store' = store \ Of(r.ep) /\ Answer(r, "ok", Unknown)
       [] r.kind = "prefs" /\ Listed(r.ep) ->
            /\ store' = Patched(r.ep, r.cat, r.on)
            /\ Answer(r, "ok", Flipped(CatsOf(r.ep), r.cat, r.on))
       [] r.kind = "prefs" /\ ~Listed(r.ep) ->
            store' = store /\ Answer(r, "failed", Unknown)
  /\ due' = {d \in due : \E s \in store' : s.ep = ep /\ d.cat \in s.cats}
  /\ UNCHANGED <<scanning, device, pushes, heard, chosen, troubles>>

Wipe == /\ Befalls("wipe") /\ store # {} /\ store' = {} /\ due' = {}
        /\ UNCHANGED <<scanning, device, reqs, pushes, heard, chosen>>

-----------------------------------------------------------------------------
(* The device                                                              *)

\* A request of the page's own; `tap` is one the switch waits for.  The worker's, and
\* those of a page since reloaded, are answered to nobody.
Request(k, e) == [kind |-> k, st |-> "sent", ep |-> e, old |-> 0, cats |-> Unknown,
                  cat |-> "chat", on |-> TRUE, answer |-> Unknown, tap |-> TRUE, mine |-> TRUE]
Ask(r) == /\ Cardinality(reqs) < MaxReq /\ r \notin reqs
          /\ reqs' = reqs \cup {r}

\* Nothing makes him wait: a box may be flipped, the switch tapped (a tap waits only for
\* the last one) or the page reloaded before a request is answered.
Patiently == IF reqs # {} THEN Befalls("overlap") ELSE UNCHANGED troubles
Tap == ~page.busy /\ Patiently

GivenEndpoint == IF ep # 0 THEN UNCHANGED <<ep, used>>
                 ELSE used < MaxEnd /\ used' = used + 1 /\ ep' = used + 1

TurnOn ==
  /\ ~page.on /\ Tap /\ GivenEndpoint
  /\ Ask([Request("subscribe", ep') EXCEPT !.cats = mirror])
  /\ page' = [page EXCEPT !.busy = TRUE]
  /\ UNCHANGED <<scanning, store, mirror, sending, chosen>>

TurnOff ==
  /\ page.on /\ ep # 0 /\ Tap
  /\ ep' = 0 /\ due' = {}
  /\ Ask(Request("unsubscribe", ep))
  /\ page' = [page EXCEPT !.busy = TRUE]
  /\ UNCHANGED <<scanning, store, used, mirror, pushes, heard, chosen>>

\* refresh(): the last thing a tap does, and the first a page does.
Refreshed(pg) == [pg EXCEPT !.on = (ep # 0), !.endpoint = IF ep # 0 THEN @ ELSE 0]
AfterTap(r, pg) == IF r.tap THEN Refreshed([pg EXCEPT !.busy = FALSE]) ELSE pg

\* The box flips now; a failure flips it back.
Toggle(c) ==
  /\ page.on /\ page.endpoint # 0 /\ page.cats # Unknown
  /\ Patiently
  /\ LET on == c \notin page.cats IN
     /\ Ask([Request("prefs", page.endpoint) EXCEPT !.cats = page.cats, !.cat = c, !.on = on,
                                                    !.tap = FALSE])
     /\ page' = [page EXCEPT !.cats = Flipped(@, c, on)]
     /\ chosen' = Flipped(chosen, c, on)
     /\ mirror' = page'.cats
  /\ UNCHANGED <<scanning, store, ep, used, sending>>

\* What the page holds after an answer, and after a failure.
Told(r) == CASE r.kind = "subscribe"   -> [page EXCEPT !.endpoint = r.ep, !.cats = r.answer]
             [] r.kind = "prefs"       -> [page EXCEPT !.cats = r.answer]
             [] r.kind = "unsubscribe" -> page
Answered(r) ==
  /\ r \in reqs /\ r.st = "ok" /\ reqs' = reqs \ {r}
  /\ page' = AfterTap(r, Told(r))
  /\ mirror' = IF r.kind = "unsubscribe" THEN mirror ELSE r.answer
  /\ UNCHANGED <<scanning, store, ep, used, sending, chosen, troubles>>

Failed(r) ==
  /\ r \in reqs /\ r.st = "failed" /\ reqs' = reqs \ {r}
  /\ IF r.kind = "prefs"
       THEN /\ page' = [page EXCEPT !.cats = r.cats] /\ mirror' = r.cats
            /\ chosen' = Flipped(chosen, r.cat, ~r.on)
       ELSE page' = AfterTap(r, page) /\ UNCHANGED <<mirror, chosen>>
  /\ UNCHANGED <<scanning, store, ep, used, sending, troubles>>

\* The page loads: the switch is read off the browser, and a live subscription is
\* asserted again, for the board may have pruned it or lost its store.
Load ==
  /\ Patiently
  /\ page' = Refreshed(NoPage)
  /\ LET left == {[r EXCEPT !.mine = FALSE] : r \in {q \in reqs : q.st = "sent"}}
         mine == [Request("subscribe", ep) EXCEPT !.cats = mirror, !.tap = FALSE]
     IN  /\ Cardinality(left) < MaxReq
         /\ reqs' = IF ep # 0 THEN left \cup {mine} ELSE left
  /\ UNCHANGED <<scanning, store, ep, used, mirror, sending, chosen>>

\* The worker hands over the new endpoint and the one it replaces.
Rotate ==
  /\ Befalls("rotate") /\ ep # 0 /\ used < MaxEnd
  /\ used' = used + 1 /\ ep' = used + 1 /\ due' = {}
  /\ Ask([Request("subscribe", used + 1) EXCEPT !.old = ep, !.tap = FALSE, !.mine = FALSE])
  /\ UNCHANGED <<scanning, store, page, mirror, pushes, heard, chosen>>

Lose(r) == /\ Befalls("lose") /\ r \in reqs /\ r.st = "sent"
           /\ Answer(r, "failed", Unknown)
           /\ UNCHANGED <<scanning, store, device, sending, chosen>>
Mute(r) == /\ Befalls("mute") /\ r \in reqs /\ r.st = "ok"
           /\ Answer(r, "failed", Unknown)
           /\ UNCHANGED <<scanning, store, device, sending, chosen>>

-----------------------------------------------------------------------------
Next ==
  \/ \E c \in Category : Event(c) \/ Toggle(c)
  \/ Message \/ Scan \/ Restart \/ Wipe \/ Rotate \/ Load \/ TurnOn \/ TurnOff
  \/ \E n \in DOMAIN events : Archive(n)
  \/ \E p \in pushes : Delivered(p) \/ Gone(p)
  \/ \E r \in reqs : Serve(r) \/ Answered(r) \/ Failed(r) \/ Lose(r) \/ Mute(r)
Spec == Init /\ [][Next]_vars

-----------------------------------------------------------------------------
(* Properties                                                              *)

\* Nothing is told twice, though a lieutenant's post is both a message, pushed as it is
\* said, and an event, met again by the scan; and no trouble makes it so.
HeardOnce ==
  \A n \in 1..MaxSeq : heard[n] + Cardinality({p \in pushes : p.seq = n /\ p.ep = ep}) <= 1

\* Once the scan has run, no event is still owed to a device that was listed for it when
\* it happened and has been since ("the save is the one place that sees them all").
NoneMissedAtAll == queued \/ due = {}
\* What holds: all but those of a card archived before the scan.
NoneMissed == "archive" \notin troubles => NoneMissedAtAll

\* Once no request is on its way, the device takes what he last chose, and the column
\* shows him that ("a device re-subscribing after a prune or an off/on hands them back
\* instead of starting from the defaults").
Quiet == reqs = {}
Column == page.on /\ page.cats # Unknown
ChoiceAlwaysKept ==
  Quiet /\ Listed(ep) => CatsOf(ep) = chosen /\ (Column => page.cats = chosen)
\* What holds: through restarts, lost requests, a wiped store, an off and an on; not
\* through a rotation, an answer lost, or two requests at a time.
ChoiceKept == troubles \cap {"rotate", "mute", "overlap"} = {} => ChoiceAlwaysKept

\* The column shows "only while this device is subscribed and knows its categories".
ColumnHonest == Quiet /\ Column => Listed(ep)
=============================================================================

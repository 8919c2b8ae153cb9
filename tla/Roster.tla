------------------------------- MODULE Roster -------------------------------
(***************************************************************************)
(* Who is on the crew and what is theirs: the lieutenants with their card  *)
(* prefixes and counters, the cards they mint, the archive cards come back *)
(* from, and the line, the voice channel that reaches one of them          *)
(* (server.js 335-397, 631-728, 862-940, 2095-2372, 5117-5224, 5772-5914). *)
(*                                                                         *)
(* A card id is a prefix and a number; `born` tells two cards with one id  *)
(* apart.  Sessions are only up or not: their cycles are in Sessions, the  *)
(* queues of a retired lieutenant in Queues, workers in Workers.           *)
(***************************************************************************)
EXTENDS Integers, Sequences, FiniteSets, Functions

CONSTANTS Ids, Prefixes, Nobody, MaxActs, MaxWaits

VARIABLES
  roster,        \* the registered lieutenants
  rec,           \* their records: prefix, cardSeq, whether a ref is on record, reg
  line,          \* board.line
  live, archive, \* the cards on the board, archive.jsonl
  retires,       \* retirements that wait for the kill, counted per lieutenant
  spawns,        \* spawns that wait for the session, [id, reg, prefix]
  births, regs,  \* history: cards and registrations so far
  minted,        \* history: the ids minted, with the registration that minted them
  voice,         \* history: who spoke to him last, or was handed the line
  acts,          \* requests so far, MaxActs at most
  excused        \* history: cards given to an owner who is gone, or on the way out
vars == <<roster, rec, line, live, archive, retires, spawns, births, regs, minted, voice, acts, excused>>
crew == <<roster, rec, line>>
deck == <<live, archive, births, minted, excused>>

RosterAssumption == Nobody \notin Ids /\ MaxActs \in Nat /\ MaxWaits \in Nat

(* board.lieutenants[0]: the array is only appended to and filtered *)
Founder == CHOOSE l \in roster : \A m \in roster : rec[l].reg <= rec[m].reg
Blank == [prefix |-> Nobody, cardSeq |-> 0, ref |-> FALSE, reg |-> 0]
FindCard(id) == {c \in live : c.id = id}
Owned(l) == {c \in live : c.owner = l}
PrefixOwner(p, l) == {m \in roster \ {l} : rec[m].prefix = p}
Untaken == {p \in Prefixes : PrefixOwner(p, Nobody) = {}}
(* how many handlers wait for a session *)
Waits == Cardinality(spawns) + FoldFunction(LAMBDA n, sum : n + sum, 0, retires)
(* whether an owner given now may be gone by the time it matters *)
Leaving(l) == l \notin roster \/ retires[l] > 0

(* ------------------------------ lieutenants ------------------------------ *)
(* A prefix that is asked for is refused when taken, a default one is nudged aside. *)
Register(l, p, ref) ==
  /\ l \notin roster /\ p \in Untaken
  /\ roster' = roster \cup {l} /\ regs' = regs + 1
  /\ rec' = [rec EXCEPT ![l] = [prefix |-> p, cardSeq |-> 0, ref |-> ref, reg |-> regs + 1]]
CreateLieutenant(l, p) ==
  /\ \E ref \in BOOLEAN : Register(l, p, ref)
  /\ UNCHANGED <<line, deck, retires, spawns, voice>>

(* A new one, or one on record whose session does not answer: revive. *)
SpawnLieutenant(l, p) ==
  /\ Waits < MaxWaits
  /\ spawns' = spawns \cup {[id |-> l, reg |-> IF l \in roster THEN rec[l].reg ELSE 0, prefix |-> p]}
  /\ UNCHANGED <<crew, deck, retires, regs, voice>>
(* The name is asked for again once the session is up; a record revived is the one found before. *)
Spawned(s) ==
  /\ spawns' = spawns \ {s}
  /\ \/ s.reg = 0 /\ Register(s.id, s.prefix, TRUE)
     \/ /\ s.reg = 0 /\ (s.id \in roster \/ s.prefix \notin Untaken)
        /\ UNCHANGED <<roster, rec, regs>>
     \/ /\ s.reg # 0
        /\ rec' = IF s.id \in roster /\ rec[s.id].reg = s.reg THEN [rec EXCEPT ![s.id].ref = TRUE] ELSE rec
        /\ UNCHANGED <<roster, regs>>
  /\ UNCHANGED <<line, deck, retires, voice>>
SpawnFails(s) == spawns' = spawns \ {s} /\ UNCHANGED <<crew, deck, retires, regs, voice>>

PatchPrefix(l, p) ==
  /\ l \in roster /\ PrefixOwner(p, l) = {}
  /\ rec' = [rec EXCEPT ![l].prefix = p]
  /\ UNCHANGED <<roster, line, deck, retires, spawns, regs, voice>>

(* ------------------------------ retirement ------------------------------ *)
MayRetire(l) == l \in roster /\ Owned(l) = {}
GhostLine(l) == UNCHANGED line                               \* (a mutant's)
OffTheLine(l) == line' = IF line = l THEN Nobody ELSE line
Gone(l) ==
  /\ roster' = roster \ {l} /\ OffTheLine(l)
  /\ rec' = [rec EXCEPT ![l] = Blank]
  /\ voice' = IF voice = l THEN Nobody ELSE voice
Retire(l) ==
  /\ MayRetire(l)
  /\ \/ rec[l].ref /\ Waits < MaxWaits /\ retires' = [retires EXCEPT ![l] = @ + 1] /\ UNCHANGED <<crew, voice>>
     \/ ~rec[l].ref /\ Gone(l) /\ UNCHANGED retires
  /\ UNCHANGED <<deck, spawns, regs>>
Killed(l) ==
  /\ retires[l] > 0 /\ retires' = [retires EXCEPT ![l] = @ - 1] /\ Gone(l)
  /\ UNCHANGED <<deck, spawns, regs>>

(* ------------------------------ cards ------------------------------ *)
Excuse(c) == excused' = IF Leaving(c.owner) THEN excused \cup {c.born} ELSE excused
Born(id, l) ==
  /\ births' = births + 1 /\ FindCard(id) = {}
  /\ live' = live \cup {[id |-> id, owner |-> l, born |-> births + 1]}
  /\ Excuse([owner |-> l, born |-> births + 1])
NextId(l) == <<rec[l].prefix, rec[l].cardSeq + 1>>
(* Its owner mints the id; the counter moves only when the card is born. *)
Mint(l) ==
  /\ l \in roster /\ Born(NextId(l), l)
  /\ rec' = [rec EXCEPT ![l].cardSeq = @ + 1]
  /\ minted' = minted \cup {[reg |-> rec[l].reg, id |-> NextId(l)]}
  /\ UNCHANGED <<roster, line, archive, retires, spawns, regs, voice>>
(* The API may name the card itself. *)
CreateNamed(l, id) ==
  /\ l \in roster /\ Born(id, l)
  /\ UNCHANGED <<crew, archive, minted, retires, spawns, regs, voice>>
PatchOwner(c, l) ==
  /\ l \in roster \ {c.owner}
  /\ live' = (live \ {c}) \cup {[c EXCEPT !.owner = l]}
  /\ Excuse([c EXCEPT !.owner = l])
  /\ UNCHANGED <<crew, archive, births, minted, retires, spawns, regs, voice>>
ArchiveCard(c) ==
  /\ live' = live \ {c} /\ archive' = Append(archive, c)
  /\ UNCHANGED <<crew, births, minted, excused, retires, spawns, regs, voice>>
(* The newest line of that id comes back, whoever owns it. *)
LinesOf(id) == {i \in 1..Len(archive) : archive[i].id = id}
Newest(id) == archive[CHOOSE i \in LinesOf(id) : \A j \in LinesOf(id) : j <= i]
RestoreCard(id) ==
  /\ FindCard(id) = {} /\ LinesOf(id) # {}
  /\ live' = live \cup {Newest(id)} /\ Excuse(Newest(id))
  /\ UNCHANGED <<crew, archive, births, minted, retires, spawns, regs, voice>>

(* ------------------------------ the line ------------------------------ *)
LineHolder == IF line \in roster THEN line ELSE IF roster = {} THEN Nobody ELSE Founder
(* A message in a main chat: from its own lieutenant, or from nobody known, the line follows
   it; from a peer it does not. *)
Say(l, caller) ==
  /\ l \in roster /\ caller \in roster \cup {Nobody}
  /\ LET own == caller \in {l, Nobody}
     IN  line' = (IF own THEN l ELSE line) /\ voice' = (IF own THEN l ELSE voice)
  /\ UNCHANGED <<roster, rec, deck, retires, spawns, regs>>
LinePass(l) ==
  /\ l \in roster /\ line' = l /\ voice' = l
  /\ UNCHANGED <<roster, rec, deck, retires, spawns, regs>>

(* Every handler saves before it answers; what still waits for a session is lost. *)
Restart ==
  /\ retires' = [l \in Ids |-> 0] /\ spawns' = {}
  /\ UNCHANGED <<crew, deck, regs, voice>>

Init ==
  /\ roster = {} /\ rec = [l \in Ids |-> Blank] /\ line = Nobody
  /\ live = {} /\ archive = <<>> /\ retires = [l \in Ids |-> 0] /\ spawns = {}
  /\ births = 0 /\ regs = 0 /\ acts = 0 /\ minted = {} /\ voice = Nobody /\ excused = {}
Request ==
  \/ \E l \in Ids, p \in Prefixes :
       CreateLieutenant(l, p) \/ SpawnLieutenant(l, p) \/ PatchPrefix(l, p) \/ CreateNamed(l, <<p, 1>>)
  \/ \E l \in Ids : Retire(l) \/ Mint(l) \/ LinePass(l) \/ \E m \in Ids \cup {Nobody} : Say(l, m)
  \/ \E c \in live : ArchiveCard(c) \/ \E l \in Ids : PatchOwner(c, l)
  \/ \E c \in Range(archive) : RestoreCard(c.id)
  \/ Restart
Answer ==
  \/ \E s \in spawns : Spawned(s) \/ SpawnFails(s)
  \/ \E l \in Ids : Killed(l)
Next ==
  \/ acts < MaxActs /\ acts' = acts + 1 /\ Request
  \/ Answer /\ UNCHANGED acts
Spec == Init /\ [][Next]_vars
----------------------------------------------------------------------------
CardId == (Prefixes \cup {Nobody}) \X Nat
Card == [id : CardId, owner : Ids, born : Nat]
TypeOK ==
  /\ roster \subseteq Ids /\ {line, voice} \subseteq Ids \cup {Nobody}
  /\ rec \in [Ids -> [prefix : Prefixes \cup {Nobody}, cardSeq : Nat, ref : BOOLEAN, reg : Nat]]
  /\ live \subseteq Card /\ archive \in Seq(Card) /\ minted \subseteq [reg : Nat, id : CardId]
  /\ retires \in [Ids -> Nat] /\ spawns \subseteq [id : Ids, reg : Nat, prefix : Prefixes]
  /\ {births, regs, acts} \subseteq Nat /\ excused \subseteq Nat

(* No two lieutenants mint under one prefix, whatever was asked for while their sessions    *)
(* came up (server.js 667 "two lieutenants sharing one would mint each other's ids").       *)
PrefixesApart == \A l, m \in roster : l # m => rec[l].prefix # rec[m].prefix
(* One id names one card on the board, through restores and ids the API chose.              *)
IdsApart == \A c, d \in live : c.id = d.id => c = d
(* A registration never mints an id again, though its prefix goes and comes back            *)
(* (server.js 2140 "never reissued, never rolled back").                                    *)
NeverReissued ==
  \A l \in roster : \A m \in minted : m.reg = rec[l].reg => m.id[2] <= rec[l].cardSeq
(* Every card has an owner on the crew, but one restored after its owner left, or given to  *)
(* him while his retirement waited for the kill (server.js 39, 912).                        *)
OwnersAreCrew == \A c \in live : c.owner \in roster \/ c.born \in excused
(* The line reaches who spoke to him last, or was handed it, unless he retired since; a     *)
(* successor of the same name does not inherit it (server.js 922 "rather than pointing at   *)
(* a ghost").                                                                               *)
LineFollowsVoice ==
  LineHolder = IF voice # Nobody THEN voice ELSE IF roster = {} THEN Nobody ELSE Founder
(* What is whose, all of it.                                                                *)
CrewApart == PrefixesApart /\ IdsApart /\ NeverReissued /\ OwnersAreCrew /\ LineFollowsVoice
=============================================================================

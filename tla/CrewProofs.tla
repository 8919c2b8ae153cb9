----------------------------- MODULE CrewProofs -----------------------------
(***************************************************************************)
(* Theorems about modules Roster, Sessions, Panes, Hooks, Push and Base,   *)
(* for every value of their constants: what is on the crew and on the      *)
(* board is one lieutenant's, through any requests, sessions that come up  *)
(* or go down late, archives, restores and restarts; a lieutenant has one  *)
(* agent at most, whoever revives, restarts or retires him at once; a text *)
(* sent to a pane is given to its agent once; a named hook has one child,  *)
(* and its news is told once; a device is pushed what it asked for, once;  *)
(* and a new worker stands on the commit its start took.                   *)
(***************************************************************************)
EXTENDS Roster, WellFoundedInduction, FiniteSetTheorems, TLAPS

(* Registrations are numbered apart, and nothing was minted by one to come. *)
RegsApart ==
  /\ \A l \in roster : rec[l].reg <= regs
  /\ \A l, m \in roster : l # m => rec[l].reg # rec[m].reg
  /\ \A m \in minted : m.reg <= regs
(* The cards of a lieutenant on the way out were given to him since he was asked for none. *)
LeaversExcused == \A c \in live : retires[c.owner] > 0 => c.born \in excused
LineIsVoice == line = voice /\ line \in roster \cup {Nobody}

CrewInv == PrefixesApart /\ NeverReissued /\ RegsApart
DeckInv == IdsApart /\ OwnersAreCrew /\ LeaversExcused
Inv == TypeOK /\ CrewInv /\ DeckInv /\ LineIsVoice

\* A nonempty set of bounded numbers has a largest member.
LEMMA LargestExists ==
  ASSUME NEW M \in Nat, NEW S \in SUBSET (0..M), S # {}
  PROVE  \E x \in S : \A y \in S : y <= x
<1> DEFINE T == {n \in 0..M : M - n \in S}
<1>1. T \subseteq Nat /\ T # {}
  <2>1. PICK s \in S : TRUE
    OBVIOUS
  <2>2. M - s \in 0..M /\ M - (M - s) = s
    BY <2>1
  <2> QED BY <2>1, <2>2
<1>2. PICK x \in T : \A y \in T : ~(<<y, x>> \in OpToRel(<, Nat))
  BY <1>1, NatLessThanWellFounded, WFMin
<1>3. \A y \in T : ~(y < x)
  BY <1>1, <1>2 DEF OpToRel
<1>4. \A y \in S : y <= M - x
  <2> SUFFICES ASSUME NEW y \in S, y > M - x PROVE FALSE
    OBVIOUS
  <2>1. M - y \in T /\ M - y < x
    OBVIOUS
  <2> QED BY <2>1, <1>3
<1> QED BY <1>4

\* The newest line of an id that is in the archive is a card of that id.
LEMMA NewestIsOne ==
  ASSUME TypeOK, NEW id, LinesOf(id) # {}
  PROVE  Newest(id) \in Card /\ Newest(id).id = id
<1>1. LinesOf(id) \in SUBSET (0..Len(archive)) /\ Len(archive) \in Nat
  BY DEF LinesOf, TypeOK
<1>2. \E i \in LinesOf(id) : \A j \in LinesOf(id) : j <= i
  BY <1>1, LargestExists
<1>3. \E i \in LinesOf(id) : Newest(id) = archive[i]
  BY <1>2 DEF Newest
<1> QED BY <1>3 DEF LinesOf, TypeOK

LEMMA InitInv == Init => Inv
BY DEF Init, Inv, TypeOK, CrewInv, DeckInv, LineIsVoice, PrefixesApart, NeverReissued, RegsApart,
       IdsApart, OwnersAreCrew, LeaversExcused, Blank

\* A registration takes a name and a prefix nobody has, and a number of its own.
LEMMA RegisterKeeps ==
  ASSUME RosterAssumption, Inv, NEW l \in Ids, NEW p \in Prefixes, NEW ref \in BOOLEAN, Register(l, p, ref),
         UNCHANGED <<line, deck, retires, voice>>
  PROVE  CrewInv' /\ DeckInv' /\ LineIsVoice'
<1>1. /\ roster' = roster \cup {l} /\ regs' = regs + 1 /\ regs \in Nat /\ l \notin roster
      /\ rec'[l] = [prefix |-> p, cardSeq |-> 0, ref |-> ref, reg |-> regs + 1]
      /\ \A m \in Ids \ {l} : rec'[m] = rec[m]
      /\ \A m \in roster : rec[m].prefix # p /\ m \in Ids \ {l}
  BY DEF Inv, TypeOK, Register, Untaken, PrefixOwner, RosterAssumption
<1>2. minted' = minted /\ live' = live /\ retires' = retires /\ excused' = excused
  BY DEF deck
<1>3. PrefixesApart'
  BY <1>1 DEF Inv, CrewInv, PrefixesApart
<1>4. RegsApart'
  <2>1. \A m \in roster : rec[m].reg <= regs /\ rec[m].reg \in Nat
    BY DEF Inv, TypeOK, CrewInv, RegsApart
  <2>2. \A m \in minted : m.reg <= regs /\ m.reg \in Nat
    BY DEF Inv, TypeOK, CrewInv, RegsApart
  <2>3. \A m \in roster' : rec'[m].reg <= regs'
    BY <1>1, <2>1
  <2>4. \A k, m \in roster' : k # m => rec'[k].reg # rec'[m].reg
    BY <1>1, <2>1 DEF Inv, CrewInv, RegsApart
  <2>5. \A m \in minted' : m.reg <= regs'
    BY <1>1, <1>2, <2>2
  <2> QED BY <2>3, <2>4, <2>5 DEF RegsApart
<1>5. NeverReissued'
  <2>1. \A m \in minted : m.reg # rec'[l].reg
    BY <1>1 DEF Inv, CrewInv, RegsApart, TypeOK
  <2>2. \A k \in roster' : k = l \/ (k \in roster /\ rec'[k] = rec[k])
    BY <1>1
  <2> QED BY <1>2, <2>1, <2>2 DEF Inv, CrewInv, NeverReissued
<1>6. DeckInv'
  BY <1>1, <1>2 DEF Inv, DeckInv, IdsApart, OwnersAreCrew, LeaversExcused
<1> QED BY <1>1, <1>3, <1>4, <1>5, <1>6 DEF CrewInv, Inv, LineIsVoice

\* A lieutenant who goes leaves no card that is not excused, and the line.
LEMMA GoneKeeps ==
  ASSUME Inv, NEW l \in Ids, Gone(l), UNCHANGED <<deck, regs>>,
         \A c \in live : c.owner = l => c.born \in excused,
         \A m \in Ids : retires'[m] > 0 => retires[m] > 0
  PROVE  CrewInv' /\ DeckInv' /\ LineIsVoice'
<1>1. /\ roster' = roster \ {l} /\ minted' = minted /\ live' = live /\ excused' = excused
      /\ \A m \in Ids \ {l} : rec'[m] = rec[m]
      /\ \A m \in roster' : m \in roster /\ rec'[m] = rec[m]
  BY DEF Inv, TypeOK, Gone, deck
<1>2. CrewInv'
  BY <1>1 DEF Inv, CrewInv, PrefixesApart, NeverReissued, RegsApart
<1>3. DeckInv'
  BY <1>1 DEF Inv, DeckInv, IdsApart, OwnersAreCrew, LeaversExcused, TypeOK, Card
<1>4. LineIsVoice'
  BY <1>1 DEF Inv, LineIsVoice, Gone, OffTheLine
<1> QED BY <1>2, <1>3, <1>4

\* A card is born under an id that is free, to an owner who stays or with an excuse.
LEMMA BornKeeps ==
  ASSUME Inv, NEW l \in Ids, NEW id \in CardId, Born(id, l), UNCHANGED <<roster, retires>>
  PROVE  DeckInv'
<1> DEFINE new == [id |-> id, owner |-> l, born |-> births + 1]
<1>1. live' = live \cup {new} /\ \A c \in live : c.id # id
  BY DEF Born, FindCard
<1>2. excused \subseteq excused' /\ (l \notin roster \/ retires[l] > 0 => new.born \in excused')
  BY DEF Born, Excuse, Leaving
<1>3. IdsApart'
  BY <1>1 DEF Inv, DeckInv, IdsApart
<1>4. OwnersAreCrew'
  BY <1>1, <1>2 DEF Inv, DeckInv, OwnersAreCrew
<1>5. LeaversExcused'
  BY <1>1, <1>2 DEF Inv, DeckInv, LeaversExcused
<1> QED BY <1>3, <1>4, <1>5 DEF DeckInv

\* A card that comes to the board, or to an owner, in place of the ones of its id.
LEMMA CardKeeps ==
  ASSUME Inv, NEW c \in Card, Excuse(c), UNCHANGED <<roster, retires>>,
         NEW old \in SUBSET live, live' = (live \ old) \cup {c},
         \A d \in live \ old : d.id # c.id
  PROVE  DeckInv'
<1>1. excused \subseteq excused' /\ (c.owner \notin roster \/ retires[c.owner] > 0 => c.born \in excused')
  BY DEF Excuse, Leaving
<1>2. IdsApart'
  BY DEF Inv, DeckInv, IdsApart
<1>3. OwnersAreCrew'
  BY <1>1 DEF Inv, DeckInv, OwnersAreCrew
<1>4. LeaversExcused'
  BY <1>1 DEF Inv, DeckInv, LeaversExcused
<1> QED BY <1>2, <1>3, <1>4 DEF DeckInv

\* What the helpers make has its shape.
LEMMA RegisterType ==
  ASSUME TypeOK, NEW l \in Ids, NEW p \in Prefixes, NEW ref \in BOOLEAN, Register(l, p, ref)
  PROVE  /\ rec' \in [Ids -> [prefix : Prefixes \cup {Nobody}, cardSeq : Nat, ref : BOOLEAN, reg : Nat]]
         /\ roster' \subseteq Ids /\ regs' \in Nat
BY DEF TypeOK, Register

LEMMA GoneType ==
  ASSUME TypeOK, NEW l \in Ids, Gone(l)
  PROVE  /\ rec' \in [Ids -> [prefix : Prefixes \cup {Nobody}, cardSeq : Nat, ref : BOOLEAN, reg : Nat]]
         /\ roster' \subseteq Ids /\ {line', voice'} \subseteq Ids \cup {Nobody}
<1>1. Blank \in [prefix : Prefixes \cup {Nobody}, cardSeq : Nat, ref : BOOLEAN, reg : Nat]
  BY DEF Blank
<1> QED BY <1>1 DEF TypeOK, Gone, OffTheLine

LEMMA ExcuseType ==
  ASSUME TypeOK, NEW c, c.born \in Nat, Excuse(c)
  PROVE  excused' \subseteq Nat
BY DEF TypeOK, Excuse

LEMMA BornType ==
  ASSUME TypeOK, NEW l \in Ids, NEW id \in CardId, Born(id, l)
  PROVE  live' \subseteq Card /\ births' \in Nat /\ excused' \subseteq Nat
<1>1. births \in Nat /\ births + 1 \in Nat
  BY DEF TypeOK
<1>2. [id |-> id, owner |-> l, born |-> births + 1] \in Card
  BY <1>1 DEF Card
<1>3. excused' \subseteq Nat
  BY <1>1, ExcuseType DEF Born
<1> QED BY <1>1, <1>2, <1>3 DEF Born, TypeOK

\* The state keeps its shape.
LEMMA TypeKept ==
  ASSUME RosterAssumption, Inv, [Next]_vars
  PROVE  TypeOK'
<1> USE DEF Inv, TypeOK
<1> DEFINE Rec == [prefix : Prefixes \cup {Nobody}, cardSeq : Nat, ref : BOOLEAN, reg : Nat]
<1>1. CASE UNCHANGED vars
  BY <1>1 DEF vars
<1>2. ASSUME Request, acts' = acts + 1 PROVE TypeOK'
  <2>0. acts' \in Nat
    BY <1>2
  <2>1. ASSUME NEW l \in Ids, NEW p \in Prefixes, CreateLieutenant(l, p) PROVE TypeOK'
    <3>1. PICK ref \in BOOLEAN : Register(l, p, ref)
      BY <2>1 DEF CreateLieutenant
    <3>2. rec' \in [Ids -> Rec] /\ roster' \subseteq Ids /\ regs' \in Nat
      BY <3>1, RegisterType
    <3>3. UNCHANGED <<line, live, archive, births, minted, excused, retires, spawns, voice>>
      BY <2>1 DEF CreateLieutenant, deck
    <3> QED BY <2>0, <3>2, <3>3
  <2>2. ASSUME NEW l \in Ids, NEW p \in Prefixes, SpawnLieutenant(l, p) PROVE TypeOK'
    <3>1. rec[l].reg \in Nat
      OBVIOUS
    <3>2. /\ spawns' \subseteq [id : Ids, reg : Nat, prefix : Prefixes]
          /\ UNCHANGED <<roster, rec, line, live, archive, births, minted, excused, retires, regs, voice>>
      BY <2>2, <3>1 DEF SpawnLieutenant, deck, crew
    <3> QED BY <2>0, <3>2
  <2>3. ASSUME NEW l \in Ids, NEW p \in Prefixes, PatchPrefix(l, p) PROVE TypeOK'
    <3>1. rec' \in [Ids -> Rec]
      BY <2>3 DEF PatchPrefix
    <3> QED BY <1>2, <2>3, <3>1 DEF PatchPrefix, deck
  <2>4. ASSUME NEW l \in Ids, NEW p \in Prefixes, CreateNamed(l, <<p, 1>>) PROVE TypeOK'
    <3>1. <<p, 1>> \in CardId
      BY DEF CardId
    <3>2. live' \subseteq Card /\ births' \in Nat /\ excused' \subseteq Nat
      BY <2>4, <3>1, BornType DEF CreateNamed
    <3>3. UNCHANGED <<roster, rec, line, archive, minted, retires, spawns, regs, voice>>
      BY <2>4 DEF CreateNamed, crew
    <3> QED BY <2>0, <3>2, <3>3
  <2>5. ASSUME NEW l \in Ids, Retire(l) PROVE TypeOK'
    <3>1. retires' \in [Ids -> Nat] /\ UNCHANGED <<deck, spawns, regs>>
      <4>1. retires' = [retires EXCEPT ![l] = @ + 1] \/ retires' = retires
        BY <2>5 DEF Retire
      <4>2. retires[l] + 1 \in Nat
        OBVIOUS
      <4>3. UNCHANGED <<deck, spawns, regs>>
        BY <2>5 DEF Retire
      <4> QED BY <4>1, <4>2, <4>3
    <3>2. UNCHANGED <<crew, voice>> \/ Gone(l)
      BY <2>5 DEF Retire
    <3>3. /\ rec' \in [Ids -> Rec] /\ roster' \subseteq Ids
          /\ {line', voice'} \subseteq Ids \cup {Nobody}
      BY <3>2, GoneType DEF crew
    <3>4. UNCHANGED <<live, archive, births, minted, excused, spawns, regs>>
      BY <3>1 DEF deck
    <3>5. retires' \in [Ids -> Nat]
      BY <3>1
    <3> QED BY <2>0, <3>3, <3>4, <3>5
  <2>6. ASSUME NEW l \in Ids, Mint(l) PROVE TypeOK'
    <3>1. NextId(l) \in CardId /\ rec[l].reg \in Nat /\ rec[l].cardSeq + 1 \in Nat
      BY DEF NextId, CardId
    <3>2. live' \subseteq Card /\ births' \in Nat /\ excused' \subseteq Nat
      BY <2>6, <3>1, BornType DEF Mint
    <3>3. rec' \in [Ids -> Rec]
      BY <2>6, <3>1 DEF Mint
    <3>4. minted' \subseteq [reg : Nat, id : CardId]
      BY <2>6, <3>1 DEF Mint
    <3>5. UNCHANGED <<roster, line, archive, retires, spawns, regs, voice>>
      BY <2>6 DEF Mint
    <3> QED BY <2>0, <3>2, <3>3, <3>4, <3>5
  <2>7. ASSUME NEW l \in Ids, LinePass(l) PROVE TypeOK'
    <3>1. /\ line' \in Ids \cup {Nobody} /\ voice' \in Ids \cup {Nobody}
          /\ UNCHANGED <<roster, rec, live, archive, births, minted, excused, retires, spawns, regs>>
      BY <2>7 DEF LinePass, deck
    <3> QED BY <2>0, <3>1
  <2>8. ASSUME NEW l \in Ids, NEW m \in Ids \cup {Nobody}, Say(l, m) PROVE TypeOK'
    <3>1. /\ line' \in Ids \cup {Nobody} /\ voice' \in Ids \cup {Nobody}
          /\ UNCHANGED <<roster, rec, live, archive, births, minted, excused, retires, spawns, regs>>
      BY <2>8 DEF Say, deck
    <3> QED BY <2>0, <3>1
  <2>9. ASSUME NEW c \in live, ArchiveCard(c) PROVE TypeOK'
    <3>1. /\ live' \subseteq Card /\ archive' \in Seq(Card)
          /\ UNCHANGED <<roster, rec, line, births, minted, excused, retires, spawns, regs, voice>>
      BY <2>9 DEF ArchiveCard, crew
    <3> QED BY <2>0, <3>1
  <2>10. ASSUME NEW c \in live, NEW l \in Ids, PatchOwner(c, l) PROVE TypeOK'
    <3>1. [c EXCEPT !.owner = l] \in Card
      BY DEF Card
    <3>2. live' \subseteq Card /\ excused' \subseteq Nat
      <4>1. [c EXCEPT !.owner = l].born \in Nat
        BY <3>1 DEF Card
      <4>2. Excuse([c EXCEPT !.owner = l]) /\ live' = (live \ {c}) \cup {[c EXCEPT !.owner = l]}
        BY <2>10 DEF PatchOwner
      <4>3. excused' \subseteq Nat
        BY <4>1, <4>2, ExcuseType
      <4> QED BY <3>1, <4>2, <4>3
    <3>3. UNCHANGED <<roster, rec, line, archive, births, minted, retires, spawns, regs, voice>>
      BY <2>10 DEF PatchOwner, crew
    <3> QED BY <2>0, <3>2, <3>3
  <2>11. ASSUME NEW c \in Range(archive), RestoreCard(c.id) PROVE TypeOK'
    <3>1. Newest(c.id) \in Card
      BY <2>11, NewestIsOne DEF RestoreCard
    <3>2. live' \subseteq Card /\ excused' \subseteq Nat
      <4>1. Newest(c.id).born \in Nat
        BY <3>1 DEF Card
      <4>2. Excuse(Newest(c.id)) /\ live' = live \cup {Newest(c.id)}
        BY <2>11 DEF RestoreCard
      <4>3. excused' \subseteq Nat
        BY <4>1, <4>2, ExcuseType
      <4> QED BY <3>1, <4>2, <4>3
    <3>3. UNCHANGED <<roster, rec, line, archive, births, minted, retires, spawns, regs, voice>>
      BY <2>11 DEF RestoreCard, crew
    <3> QED BY <2>0, <3>2, <3>3
  <2>12. CASE Restart
    BY <1>2, <2>12 DEF Restart, crew, deck
  <2> QED BY <1>2, <2>1, <2>2, <2>3, <2>4, <2>5, <2>6, <2>7, <2>8, <2>9, <2>10, <2>11, <2>12
      DEF Request
<1>3. ASSUME Answer, UNCHANGED acts PROVE TypeOK'
  <2>1. ASSUME NEW s \in spawns, Spawned(s) PROVE TypeOK'
    <3>1. s.id \in Ids /\ s.reg \in Nat /\ s.prefix \in Prefixes
      OBVIOUS
    <3>2. rec' \in [Ids -> Rec] /\ roster' \subseteq Ids /\ regs' \in Nat
      <4>1. CASE Register(s.id, s.prefix, TRUE)
        BY <3>1, <4>1, RegisterType
      <4>2. CASE UNCHANGED <<roster, rec, regs>>
        BY <4>2
      <4>3. CASE rec' = [rec EXCEPT ![s.id].ref = TRUE] /\ UNCHANGED <<roster, regs>>
        BY <3>1, <4>3
      <4> QED BY <2>1, <4>1, <4>2, <4>3 DEF Spawned
    <3> QED BY <1>3, <2>1, <3>2 DEF Spawned, deck
  <2>2. ASSUME NEW s \in spawns, SpawnFails(s) PROVE TypeOK'
    BY <1>3, <2>2 DEF SpawnFails, crew, deck
  <2>3. ASSUME NEW l \in Ids, Killed(l) PROVE TypeOK'
    <3>1. retires' \in [Ids -> Nat] /\ UNCHANGED <<deck, spawns, regs>> /\ Gone(l)
      BY <2>3 DEF Killed
    <3> QED BY <1>3, <3>1, GoneType DEF deck
  <2> QED BY <1>3, <2>1, <2>2, <2>3 DEF Answer
<1> QED BY <1>1, <1>2, <1>3 DEF Next

\* A step that leaves the crew's records, the line and the board alone.
LEMMA AloneKeeps ==
  ASSUME Inv, UNCHANGED <<roster, rec, regs, minted, line, voice, live, excused>>,
         \A m \in Ids : retires'[m] > 0 => retires[m] > 0 \/ Owned(m) = {}
  PROVE  CrewInv' /\ DeckInv' /\ LineIsVoice'
<1>1. CrewInv'
  BY DEF Inv, CrewInv, PrefixesApart, NeverReissued, RegsApart
<1>2. LeaversExcused'
  BY DEF Inv, DeckInv, LeaversExcused, Owned, TypeOK, Card
<1> QED BY <1>1, <1>2 DEF Inv, DeckInv, IdsApart, OwnersAreCrew, LineIsVoice

LEMMA PartsKept ==
  ASSUME RosterAssumption, Inv, [Next]_vars
  PROVE  CrewInv' /\ DeckInv' /\ LineIsVoice'
<1> DEFINE Kept == CrewInv' /\ DeckInv' /\ LineIsVoice'
<1>1. CASE UNCHANGED vars
  BY <1>1, AloneKeeps DEF vars
<1>2. ASSUME NEW l \in Ids, NEW p \in Prefixes, CreateLieutenant(l, p) PROVE Kept
  BY <1>2, RegisterKeeps DEF CreateLieutenant
<1>3. ASSUME NEW l \in Ids, NEW p \in Prefixes, SpawnLieutenant(l, p) PROVE Kept
  BY <1>3, AloneKeeps DEF SpawnLieutenant, crew, deck
<1>4. ASSUME NEW l \in Ids, NEW p \in Prefixes, PatchPrefix(l, p) PROVE Kept
  <2>1. /\ \A m \in Ids \ {l} : rec'[m] = rec[m]
        /\ rec'[l].prefix = p /\ rec'[l].reg = rec[l].reg /\ rec'[l].cardSeq = rec[l].cardSeq
        /\ \A m \in roster : m # l => rec[m].prefix # p
        /\ roster \subseteq Ids
    BY <1>4 DEF PatchPrefix, PrefixOwner, Inv, TypeOK
  <2>2. UNCHANGED <<roster, line, voice, regs, minted, live, excused, retires>>
    BY <1>4 DEF PatchPrefix, deck
  <2>3. PrefixesApart'
    BY <2>1, <2>2 DEF Inv, CrewInv, PrefixesApart
  <2>4. NeverReissued' /\ RegsApart'
    <3>1. \A m \in roster : rec'[m].reg = rec[m].reg /\ rec'[m].cardSeq = rec[m].cardSeq
      BY <2>1
    <3> QED BY <3>1, <2>2 DEF Inv, CrewInv, NeverReissued, RegsApart
  <2>5. DeckInv' /\ LineIsVoice'
    BY <2>2 DEF Inv, DeckInv, IdsApart, OwnersAreCrew, LeaversExcused, LineIsVoice
  <2> QED BY <2>3, <2>4, <2>5 DEF CrewInv
<1>5. ASSUME NEW l \in Ids, NEW p \in Prefixes, CreateNamed(l, <<p, 1>>) PROVE Kept
  <2>1. <<p, 1>> \in CardId
    BY DEF CardId
  <2>2. DeckInv'
    BY <1>5, <2>1, BornKeeps DEF CreateNamed, crew
  <2>3. CrewInv' /\ LineIsVoice'
    BY <1>5 DEF CreateNamed, crew, Inv, CrewInv, PrefixesApart, NeverReissued, RegsApart, LineIsVoice
  <2> QED BY <2>2, <2>3
<1>6. ASSUME NEW l \in Ids, Retire(l) PROVE Kept
  <2>1. Owned(l) = {} /\ UNCHANGED <<deck, regs>>
    BY <1>6 DEF Retire, MayRetire
  <2>2. CASE Gone(l) /\ UNCHANGED retires
    <3>1. \A c \in live : c.owner = l => c.born \in excused
      BY <2>1 DEF Owned
    <3> QED BY <2>1, <2>2, <3>1, GoneKeeps
  <2>3. CASE retires' = [retires EXCEPT ![l] = @ + 1] /\ UNCHANGED <<crew, voice>>
    <3>1. \A m \in Ids : retires'[m] > 0 => retires[m] > 0 \/ Owned(m) = {}
      BY <2>1, <2>3 DEF Inv, TypeOK
    <3> QED BY <2>1, <2>3, <3>1, AloneKeeps DEF crew, deck
  <2> QED BY <1>6, <2>2, <2>3 DEF Retire
<1>7. ASSUME NEW l \in Ids, Mint(l) PROVE Kept
  <2>1. NextId(l) \in CardId
    BY DEF NextId, CardId, Inv, TypeOK
  <2>2. DeckInv'
    BY <1>7, <2>1, BornKeeps DEF Mint
  <2>3. /\ \A m \in Ids \ {l} : rec'[m] = rec[m]
        /\ rec'[l].prefix = rec[l].prefix /\ rec'[l].reg = rec[l].reg
        /\ rec'[l].cardSeq = rec[l].cardSeq + 1 /\ rec[l].cardSeq \in Nat
        /\ UNCHANGED <<roster, line, voice, regs>> /\ l \in roster /\ roster \subseteq Ids
        /\ minted' = minted \cup {[reg |-> rec[l].reg, id |-> NextId(l)]}
        /\ NextId(l)[2] = rec[l].cardSeq + 1
    BY <1>7 DEF Mint, NextId, Inv, TypeOK
  <2>4. PrefixesApart'
    BY <2>3 DEF Inv, CrewInv, PrefixesApart
  <2>5. RegsApart'
    <3>1. \A m \in roster : rec'[m].reg = rec[m].reg
      BY <2>3
    <3> QED BY <2>3, <3>1 DEF Inv, CrewInv, RegsApart
  <2>6. NeverReissued'
    <3> SUFFICES ASSUME NEW k \in roster, NEW m \in minted', m.reg = rec'[k].reg
                 PROVE  m.id[2] <= rec'[k].cardSeq
      BY <2>3 DEF NeverReissued
    <3>1. CASE k = l /\ m \in minted
      <4>1. m.id[2] <= rec[l].cardSeq /\ m.id[2] \in Nat
        BY <2>3, <3>1 DEF Inv, CrewInv, NeverReissued, TypeOK, CardId
      <4> QED BY <2>3, <3>1, <4>1
    <3>2. CASE k # l /\ m \in minted
      BY <2>3, <3>2 DEF Inv, CrewInv, NeverReissued
    <3>3. CASE m = [reg |-> rec[l].reg, id |-> NextId(l)]
      <4>1. k = l
        BY <2>3, <3>3 DEF Inv, CrewInv, RegsApart
      <4> QED BY <2>3, <3>3, <4>1
    <3> QED BY <2>3, <3>1, <3>2, <3>3
  <2>7. LineIsVoice'
    BY <2>3 DEF Inv, LineIsVoice
  <2> QED BY <2>2, <2>4, <2>5, <2>6, <2>7 DEF CrewInv
<1>8. ASSUME NEW l \in Ids, LinePass(l) \/ \E m \in Ids \cup {Nobody} : Say(l, m) PROVE Kept
  <2>1. CrewInv' /\ DeckInv'
    BY <1>8 DEF LinePass, Say, deck, Inv, CrewInv, PrefixesApart, NeverReissued, RegsApart,
                DeckInv, IdsApart, OwnersAreCrew, LeaversExcused
  <2>2. LineIsVoice'
    BY <1>8 DEF LinePass, Say, Inv, LineIsVoice
  <2> QED BY <2>1, <2>2
<1>9. ASSUME NEW c \in live, ArchiveCard(c) PROVE Kept
  <2>1. live' \subseteq live /\ UNCHANGED <<roster, rec, line, voice, regs, minted, excused, retires>>
    BY <1>9 DEF ArchiveCard, crew
  <2> QED BY <2>1 DEF Inv, CrewInv, PrefixesApart, NeverReissued, RegsApart, DeckInv, IdsApart,
              OwnersAreCrew, LeaversExcused, LineIsVoice
<1>10. ASSUME NEW c \in live, NEW l \in Ids, PatchOwner(c, l) PROVE Kept
  <2> DEFINE new == [c EXCEPT !.owner = l]
  <2>1. new \in Card /\ new.id = c.id
    BY DEF Inv, TypeOK, Card
  <2>2. \A d \in live \ {c} : d.id # new.id
    BY <2>1 DEF Inv, DeckInv, IdsApart
  <2>3. DeckInv'
    <3>1. Excuse(new) /\ live' = (live \ {c}) \cup {new} /\ UNCHANGED <<roster, retires>>
      BY <1>10 DEF PatchOwner, crew
    <3>2. {c} \in SUBSET live
      OBVIOUS
    <3> HIDE DEF new
    <3> QED BY <2>1, <2>2, <3>1, <3>2, CardKeeps
  <2>4. CrewInv' /\ LineIsVoice'
    BY <1>10 DEF PatchOwner, crew, Inv, CrewInv, PrefixesApart, NeverReissued, RegsApart, LineIsVoice
  <2> QED BY <2>3, <2>4
<1>11. ASSUME NEW c \in Range(archive), RestoreCard(c.id) PROVE Kept
  <2>1. Newest(c.id) \in Card /\ Newest(c.id).id = c.id
    BY <1>11, NewestIsOne DEF RestoreCard, Inv
  <2>2. \A d \in live \ {} : d.id # Newest(c.id).id
    BY <1>11, <2>1 DEF RestoreCard, FindCard
  <2>3. DeckInv'
    BY <1>11, <2>1, <2>2, CardKeeps DEF RestoreCard, crew
  <2>4. CrewInv' /\ LineIsVoice'
    BY <1>11 DEF RestoreCard, crew, Inv, CrewInv, PrefixesApart, NeverReissued, RegsApart, LineIsVoice
  <2> QED BY <2>3, <2>4
<1>12. CASE Restart
  BY <1>12, AloneKeeps DEF Restart, crew, deck
<1>13. ASSUME NEW s \in spawns, Spawned(s) PROVE Kept
  <2>1. s.id \in Ids /\ s.prefix \in Prefixes /\ UNCHANGED <<line, deck, retires, voice>>
    BY <1>13 DEF Spawned, Inv, TypeOK
  <2>2. CASE Register(s.id, s.prefix, TRUE)
    BY <2>1, <2>2, RegisterKeeps
  <2>3. CASE UNCHANGED <<roster, rec, regs>>
    BY <2>1, <2>3, AloneKeeps DEF deck
  <2>4. CASE rec' = [rec EXCEPT ![s.id].ref = TRUE] /\ UNCHANGED <<roster, regs>>
    <3>1. \A m \in Ids : /\ rec'[m].prefix = rec[m].prefix /\ rec'[m].reg = rec[m].reg
                         /\ rec'[m].cardSeq = rec[m].cardSeq
      BY <2>4 DEF Inv, TypeOK
    <3>2. CrewInv'
      BY <2>1, <2>4, <3>1 DEF deck, Inv, TypeOK, CrewInv, PrefixesApart, NeverReissued, RegsApart
    <3>3. DeckInv' /\ LineIsVoice'
      BY <2>1, <2>4 DEF deck, Inv, DeckInv, IdsApart, OwnersAreCrew, LeaversExcused, LineIsVoice
    <3> QED BY <3>2, <3>3
  <2> QED BY <1>13, <2>2, <2>3, <2>4 DEF Spawned
<1>14. ASSUME NEW s \in spawns, SpawnFails(s) PROVE Kept
  BY <1>14, AloneKeeps DEF SpawnFails, crew, deck
<1>15. ASSUME NEW l \in Ids, Killed(l) PROVE Kept
  <2>1. /\ retires[l] > 0 /\ Gone(l) /\ UNCHANGED <<deck, regs>>
        /\ retires' = [retires EXCEPT ![l] = @ - 1]
    BY <1>15 DEF Killed
  <2>2. \A m \in Ids : retires'[m] > 0 => retires[m] > 0
    BY <2>1 DEF Inv, TypeOK
  <2>3. \A c \in live : c.owner = l => c.born \in excused
    BY <2>1 DEF Inv, DeckInv, LeaversExcused
  <2> QED BY <2>1, <2>2, <2>3, GoneKeeps
<1> QED BY <1>1, <1>2, <1>3, <1>4, <1>5, <1>6, <1>7, <1>8, <1>9, <1>10, <1>11, <1>12, <1>13, <1>14,
           <1>15 DEF Next, Request, Answer

LEMMA InvKept ==
  ASSUME RosterAssumption, Inv, [Next]_vars
  PROVE  Inv'
BY TypeKept, PartsKept DEF Inv

\* The crew, the board and the archive keep their shape, whatever is asked for and answered late.
THEOREM TypeCorrect ==
  ASSUME RosterAssumption
  PROVE  Spec => []TypeOK
<1>1. Inv => TypeOK
  BY DEF Inv
<1>2. Inv /\ [Next]_vars => Inv'
  BY InvKept
<1> QED BY <1>1, <1>2, InitInv, PTL DEF Spec

\* Two lieutenants share neither prefix nor card id, a registration mints a number once, a
\* card has an owner on the crew or is excused, and the line reaches who spoke to him last,
\* through requests, late sessions, late kills, archives, restores and restarts
\* (server.js 39, 667, 912, 922, 2140).
THEOREM CrewStaysApart ==
  ASSUME RosterAssumption
  PROVE  Spec => []CrewApart
<1>1. Inv => CrewApart
  <2>1. Inv => LineFollowsVoice
    BY DEF RosterAssumption, Inv, TypeOK, LineIsVoice, LineFollowsVoice, LineHolder
  <2> QED BY <2>1 DEF Inv, CrewInv, DeckInv, CrewApart
<1>2. Inv /\ [Next]_vars => Inv'
  BY InvKept
<1> QED BY <1>1, <1>2, InitInv, PTL DEF Spec

-----------------------------------------------------------------------------
(* What follows is about module Sessions: one lieutenant and his sessions.  *)
CONSTANTS Harness, Codex, Captain, Commands, MaxCommands, MaxDeaths, Glitch
VARIABLES lt, cards, recorded, window, op, cycling, attempts, bells, era, deaths, commands
S == INSTANCE Sessions

Kin == Harness \cup {"none"}
Talk == [h : Kin, n : Nat]
WindowState == [st : {"gone", "shell", "boot", "up"}, h : Kin, thread : Talk]
Operation ==
  [pc : {"idle", "look", "ask", "kill", "claim", "create", "type", "settle", "deliver", "cleanup",
         "done", "thrown", "kept", "retire"},
   cmd : {"none", "resume", "spawn", "reset", "switch", "revive", "retire"},
   h : Kin, id : Talk, n : 0..3]
SessionsShape ==
  /\ lt \in [here : BOOLEAN, h : Kin, id : Talk] /\ recorded \in Talk
  /\ window \in [S!Window -> WindowState] /\ op \in [S!Actor -> Operation]
  /\ attempts \in 0..4 /\ bells \in 0..1 /\ era \in Nat
(* Only a shell that stands alone is made an agent. *)
Lone ==
  \A v, w \in S!Window :
    window[v].st \in {"boot", "up"} /\ window[w].st \in {"boot", "up"} => v = w
(* Once the bell has rung no attempt is under way and none begins. *)
Rung == bells = 1 => attempts = 4 /\ op["tick"].pc \in {"idle", "look"}
SessionsInv == SessionsShape /\ Lone /\ Rung

LEMMA SessionsInit == S!Init => SessionsInv
<1> SUFFICES ASSUME S!Init PROVE SessionsInv
  OBVIOUS
<1>1. PICK h \in Harness : S!Init!(h)
  BY DEF S!Init
<1> QED BY <1>1 DEF S!Init, SessionsInv, SessionsShape, Lone, Rung, S!NoThread, S!Gone, S!IdleOp, S!Window,
  S!Actor, S!Tick, Kin, Talk, WindowState, Operation


\* The module's Cardinality is the one the library's theorems speak of.
LEMMA Counts == \A x : S!Cardinality(x) = Cardinality(x)
BY DEF S!Cardinality, Cardinality, IsFiniteSet, S!IsFiniteSet

\* What the name resolves to is all that stands.
LEMMA AloneStanding == ASSUME S!Resolves PROVE S!Standing = {S!Target}
<1>1. IsFiniteSet(S!Window)
  <2>1. 1 \in Int /\ 3 \in Int
    OBVIOUS
  <2>2. IsFiniteSet(1..3)
    BY <2>1, FS_Interval, Zenon
  <2> QED BY <2>2 DEF S!Window
<1>2. S!Standing \in SUBSET S!Window
  BY DEF S!Standing
<1>3. IsFiniteSet(S!Standing)
  BY <1>1, <1>2, FS_Subset
<1>4. Cardinality(S!Standing) = 1
  BY Counts DEF S!Resolves
<1>5. PICK x : S!Standing = {x}
  BY <1>3, <1>4, FS_Singleton
<1> QED BY <1>5 DEF S!Target

\* One actor moves on; the bell and the attempts are what they were.
LEMMA MovesOn ==
  ASSUME SessionsInv, NEW a \in S!Actor, NEW r \in Operation, op' = [op EXCEPT ![a] = r],
         a = "tick" => bells = 0 \/ r.pc \in {"idle", "look"},
         lt' \in [here : BOOLEAN, h : Kin, id : Talk], recorded' \in Talk, era' \in Nat,
         window' \in [S!Window -> WindowState], Lone', UNCHANGED <<attempts, bells>>
  PROVE  SessionsInv'
BY DEF SessionsInv, SessionsShape, Rung

LEMMA SessionsConstants ==
  ASSUME S!SessionsAssumption
  PROVE  /\ "tick" \in S!Actor /\ Captain \subseteq S!Actor \ {"tick"} /\ Harness \subseteq Kin
         /\ S!NoThread \in Talk /\ S!Gone \in WindowState /\ S!Gone.st = "gone" /\ S!IdleOp \in Operation
         /\ S!IdleOp.pc = "idle" /\ S!IdleOp.cmd = "none"
BY DEF S!SessionsAssumption, S!Actor, S!Tick, S!NoThread, S!Gone, S!IdleOp, Talk, WindowState, Operation, Kin

\* A kill by name takes one window at most, and makes none.
LEMMA KillsLess ==
  ASSUME S!SessionsAssumption, SessionsInv, window' \in {S!KilledByName, window}
  PROVE  window' \in [S!Window -> WindowState] /\ Lone'
BY SessionsConstants DEF SessionsInv, SessionsShape, Lone, S!KilledByName

\* The verbs, one await at a time.
LEMMA VerbKeeps == ASSUME S!SessionsAssumption, SessionsInv, NEW a \in S!Actor, S!Step(a) PROVE SessionsInv'
<1>0. /\ op[a] \in Operation /\ window \in [S!Window -> WindowState] /\ op \in [S!Actor -> Operation]
      /\ lt \in [here : BOOLEAN, h : Kin, id : Talk] /\ recorded \in Talk /\ era \in Nat /\ Lone
  BY DEF SessionsInv, SessionsShape
<1>1. /\ op[a].pc \notin {"idle", "look"} /\ UNCHANGED <<lt, recorded, era, attempts, bells>>
  BY DEF S!Step, S!KillPane, S!ClaimNames, S!CreatePane, S!TypeLaunch, S!Settle, S!DeliverPrompt, S!CleanUp,
     S!At, S!bounds
<1>2. a = "tick" => bells = 0
  BY <1>1 DEF SessionsInv, SessionsShape, Rung
<1>3. PICK r \in Operation : op' = [op EXCEPT ![a] = r]
  <2>1. ASSUME NEW pc \in {"create", "claim", "thrown", "type", "cleanup", "settle", "done", "deliver"},
               S!Go(a, pc)
        PROVE  \E r \in Operation : op' = [op EXCEPT ![a] = r]
    <3>1. [op[a] EXCEPT !.pc = pc] \in Operation
      BY <1>0 DEF Operation
    <3> QED BY <1>0, <2>1, <3>1 DEF S!Go
  <2>2. CASE S!TypeLaunch(a)
    <3> DEFINE fresh == [h |-> op[a].h, n |-> IF op[a].cmd \in {"reset", "switch"} THEN era + 1 ELSE era]
               t == IF op[a].id = S!NoThread THEN fresh ELSE op[a].id
               r == [op[a] EXCEPT !.pc = "settle", !.id = t]
    <3>1. t \in Talk
      BY <1>0 DEF Operation, Talk
    <3>2. r \in Operation
      BY <1>0, <3>1 DEF Operation
    <3>3. S!Go(a, "cleanup") \/ op' = [op EXCEPT ![a] = r]
      BY <1>0, <2>2 DEF S!TypeLaunch
    <3> QED BY <2>1, <3>2, <3>3
  <2>3. CASE ~S!TypeLaunch(a)
    BY <2>1, <2>3 DEF S!Step, S!KillPane, S!ClaimNames, S!CreatePane, S!Settle, S!DeliverPrompt, S!CleanUp
  <2> QED BY <2>2, <2>3
<1>4. window' \in [S!Window -> WindowState] /\ Lone'
  <2>1. CASE UNCHANGED window
    BY <1>0, <2>1 DEF Lone
  <2>2. CASE window' = S!KilledByName
    BY <2>2, KillsLess
  <2>3. CASE S!CreatePane(a)
    <3> DEFINE shell == [S!Gone EXCEPT !.st = "shell"]
    <3>1. shell \in WindowState /\ shell.st = "shell"
      BY SessionsConstants DEF WindowState
    <3>2. PICK w : window' = window \/ window' = [window EXCEPT ![w] = shell]
      BY <2>3 DEF S!CreatePane
    <3> HIDE DEF shell
    <3> QED BY <1>0, <3>1, <3>2 DEF Lone
  <2>4. CASE S!TypeLaunch(a) /\ window' # window
    <3> DEFINE fresh == [h |-> op[a].h, n |-> IF op[a].cmd \in {"reset", "switch"} THEN era + 1 ELSE era]
               t == IF op[a].id = S!NoThread THEN fresh ELSE op[a].id
               boot == [st |-> "boot", h |-> op[a].h, thread |-> t]
    <3>1. t \in Talk
      BY <1>0 DEF Operation, Talk
    <3>2. boot \in WindowState /\ boot.st = "boot"
      BY <1>0, <3>1 DEF Operation, WindowState
    <3>3. S!Resolves /\ window' = [window EXCEPT ![S!Target] = boot]
      BY <2>4 DEF S!TypeLaunch
    <3> HIDE DEF boot
    <3>4. \A w \in S!Window : window[w].st = "gone" \/ w = S!Target
      BY <3>3, AloneStanding DEF S!Standing
    <3> QED BY <1>0, <3>2, <3>3, <3>4 DEF Lone
  <2> QED BY <2>1, <2>2, <2>3, <2>4 DEF S!Step, S!KillPane, S!ClaimNames, S!Settle, S!DeliverPrompt, S!CleanUp
<1> QED BY <1>0, <1>1, <1>2, <1>3, <1>4, MovesOn

LEMMA SessionsStep == S!SessionsAssumption /\ SessionsInv /\ [S!Next]_S!vars => SessionsInv'
<1> SUFFICES ASSUME S!SessionsAssumption, SessionsInv, [S!Next]_S!vars PROVE SessionsInv'
  OBVIOUS
<1>0. /\ "tick" \in S!Actor /\ Captain \subseteq S!Actor \ {"tick"} /\ Harness \subseteq Kin
      /\ S!NoThread \in Talk /\ S!Gone \in WindowState /\ S!Gone.st = "gone" /\ S!IdleOp \in Operation
      /\ S!IdleOp.pc = "idle" /\ window \in [S!Window -> WindowState] /\ op \in [S!Actor -> Operation]
      /\ lt \in [here : BOOLEAN, h : Kin, id : Talk] /\ recorded \in Talk /\ era \in Nat
      /\ attempts \in 0..4 /\ bells \in 0..1 /\ Lone /\ Rung
  BY SessionsConstants DEF SessionsInv, SessionsShape
<1>1. CASE UNCHANGED S!vars
  BY <1>1 DEF S!vars, SessionsInv, SessionsShape, Lone, Rung
<1>2. ASSUME NEW a \in S!Actor, S!Step(a) PROVE SessionsInv'
  BY <1>2, VerbKeeps
<1>3. CASE S!TickLook
  <2> DEFINE r == [S!IdleOp EXCEPT !.pc = "look", !.h = lt.h]
  <2>1. r \in Operation /\ r.pc = "look"
    BY <1>0 DEF Operation
  <2>2. op' = [op EXCEPT !["tick"] = r] /\ UNCHANGED <<lt, recorded, window, attempts, bells, era>>
    BY <1>3 DEF S!TickLook, S!Tick, S!bounds
  <2> HIDE DEF r
  <2>3. Lone'
    BY <1>0, <2>2 DEF Lone
  <2> QED BY <1>0, <2>1, <2>2, <2>3, MovesOn
<1>4. CASE S!TickAnswer
  <2>1. UNCHANGED <<lt, recorded, window, era>>
    BY <1>4 DEF S!TickAnswer, S!bounds
  <2>2. Lone'
    BY <1>0, <2>1 DEF Lone
  <2>3. CASE op' = [op EXCEPT !["tick"] = S!IdleOp] /\ (S!Known \/ UNCHANGED <<attempts, bells>>)
    BY <1>0, <2>1, <2>2, <2>3 DEF S!Known, SessionsInv, SessionsShape, Rung
  <2>4. CASE ~(op' = [op EXCEPT !["tick"] = S!IdleOp] /\ (S!Known \/ UNCHANGED <<attempts, bells>>))
    <3> DEFINE m == IF recorded # S!NoThread THEN recorded ELSE lt.id
               r == IF m # S!NoThread
                    THEN [pc |-> "ask", cmd |-> "resume", h |-> op["tick"].h, id |-> m, n |-> attempts + 1]
                    ELSE [pc |-> "kill", cmd |-> "spawn", h |-> lt.h, id |-> S!NoThread, n |-> attempts + 1]
    <3>1. ~(attempts + 1 > 3) /\ attempts' = attempts + 1 /\ UNCHANGED bells /\ op' = [op EXCEPT !["tick"] = r]
      BY <1>4, <2>4 DEF S!TickAnswer, S!GiveUp, S!Reply, S!Memory, S!Tick
    <3>2. m \in Talk /\ op["tick"].h \in Kin
      BY <1>0 DEF Operation
    <3>3. r \in Operation
      BY <1>0, <3>1, <3>2 DEF Operation
    <3>4. bells = 0
      BY <1>0, <3>1 DEF Rung
    <3> HIDE DEF r
    <3> QED BY <1>0, <2>1, <2>2, <3>1, <3>3, <3>4 DEF SessionsInv, SessionsShape, Rung
  <2> QED BY <2>3, <2>4
<1>5. CASE S!ResumeAsks
  <2>1. UNCHANGED <<lt, recorded, window, attempts, bells, era>> /\ op["tick"].pc = "ask"
    BY <1>5 DEF S!ResumeAsks, S!bounds, S!At, S!Tick
  <2>2. \E r \in Operation : op' = [op EXCEPT !["tick"] = r]
    <3> DEFINE o == op["tick"]
               r == [o EXCEPT !.pc = "done", !.h = lt.h, !.id = lt.id]
    <3>1. o \in Operation
      BY <1>0
    <3>2. r \in Operation
      BY <1>0, <3>1 DEF Operation
    <3>3. [o EXCEPT !.pc = "thrown"] \in Operation /\ [o EXCEPT !.pc = "kill"] \in Operation
      BY <3>1 DEF Operation
    <3>4. op' \in {[op EXCEPT !["tick"] = r], [op EXCEPT !["tick"] = [o EXCEPT !.pc = "thrown"]],
                   [op EXCEPT !["tick"] = [o EXCEPT !.pc = "kill"]]}
      BY <1>0, <1>5 DEF S!ResumeAsks, S!Go, S!Tick
    <3> QED BY <3>2, <3>3, <3>4
  <2>3. Lone' /\ bells = 0
    BY <1>0, <2>1 DEF Lone, Rung
  <2> QED BY <1>0, <2>1, <2>2, <2>3, MovesOn
<1>6. CASE S!TickDone
  <2> DEFINE b == [lt EXCEPT !.h = op["tick"].h, !.id = S!RefId("tick")]
  <2>1. S!RefId("tick") \in Talk /\ op["tick"].h \in Kin
    BY <1>0 DEF S!RefId, Operation
  <2>2. b \in [here : BOOLEAN, h : Kin, id : Talk]
    BY <1>0, <2>1
  <2>3. lt' = b /\ op' = [op EXCEPT !["tick"] = S!IdleOp] /\ attempts' = 0 /\ bells' = 0
        /\ UNCHANGED <<recorded, window, era>>
    BY <1>6 DEF S!TickDone, S!Known, S!Reply, S!bounds, S!Tick
  <2> HIDE DEF b
  <2> QED BY <1>0, <2>2, <2>3 DEF SessionsInv, SessionsShape, Lone, Rung
<1>7. CASE S!TickThrown
  <2>1. op' = [op EXCEPT !["tick"] = S!IdleOp] /\ UNCHANGED <<lt, recorded, window, era>> /\ bells = 0
        /\ (UNCHANGED <<attempts, bells>> \/ (attempts' = 4 /\ bells' = 1))
    BY <1>0, <1>7 DEF S!TickThrown, S!Reply, S!bounds, S!Tick, S!At, S!Flagged, Rung
  <2> QED BY <1>0, <2>1 DEF SessionsInv, SessionsShape, Lone, Rung
<1>8. ASSUME NEW c \in Captain, S!CommandDone(c) \/ S!CommandThrown(c) \/ S!Retire(c) PROVE SessionsInv'
  <2>1. op' = [op EXCEPT ![c] = S!IdleOp] /\ recorded' = recorded /\ era' \in {era, era + 1}
        /\ (S!Known \/ UNCHANGED <<attempts, bells>>) /\ window' \in {S!KilledByName, window}
    BY <1>8 DEF S!CommandDone, S!CommandThrown, S!Retire, S!Reply, S!bounds
  <2>2. lt' \in [here : BOOLEAN, h : Kin, id : Talk]
    <3>1. S!RefId(c) \in Talk /\ op[c].h \in Kin
      BY <1>0 DEF S!RefId, Operation
    <3>2. [lt EXCEPT !.here = FALSE] \in [here : BOOLEAN, h : Kin, id : Talk]
      BY <1>0
    <3>3. \A id \in Talk : [lt EXCEPT !.h = op[c].h, !.id = id] \in [here : BOOLEAN, h : Kin, id : Talk]
      BY <1>0, <3>1
    <3> QED BY <1>0, <1>8, <3>1, <3>2, <3>3 DEF S!CommandDone, S!CommandThrown, S!Retire
  <2>3. window' \in [S!Window -> WindowState] /\ Lone'
    BY <2>1, KillsLess
  <2> QED BY <1>0, <2>1, <2>2, <2>3 DEF SessionsInv, SessionsShape, Rung, S!Known
<1>9. ASSUME NEW c \in Captain, NEW cmd \in {"reset", "switch", "revive", "retire"}, NEW h \in Kin,
             NEW pc \in {"kill", "kept", "claim", "retire"}, S!Begin(c, cmd, pc, h)
      PROVE  SessionsInv'
  <2> DEFINE r == [pc |-> pc, cmd |-> cmd, h |-> h, id |-> S!NoThread, n |-> 0]
  <2>1. r \in Operation
    BY <1>0 DEF Operation
  <2>2. op' = [op EXCEPT ![c] = r] /\ UNCHANGED <<lt, recorded, window, attempts, bells, era>>
    BY <1>9 DEF S!Begin
  <2> HIDE DEF r
  <2>3. Lone'
    BY <1>0, <2>2 DEF Lone
  <2> QED BY <1>0, <2>1, <2>2, <2>3, MovesOn
<1>10. ASSUME NEW w \in S!Window, S!Boot(w) \/ S!Die(w) \/ S!TurnEnd(w) PROVE SessionsInv'
  <2>1. op' = op /\ UNCHANGED <<attempts, bells, era>>
    BY <1>10 DEF S!Boot, S!Die, S!TurnEnd, S!bounds
  <2>2. window' \in [S!Window -> WindowState] /\ Lone'
    <3>1. [window[w] EXCEPT !.st = "up"] \in WindowState /\ [window[w] EXCEPT !.st = "up"].st = "up"
      BY <1>0 DEF WindowState
    <3>2. [S!Gone EXCEPT !.st = "shell"] \in WindowState /\ [S!Gone EXCEPT !.st = "shell"].st = "shell"
      BY <1>0 DEF WindowState
    <3>3. \/ window' = window
          \/ window[w].st = "boot" /\ window' = [window EXCEPT ![w] = [window[w] EXCEPT !.st = "up"]]
          \/ window' \in {[window EXCEPT ![w] = S!Gone], [window EXCEPT ![w] = [S!Gone EXCEPT !.st = "shell"]]}
      BY <1>0, <1>10 DEF S!Boot, S!Die, S!TurnEnd
    <3> QED BY <1>0, <3>1, <3>2, <3>3 DEF Lone
  <2>3. lt' \in [here : BOOLEAN, h : Kin, id : Talk] /\ recorded' \in Talk
    <3>1. window[w].thread \in Talk
      BY <1>0 DEF WindowState
    <3>2. [lt EXCEPT !.id = window[w].thread] \in [here : BOOLEAN, h : Kin, id : Talk]
      BY <1>0, <3>1
    <3> QED BY <1>0, <1>10, <3>1, <3>2 DEF S!Boot, S!Die, S!TurnEnd, S!Recorded, S!Adopted
  <2> QED BY <1>0, <2>1, <2>2, <2>3 DEF SessionsInv, SessionsShape, Rung
<1>11. CASE S!CreateCard \/ S!ArchiveCard
  BY <1>11 DEF S!CreateCard, S!ArchiveCard, S!bounds, SessionsInv, SessionsShape, Lone, Rung
<1>12. ASSUME NEW c \in Captain,
              S!BeginReset(c) \/ S!BeginRevive(c) \/ S!BeginRetire(c) \/ \E h \in Harness : S!BeginSwitch(c, h)
       PROVE  SessionsInv'
  BY <1>0, <1>9, <1>12 DEF S!BeginReset, S!BeginRevive, S!BeginRetire, S!BeginSwitch
<1> QED BY <1>1, <1>2, <1>3, <1>4, <1>5, <1>6, <1>7, <1>8, <1>10, <1>11, <1>12, <1>0
        DEF S!Next, S!TickStep, S!CaptainStep, S!Tick

\* A lieutenant has one agent and an outage rings once, through every interleaving.
THEOREM OneAgentAndBell == S!SessionsAssumption => (S!Spec => [](S!OneAgent /\ S!OneBell))
<1> SUFFICES ASSUME S!SessionsAssumption PROVE S!Spec => [](S!OneAgent /\ S!OneBell)
  OBVIOUS
<1>1. ASSUME SessionsInv PROVE S!OneAgent /\ S!OneBell
  <2> DEFINE Agents == {w \in S!Window : window[w].st \in {"boot", "up"}}
  <2>1. Cardinality(Agents) <= 1
    <3>1. CASE Agents = {}
      BY <3>1, FS_EmptySet
    <3>2. CASE Agents # {}
      <4>1. PICK w : w \in Agents
        BY <3>2
      <4>2. Agents = {w}
        BY <1>1, <4>1 DEF SessionsInv, Lone
      <4>3. Cardinality({w}) = 1
        BY FS_Singleton
      <4> HIDE DEF Agents
      <4> QED BY <4>2, <4>3
    <3> QED BY <3>1, <3>2
  <2> QED BY <1>1, <2>1, Counts DEF SessionsInv, SessionsShape, S!OneAgent, S!OneBell
<1>2. SessionsInv /\ [S!Next]_S!vars => SessionsInv'
  BY SessionsStep
<1> QED BY <1>1, <1>2, SessionsInit, PTL DEF S!Spec

-----------------------------------------------------------------------------
(* One captain's command at a time holds the guard of the cycle.             *)
OneCaptain == \A c, d \in Captain : c = d
Guarded == S!Restarting # {} => cycling

LEMMA GuardStep ==
  ASSUME S!SessionsAssumption, OneCaptain, SessionsInv, Guarded, [S!Next]_S!vars
  PROVE  Guarded'
<1> USE DEF Guarded, S!Restarting
<1>0. /\ op \in [S!Actor -> Operation] /\ "tick" \in S!Actor /\ Captain \subseteq S!Actor \ {"tick"}
      /\ S!IdleOp.cmd = "none"
  BY SessionsConstants DEF SessionsInv, SessionsShape
<1>1. ASSUME cycling' = cycling, \A c \in Captain : op'[c].cmd \in {"reset", "switch"} => op[c].cmd = op'[c].cmd
      PROVE  Guarded'
  BY <1>1
<1>2. CASE UNCHANGED S!vars
  BY <1>1, <1>2 DEF S!vars
<1>3. ASSUME NEW a \in S!Actor, S!Step(a) PROVE Guarded'
  <2>1. cycling' = cycling
    BY <1>3 DEF S!Step, S!KillPane, S!ClaimNames, S!CreatePane, S!TypeLaunch, S!Settle, S!DeliverPrompt, S!CleanUp
  <2>2. \A c \in Captain : op'[c].cmd = op[c].cmd
    BY <1>0, <1>3 DEF Operation, S!Go, S!Step, S!KillPane, S!ClaimNames, S!CreatePane, S!TypeLaunch, S!Settle,
       S!DeliverPrompt, S!CleanUp
  <2> QED BY <1>1, <2>1, <2>2
<1>4. CASE S!TickLook \/ S!TickAnswer \/ S!ResumeAsks \/ S!TickDone \/ S!TickThrown
  <2>1. cycling' = cycling
    BY <1>4 DEF S!TickLook, S!TickAnswer, S!ResumeAsks, S!TickDone, S!TickThrown
  <2>2. \A c \in Captain : op'[c] = op[c]
    BY <1>0, <1>4 DEF S!TickLook, S!TickAnswer, S!ResumeAsks, S!TickDone, S!TickThrown, S!Go, S!Reply, S!Tick
  <2> QED BY <1>1, <2>1, <2>2
<1>5. ASSUME NEW c \in Captain, S!CommandDone(c) \/ S!CommandThrown(c) \/ S!Retire(c) PROVE Guarded'
  <2>1. op' = [op EXCEPT ![c] = S!IdleOp]
    BY <1>5 DEF S!CommandDone, S!CommandThrown, S!Retire, S!Reply
  <2>2. \A d \in Captain : op'[d].cmd = "none"
    BY <1>0, <2>1 DEF OneCaptain
  <2> QED BY <2>2
<1>6. ASSUME NEW c \in Captain, S!BeginReset(c) \/ \E h \in Harness : S!BeginSwitch(c, h) PROVE Guarded'
  BY <1>6 DEF S!BeginReset, S!BeginSwitch
<1>7. ASSUME NEW c \in Captain, S!BeginRevive(c) \/ S!BeginRetire(c) PROVE Guarded'
  <2>1. cycling' = cycling
    BY <1>7 DEF S!BeginRevive, S!BeginRetire
  <2>2. \E cmd \in {"revive", "retire"}, pc \in {"kept", "claim", "retire"}, h \in {lt.h} :
          op' = [op EXCEPT ![c] = [pc |-> pc, cmd |-> cmd, h |-> h, id |-> S!NoThread, n |-> 0]]
    BY <1>7 DEF S!BeginRevive, S!BeginRetire, S!Begin
  <2>3. \A d \in Captain : op'[d].cmd \in {"reset", "switch"} => op[d].cmd = op'[d].cmd
    BY <1>0, <2>2
  <2> QED BY <1>1, <2>1, <2>3
<1>8. CASE (\E w \in S!Window : S!Boot(w) \/ S!Die(w) \/ S!TurnEnd(w)) \/ S!CreateCard \/ S!ArchiveCard
  BY <1>1, <1>8 DEF S!Boot, S!Die, S!TurnEnd, S!CreateCard, S!ArchiveCard
<1> QED BY <1>0, <1>2, <1>3, <1>4, <1>5, <1>6, <1>7, <1>8 DEF S!Next, S!TickStep, S!CaptainStep, S!Tick

\* Whoever has just looked goes on only through the answer, which asks the guard again.
LEMMA AnswerIsQuiet ==
  ASSUME S!SessionsAssumption, SessionsInv, Guarded, S!Next,
         op["tick"].pc = "look", op'["tick"].pc \in {"ask", "kill"}
  PROVE  S!Restarting = {}
<1>0. /\ op \in [S!Actor -> Operation] /\ "tick" \in S!Actor /\ Captain \subseteq S!Actor \ {"tick"}
      /\ S!IdleOp.pc = "idle"
  BY SessionsConstants DEF SessionsInv, SessionsShape
<1>1. op'["tick"] # op["tick"]
  OBVIOUS
<1>2. ASSUME NEW a \in S!Actor, S!Step(a) PROVE FALSE
  <2>1. a # "tick"
    BY <1>2 DEF S!Step, S!KillPane, S!ClaimNames, S!CreatePane, S!TypeLaunch, S!Settle, S!DeliverPrompt,
       S!CleanUp, S!At
  <2> QED BY <1>0, <1>1, <1>2, <2>1 DEF S!Go, S!Step, S!KillPane, S!ClaimNames, S!CreatePane, S!TypeLaunch,
      S!Settle, S!DeliverPrompt, S!CleanUp
<1>3. ~(S!TickLook \/ S!ResumeAsks \/ S!TickDone \/ S!TickThrown)
  BY DEF S!TickLook, S!ResumeAsks, S!TickDone, S!TickThrown, S!At, S!Tick
<1>4. ASSUME NEW c \in Captain, S!CommandDone(c) \/ S!CommandThrown(c) \/ S!Retire(c) PROVE FALSE
  BY <1>0, <1>1, <1>4 DEF S!CommandDone, S!CommandThrown, S!Retire, S!Reply
<1>5. ASSUME NEW c \in Captain, S!BeginReset(c) \/ S!BeginRevive(c) \/ S!BeginRetire(c) \/ \E h \in Harness : S!BeginSwitch(c, h)
      PROVE  FALSE
  BY <1>0, <1>1, <1>5 DEF S!BeginReset, S!BeginRevive, S!BeginRetire, S!BeginSwitch, S!Begin
<1>6. ~((\E w \in S!Window : S!Boot(w) \/ S!Die(w) \/ S!TurnEnd(w)) \/ S!CreateCard \/ S!ArchiveCard)
  BY <1>1 DEF S!Boot, S!Die, S!TurnEnd, S!CreateCard, S!ArchiveCard
<1>7. S!TickAnswer
  BY <1>0, <1>2, <1>3, <1>4, <1>5, <1>6 DEF S!Next, S!TickStep, S!CaptainStep, S!Tick
<1>8. ~cycling
  BY <1>0, <1>7 DEF S!TickAnswer, S!CycleSeen, S!Reply, S!Tick
<1> QED BY <1>8 DEF Guarded

\* With one command of the captain's at a time, no tick restarts a lieutenant a reset or a
\* switch is restarting, whatever was asked before it began (server.js 1860, 3781-3795).
THEOREM TicksKeepOff == S!SessionsAssumption /\ OneCaptain => (S!Spec => S!QuietCycle)
<1> SUFFICES ASSUME S!SessionsAssumption, OneCaptain PROVE S!Spec => S!QuietCycle
  OBVIOUS
<1>1. S!Init => Guarded
  BY SessionsConstants DEF S!Init, Guarded, S!Restarting, S!Actor
<1>2. SessionsInv /\ Guarded /\ [S!Next]_S!vars => Guarded'
  BY GuardStep
<1>3. SessionsInv /\ [S!Next]_S!vars => SessionsInv'
  BY SessionsStep
<1>4. SessionsInv /\ Guarded /\ [S!Next]_S!vars =>
        [(S!At(S!Tick, "look") /\ op'[S!Tick].pc \in {"ask", "kill"}) => S!Restarting = {}]_S!vars
  BY AnswerIsQuiet DEF S!At, S!Tick
<1> QED BY <1>1, <1>2, <1>3, <1>4, SessionsInit, PTL DEF S!Spec, S!QuietCycle

-----------------------------------------------------------------------------
(* The rest is about module Panes: the hub of a pane, then what is typed.   *)
CONSTANTS Pane, Watched, Sender, MultiLine, Retries, Client, Hub, MaxGlitches, MaxKeys
VARIABLES composer, heard, buffer, send, hubs, current, feeding, client, glitches, keys
P == INSTANCE Panes

(* A hub: its viewers, and the feed it has or waits for. *)
HubShape ==
  /\ hubs \in [Hub -> [clients : SUBSET Client, handle : {"none", "opening", "open", "closed"}]]
  /\ current \in Hub \cup {P!NoHub} /\ feeding \subseteq Hub
  /\ client \in [Client -> [st : {"idle", "watching", "ended"}, hub : Hub \cup {P!NoHub}]]
  /\ \A c \in Client : client[c].st # "idle" => client[c].hub \in Hub
  /\ \A h \in Hub : \A c \in hubs[h].clients : client[c].st # "idle" /\ client[c].hub = h
(* The hub in the map has a viewer, and so has whoever polls. *)
Viewed ==
  /\ current # P!NoHub => hubs[current].clients # {}
  /\ \A h \in feeding : hubs[h].clients # {}
HubInv == HubShape /\ Viewed

LEMMA HubInit == P!Init => HubInv
BY DEF P!Init, HubInv, HubShape, Viewed

LEMMA HubStep == P!PanesAssumption /\ HubInv /\ [P!Next]_P!vars => HubInv'
<1> SUFFICES ASSUME P!PanesAssumption, HubInv, [P!Next]_P!vars PROVE HubInv'
  OBVIOUS
<1> DEFINE Hubs == [clients : SUBSET Client, handle : {"none", "opening", "open", "closed"}]
           Viewer == [st : {"idle", "watching", "ended"}, hub : Hub \cup {P!NoHub}]
<1>0. /\ hubs \in [Hub -> Hubs] /\ current \in Hub \cup {P!NoHub} /\ feeding \subseteq Hub
      /\ client \in [Client -> Viewer] /\ P!NoHub \notin Hub
      /\ \A c \in Client : client[c].st # "idle" => client[c].hub \in Hub
      /\ \A h \in Hub : \A c \in hubs[h].clients : client[c].st # "idle" /\ client[c].hub = h
      /\ Viewed
  BY DEF P!PanesAssumption, HubInv, HubShape
<1>1. CASE UNCHANGED P!watching
  BY <1>1 DEF P!watching, HubInv, HubShape, Viewed
<1>2. ASSUME NEW c \in Client, P!Watch(c) PROVE HubInv'
  <2>1. PICK h \in Hub :
          /\ IF current = P!NoHub THEN h \in P!Unused ELSE h = current
          /\ hubs' = [hubs EXCEPT ![h] = [clients |-> @.clients \cup {c},
                                          handle |-> IF current = P!NoHub THEN "opening" ELSE @.handle]]
          /\ current' = h /\ client' = [client EXCEPT ![c] = P!Viewing(h)] /\ feeding' = feeding
    BY <1>2 DEF P!Watch
  <2>2. /\ hubs' \in [Hub -> Hubs] /\ hubs'[h].clients = hubs[h].clients \cup {c}
        /\ \A g \in Hub \ {h} : hubs'[g].clients = hubs[g].clients
    BY <1>0, <2>1
  <2>3. P!Viewing(h) \in Viewer /\ P!Viewing(h).hub = h /\ P!Viewing(h).st = "watching"
    BY DEF P!Viewing
  <2>4. /\ client' \in [Client -> Viewer] /\ client'[c].hub = h /\ client'[c].st = "watching"
        /\ \A d \in Client \ {c} : client'[d] = client[d]
    BY <1>0, <2>1, <2>3
  <2>5. client[c].st = "idle"
    BY <1>2 DEF P!Watch
  <2>6. HubShape'
    BY <1>0, <2>1, <2>2, <2>4, <2>5 DEF HubShape
  <2>7. Viewed'
    BY <1>0, <2>1, <2>2 DEF Viewed
  <2> QED BY <2>6, <2>7 DEF HubInv
<1>3. ASSUME NEW h \in Hub, P!Opened(h) PROVE HubInv'
  <2>1. \E x \in {"open", "closed"} : hubs' = [hubs EXCEPT ![h].handle = x]
    BY <1>3 DEF P!Opened
  <2>2. hubs' \in [Hub -> Hubs] /\ \A g \in Hub : hubs'[g].clients = hubs[g].clients
    BY <1>0, <2>1
  <2>3. UNCHANGED <<current, client>> /\ feeding' \in {feeding, feeding \cup {h}}
        /\ (feeding' # feeding => current = h)
    BY <1>3 DEF P!Opened, P!StillMine
  <2> QED BY <1>0, <2>2, <2>3 DEF HubInv, HubShape, Viewed
<1>4. ASSUME NEW h \in Hub, P!OpenFailed(h) PROVE HubInv'
  <2>1. hubs' = [hubs EXCEPT ![h].handle = "closed"] /\ feeding' = feeding /\ current' \in {current, P!NoHub}
    BY <1>4 DEF P!OpenFailed
  <2>2. hubs' \in [Hub -> Hubs] /\ \A g \in Hub : hubs'[g].clients = hubs[g].clients
    BY <1>0, <2>1
  <2>3. /\ client' \in [Client -> Viewer]
        /\ \A c \in Client : client'[c].hub = client[c].hub
        /\ \A c \in Client : client'[c].st # client[c].st => c \in hubs[h].clients /\ client'[c].st = "ended"
    <3>1. \A c \in Client : [client[c] EXCEPT !.st = "ended"] \in Viewer
      BY <1>0
    <3>2. CASE client' = client
      BY <1>0, <3>2
    <3>3. CASE client' = [c \in Client |-> IF c \in hubs[h].clients THEN [client[c] EXCEPT !.st = "ended"] ELSE client[c]]
      BY <1>0, <3>1, <3>3
    <3> QED BY <1>4, <3>2, <3>3 DEF P!OpenFailed
  <2>4. HubShape'
    BY <1>0, <2>1, <2>2, <2>3 DEF HubShape
  <2>5. Viewed'
    BY <1>0, <2>1, <2>2 DEF Viewed
  <2> QED BY <2>4, <2>5 DEF HubInv
<1>5. ASSUME NEW h \in Hub, P!PaneGone(h) PROVE HubInv'
  BY <1>5 DEF P!PaneGone, HubInv, HubShape, Viewed
<1>6. ASSUME NEW c \in Client, P!Leave(c) PROVE HubInv'
  <2> DEFINE h == client[c].hub
  <2>1. h \in Hub /\ client' = [client EXCEPT ![c] = P!Closed]
    BY <1>0, <1>6 DEF P!Leave
  <2>2. P!Closed \in Viewer /\ P!Closed.st = "idle"
    BY DEF P!Closed
  <2>3. /\ client' \in [Client -> Viewer] /\ client'[c].st = "idle"
        /\ \A d \in Client \ {c} : client'[d] = client[d]
    BY <1>0, <2>1, <2>2
  <2>4. /\ hubs' \in [Hub -> Hubs] /\ hubs'[h].clients = hubs[h].clients \ {c}
        /\ \A g \in Hub \ {h} : hubs'[g].clients = hubs[g].clients
    <3>1. CASE hubs' = [hubs EXCEPT ![h].clients = hubs[h].clients \ {c}]
      BY <1>0, <2>1, <3>1
    <3>2. CASE hubs[h].clients \ {c} = {} /\ \E x \in {"none", "opening", "open", "closed"} :
                 hubs' = [hubs EXCEPT ![h] = [clients |-> {}, handle |-> x]]
      BY <1>0, <2>1, <3>2
    <3>3. hubs[h].handle \in {"none", "opening", "open", "closed"}
      BY <1>0, <2>1
    <3> QED BY <1>6, <3>1, <3>2, <3>3, <1>0, <2>1 DEF P!Leave
  <2>5. \/ hubs[h].clients \ {c} # {} /\ UNCHANGED <<current, feeding>>
        \/ current' = P!NoHub /\ feeding' = feeding \ {h}
    BY <1>6 DEF P!Leave
  <2> HIDE DEF h
  <2>6. HubShape'
    <3>1. \A g \in Hub : \A d \in hubs'[g].clients : d # c /\ d \in hubs[g].clients
      BY <1>0, <2>1, <2>4 DEF h
    <3>2. current' \in Hub \cup {P!NoHub} /\ feeding' \subseteq Hub
      BY <1>0, <2>5
    <3>3. \A d \in Client : client'[d].st # "idle" => client'[d].hub \in Hub
      BY <1>0, <2>3
    <3>4. \A g \in Hub : \A d \in hubs'[g].clients : client'[d].st # "idle" /\ client'[d].hub = g
      <4>1. \A g \in Hub : hubs'[g].clients \subseteq Client
        BY <2>4
      <4> QED BY <1>0, <2>3, <3>1, <4>1
    <3> QED BY <2>3, <2>4, <3>2, <3>3, <3>4 DEF HubShape
  <2>7. Viewed'
    BY <1>0, <2>4, <2>5 DEF Viewed
  <2> QED BY <2>6, <2>7 DEF HubInv
<1>7. ASSUME NEW s \in Sender, P!TypeLine(s) \/ P!LoadBuffer(s) \/ P!PasteBuffer(s) \/ P!Enter(s) \/ P!Look(s)
      PROVE  UNCHANGED P!watching
  BY <1>7 DEF P!TypeLine, P!LoadBuffer, P!PasteBuffer, P!Enter, P!Look
<1>8. ASSUME NEW p \in Pane, P!RawEnter(p) PROVE UNCHANGED P!watching
  BY <1>8 DEF P!RawEnter
<1>9. CASE UNCHANGED P!vars
  BY <1>1, <1>9 DEF P!vars
<1> QED BY <1>1, <1>2, <1>3, <1>4, <1>5, <1>6, <1>7, <1>8, <1>9 DEF P!Next

\* A feed ends with its last viewer, also when he left before it had opened, failed to open,
\* or another hub took its place meanwhile (server.js 1424-1475).
THEOREM FeedsEndWithViewers == P!PanesAssumption => (P!Spec => []P!NoLeakedFeed)
<1> SUFFICES ASSUME P!PanesAssumption PROVE P!Spec => []P!NoLeakedFeed
  OBVIOUS
<1>1. HubInv => P!NoLeakedFeed
  BY DEF HubInv, Viewed, P!NoLeakedFeed
<1>2. HubInv /\ [P!Next]_P!vars => HubInv'
  BY HubStep
<1> QED BY <1>1, <1>2, HubInit, PTL DEF P!Spec

-----------------------------------------------------------------------------
(* Then the sends. A text is on the trail of a pane when its agent was given it or its
   composer holds it; an Enter moves nothing along the trail. *)
Trail(p) == heard[p] \o composer[p]
IsIn(q, t) == \E i \in DOMAIN q : q[i] = t
AtMostOnce(q, t) == \A i, j \in DOMAIN q : q[i] = t /\ q[j] = t => i = j
Confirmable == Sender \ P!SharesBuffer
Sending ==
  [pc : {"idle", "paste", "enter", "look", "said"}, pane : Pane, left : Int,
   said : {"nothing", "send-failed", "empty", "unknown", "pending"}]
SendShape ==
  /\ composer \in [Pane -> Seq(Sender)] /\ heard \in [Pane -> Seq(Sender)]
  /\ buffer \in MultiLine \cup {P!NoText} /\ send \in [Sender -> Sending]
  /\ \A s \in Sender : send[s].pc = "paste" => s \in MultiLine
TrailInv ==
  \A s \in Confirmable :
    /\ AtMostOnce(Trail(send[s].pane), s)
    /\ send[s].pc \in {"idle", "paste"} => ~IsIn(Trail(send[s].pane), s)
    /\ send[s].pc \in {"enter", "look"} => IsIn(Trail(send[s].pane), s)
    /\ send[s].pc = "said" /\ send[s].said = "empty" => IsIn(heard[send[s].pane], s)
SendInv == SendShape /\ TrailInv

\* What typing adds to a trail, and an Enter does not.
LEMMA TrailTyped ==
  ASSUME NEW T, NEW h \in Seq(T), NEW c \in Seq(T), NEW x \in T
  PROVE  h \o Append(c, x) = Append(h \o c, x)
OBVIOUS
LEMMA TrailSubmitted ==
  ASSUME NEW T, NEW h \in Seq(T), NEW c \in Seq(T)
  PROVE  (h \o c) \o <<>> = h \o c
OBVIOUS
LEMMA Appended ==
  ASSUME NEW T, NEW q \in Seq(T), NEW x \in T, NEW t \in T
  PROVE  /\ IsIn(Append(q, x), t) <=> IsIn(q, t) \/ x = t
         /\ AtMostOnce(q, t) /\ (x = t => ~IsIn(q, t)) => AtMostOnce(Append(q, x), t)
<1>1. /\ DOMAIN Append(q, x) = DOMAIN q \cup {Len(q) + 1} /\ Len(q) + 1 \notin DOMAIN q
      /\ \A i \in DOMAIN q : Append(q, x)[i] = q[i]
      /\ Append(q, x)[Len(q) + 1] = x
  OBVIOUS
<1> QED BY <1>1, Zenon DEF IsIn, AtMostOnce
LEMMA Prefixed ==
  ASSUME NEW T, NEW h \in Seq(T), NEW c \in Seq(T), NEW t \in T
  PROVE  /\ IsIn(h, t) => IsIn(h \o c, t)
         /\ AtMostOnce(h \o c, t) => AtMostOnce(h, t)
<1>1. \A i \in DOMAIN h : i \in DOMAIN (h \o c) /\ (h \o c)[i] = h[i]
  OBVIOUS
<1> QED BY <1>1, Zenon DEF IsIn, AtMostOnce

\* A text that can be confirmed is alone in the buffer.
LEMMA AloneInBuffer ==
  ASSUME P!PanesAssumption, NEW s \in Confirmable, s \in MultiLine
  PROVE  MultiLine = {s}
<1>1. \A x : P!Cardinality(x) = Cardinality(x) /\ (P!IsFiniteSet(x) <=> IsFiniteSet(x))
  BY DEF P!Cardinality, Cardinality, IsFiniteSet, P!IsFiniteSet
<1>2. IsFiniteSet(MultiLine) /\ ~(Cardinality(MultiLine) > 1)
  BY <1>1 DEF Confirmable, P!SharesBuffer, P!PanesAssumption
<1>3. Cardinality(MultiLine) \in Nat /\ Cardinality(MultiLine) # 0
  BY <1>2, FS_CardinalityType, FS_EmptySet
<1>4. Cardinality(MultiLine) = 1
  BY <1>2, <1>3
<1>5. PICK x : MultiLine = {x}
  BY <1>2, <1>4, FS_Singleton
<1> QED BY <1>5

LEMMA NothingTyped ==
  ASSUME SendInv, \A p \in Pane : Trail(p)' = Trail(p),
         \A p \in Pane, t \in Sender : IsIn(heard[p], t) => IsIn(heard'[p], t),
         \A t \in Confirmable :
           /\ send'[t].pane = send[t].pane
           /\ send'[t].pc \in {"idle", "paste"} => send[t].pc \in {"idle", "paste"}
           /\ send'[t].pc \in {"enter", "look"} => send[t].pc \in {"enter", "look"}
           /\ send'[t].pc = "said" /\ send'[t].said = "empty" =>
                (send[t].pc = "said" /\ send[t].said = "empty") \/ IsIn(heard'[send[t].pane], t)
  PROVE  TrailInv'
<1> SUFFICES ASSUME NEW t \in Confirmable
             PROVE  /\ AtMostOnce(Trail(send[t].pane), t)'
                    /\ (send[t].pc \in {"idle", "paste"} => ~IsIn(Trail(send[t].pane), t))'
                    /\ (send[t].pc \in {"enter", "look"} => IsIn(Trail(send[t].pane), t))'
                    /\ (send[t].pc = "said" /\ send[t].said = "empty" => IsIn(heard[send[t].pane], t))'
  BY DEF TrailInv, Confirmable, P!SharesBuffer
<1>1. PICK p \in Pane : p = send[t].pane
  BY DEF Confirmable, SendInv, SendShape, Sending
<1>2. t \in Sender /\ send'[t].pane = p
  BY <1>1 DEF Confirmable
<1>3. Trail(send[t].pane)' = Trail(p)
  BY <1>2 DEF Trail
<1>4. /\ AtMostOnce(Trail(p), t)
      /\ send[t].pc \in {"idle", "paste"} => ~IsIn(Trail(p), t)
      /\ send[t].pc \in {"enter", "look"} => IsIn(Trail(p), t)
      /\ send[t].pc = "said" /\ send[t].said = "empty" => IsIn(heard[p], t)
  BY <1>1 DEF SendInv, TrailInv
<1>5. AtMostOnce(Trail(send[t].pane)', t)
  BY <1>3, <1>4
<1>6. IsIn(Trail(send[t].pane)', t) <=> IsIn(Trail(p), t)
  BY <1>3
<1>7. send'[t].pc = "said" /\ send'[t].said = "empty" => IsIn(heard'[p], t)
  BY <1>1, <1>2, <1>4
<1> QED BY <1>2, <1>4, <1>5, <1>6, <1>7 DEF IsIn, AtMostOnce

LEMMA Types ==
  ASSUME SendInv, NEW s \in Sender, NEW x \in Sender, s \in Confirmable \/ x \in Confirmable => x = s,
         P!Typed(send[s].pane, x), heard' = heard, send[s].pc \in {"idle", "paste"},
         send' = [send EXCEPT ![s].pc = "enter"]
  PROVE  TrailInv'
<1> SUFFICES ASSUME NEW t \in Confirmable
             PROVE  /\ AtMostOnce(Trail(send[t].pane), t)'
                    /\ (send[t].pc \in {"idle", "paste"} => ~IsIn(Trail(send[t].pane), t))'
                    /\ (send[t].pc \in {"enter", "look"} => IsIn(Trail(send[t].pane), t))'
                    /\ (send[t].pc = "said" /\ send[t].said = "empty" => IsIn(heard[send[t].pane], t))'
  BY DEF TrailInv, Confirmable, P!SharesBuffer
<1>1. PICK p \in Pane : p = send[t].pane
  BY DEF Confirmable, SendInv, SendShape, Sending
<1>2. PICK q \in Pane : q = send[s].pane
  BY DEF SendInv, SendShape, Sending
<1>3. /\ t \in Sender /\ send'[t].pane = p /\ send'[s].pc = "enter" /\ heard' = heard
      /\ t # s => send'[t] = send[t]
  BY <1>1 DEF Confirmable, SendInv, SendShape, Sending
<1>4. Trail(send[t].pane)' = heard[p] \o composer'[p]
  BY <1>3 DEF Trail
<1>5. heard[p] \in Seq(Sender) /\ composer[p] \in Seq(Sender) /\ Trail(p) \in Seq(Sender)
  BY DEF SendInv, SendShape, Trail
<1> DEFINE old == Trail(p)
           new == heard[p] \o composer'[p]
<1>6. /\ p = q => new = Append(old, x)
      /\ p # q => new = old
  <2>1. ASSUME p = q PROVE new = Append(old, x)
    <3>1. composer'[p] = Append(composer[p], x)
      BY <1>2, <2>1 DEF P!Typed, SendInv, SendShape
    <3>2. heard[p] \o Append(composer[p], x) = Append(heard[p] \o composer[p], x)
      <4>1. \A h, c \in Seq(Sender) : h \o Append(c, x) = Append(h \o c, x)
        BY TrailTyped
      <4> QED BY <1>5, <4>1
    <3> QED BY <3>1, <3>2 DEF Trail
  <2>2. ASSUME p # q PROVE new = old
    BY <1>2, <2>2 DEF P!Typed, SendInv, SendShape, Trail
  <2> QED BY <2>1, <2>2
<1>7. /\ AtMostOnce(Trail(p), t)
      /\ send[t].pc \in {"idle", "paste"} => ~IsIn(Trail(p), t)
      /\ send[t].pc \in {"enter", "look"} => IsIn(Trail(p), t)
      /\ send[t].pc = "said" /\ send[t].said = "empty" => IsIn(heard[p], t)
  BY <1>1 DEF SendInv, TrailInv
<1>8. x = t => t = s
  OBVIOUS
<1> HIDE DEF old, new
<1>13. /\ IsIn(Append(old, x), t) <=> IsIn(old, t) \/ x = t
       /\ AtMostOnce(old, t) /\ (x = t => ~IsIn(old, t)) => AtMostOnce(Append(old, x), t)
  <2>1. old \in Seq(Sender)
    BY <1>5 DEF old
  <2> QED BY <1>3, <2>1, Appended
<1>14. Trail(send[t].pane)' = new
  BY <1>4 DEF new
<1>15. x = t => send[t].pc \in {"idle", "paste"} /\ AtMostOnce(old, t) /\ ~IsIn(old, t)
  BY <1>7, <1>8 DEF old
<1>16. AtMostOnce(old, t)
  BY <1>7 DEF old
<1>17. AtMostOnce(new, t) /\ (IsIn(new, t) <=> IsIn(old, t) \/ (p = q /\ x = t))
  <2>1. CASE p = q
    BY <1>6, <1>13, <1>15, <1>16, <2>1
  <2>2. CASE p # q
    BY <1>6, <1>16, <2>2
  <2> QED BY <2>1, <2>2
<1>9. AtMostOnce(Trail(send[t].pane)', t)
  BY <1>14, <1>17
<1>10. IsIn(Trail(send[t].pane)', t) <=> IsIn(Trail(p), t) \/ (p = q /\ x = t)
  BY <1>14, <1>17 DEF old
<1>11. t = s => p = q /\ x = t
  BY <1>1, <1>2
<1>12. (send'[t].pc = "said" /\ send'[t].said = "empty" => IsIn(heard'[p], t))
  BY <1>3, <1>7
<1> QED BY <1>3, <1>7, <1>8, <1>9, <1>10, <1>11, <1>12 DEF IsIn, AtMostOnce

LEMMA SendInit == P!PanesAssumption /\ P!Init => SendInv
<1> SUFFICES ASSUME P!PanesAssumption, P!Init PROVE SendInv
  OBVIOUS
<1>1. SendShape
  BY DEF P!Init, P!PanesAssumption, SendShape, Sending
<1>2. ASSUME NEW s \in Confirmable
      PROVE  send[s].pc = "idle" /\ Trail(send[s].pane) = <<>>
  <2>1. s \in Sender /\ send[s] \in [pc : {"idle"}, pane : Pane, left : {Retries}, said : {"nothing"}]
    BY DEF Confirmable, P!Init
  <2>2. PICK p \in Pane : p = send[s].pane
    BY <2>1
  <2>3. heard[p] = <<>> /\ composer[p] = <<>>
    BY DEF P!Init
  <2>4. <<>> \o <<>> = <<>>
    OBVIOUS
  <2> QED BY <2>1, <2>2, <2>3, <2>4 DEF Trail
<1>3. \A t : AtMostOnce(<<>>, t) /\ ~IsIn(<<>>, t)
  BY DEF AtMostOnce, IsIn
<1>4. TrailInv
  BY <1>2, <1>3 DEF TrailInv
<1> QED BY <1>1, <1>4 DEF SendInv

LEMMA Submits ==
  ASSUME SendInv, NEW p \in Pane, P!Submitted(p)
  PROVE  /\ composer' \in [Pane -> Seq(Sender)] /\ heard' \in [Pane -> Seq(Sender)]
         /\ \A q \in Pane : Trail(q)' = Trail(q)
         /\ \A q \in Pane, t \in Sender : IsIn(heard[q], t) => IsIn(heard'[q], t)
<1>1. composer \in [Pane -> Seq(Sender)] /\ heard \in [Pane -> Seq(Sender)]
  BY DEF SendInv, SendShape
<1>2. heard[p] \o composer[p] \in Seq(Sender) /\ <<>> \in Seq(Sender)
  BY <1>1
<1>3. /\ composer' \in [Pane -> Seq(Sender)] /\ heard' \in [Pane -> Seq(Sender)]
      /\ heard'[p] = heard[p] \o composer[p] /\ composer'[p] = <<>>
      /\ \A q \in Pane \ {p} : heard'[q] = heard[q] /\ composer'[q] = composer[q]
  BY <1>1, <1>2 DEF P!Submitted
<1>4. ASSUME NEW q \in Pane PROVE heard'[q] \o composer'[q] = heard[q] \o composer[q]
  <2>1. CASE q = p
    <3>1. (heard[p] \o composer[p]) \o <<>> = heard[p] \o composer[p]
      BY <1>1, TrailSubmitted
    <3> QED BY <1>3, <2>1, <3>1
  <2>2. CASE q # p
    BY <1>3, <2>2
  <2> QED BY <2>1, <2>2
<1>5. ASSUME NEW q \in Pane, NEW t \in Sender, IsIn(heard[q], t) PROVE IsIn(heard'[q], t)
  <2>1. CASE q = p
    <3>1. IsIn(heard[p] \o composer[p], t)
      BY <1>1, <1>5, <2>1, Prefixed
    <3> QED BY <1>3, <2>1, <3>1
  <2>2. CASE q # p
    BY <1>3, <1>5, <2>2
  <2> QED BY <2>1, <2>2
<1>6. \A q \in Pane : Trail(q)' = Trail(q)
  BY <1>4 DEF Trail
<1> QED BY <1>3, <1>5, <1>6

LEMMA SendStep == P!PanesAssumption /\ SendInv /\ [P!Next]_P!vars => SendInv'
<1> SUFFICES ASSUME P!PanesAssumption, SendInv, [P!Next]_P!vars PROVE SendInv'
  OBVIOUS
<1>0. /\ composer \in [Pane -> Seq(Sender)] /\ heard \in [Pane -> Seq(Sender)]
      /\ buffer \in MultiLine \cup {P!NoText} /\ send \in [Sender -> Sending]
      /\ \A s \in Sender : send[s].pc = "paste" => s \in MultiLine
      /\ P!NoText \notin Sender /\ MultiLine \subseteq Sender
  BY DEF SendInv, SendShape, P!PanesAssumption
<1>1. CASE UNCHANGED <<composer, heard, buffer, send>>
  <2>1. TrailInv'
    BY <1>1, NothingTyped DEF Trail
  <2> QED BY <1>0, <1>1, <2>1 DEF SendInv, SendShape
<1>2. ASSUME NEW s \in Sender, NEW r \in Sending, send' = [send EXCEPT ![s] = r],
             r.pane = send[s].pane, UNCHANGED <<composer, heard>>, buffer' \in MultiLine \cup {P!NoText},
             r.pc = "paste" => s \in MultiLine,
             r.pc \in {"idle", "paste"} => send[s].pc \in {"idle", "paste"},
             r.pc \in {"enter", "look"} => send[s].pc \in {"enter", "look"},
             r.pc = "said" /\ r.said = "empty" /\ s \in Confirmable => IsIn(heard[send[s].pane], s)
      PROVE  SendInv'
  <2>1. SendShape'
    BY <1>0, <1>2 DEF SendShape
  <2>2. \A p \in Pane : Trail(p)' = Trail(p)
    BY <1>2 DEF Trail
  <2>3. \A t \in Sender : send'[t] = IF t = s THEN r ELSE send[t]
    BY <1>0, <1>2
  <2>4. Confirmable \subseteq Sender
    BY DEF Confirmable
  <2>5. TrailInv'
    BY <1>2, <2>2, <2>3, <2>4, NothingTyped
  <2> QED BY <2>1, <2>5 DEF SendInv
<1>3. ASSUME NEW s \in Sender, NEW v \in {"send-failed", "empty", "unknown", "pending"}, P!Says(s, v)
      PROVE  \E r \in Sending : /\ send' = [send EXCEPT ![s] = r] /\ r.pane = send[s].pane
                                 /\ r.pc = "said" /\ r.said = v
  <2> DEFINE o == send[s]
             r == [o EXCEPT !.pc = "said", !.said = v]
  <2>1. o \in Sending
    BY <1>0
  <2>2. r \in Sending /\ r.pane = o.pane /\ r.pc = "said" /\ r.said = v
    BY <2>1 DEF Sending
  <2>3. send' = [send EXCEPT ![s] = r]
    BY <1>3, <1>0 DEF P!Says
  <2> HIDE DEF r
  <2> QED BY <2>2, <2>3
<1>4. ASSUME NEW s \in Sender, NEW pc \in {"paste", "enter", "look"}, send' = [send EXCEPT ![s].pc = pc]
      PROVE  \E r \in Sending : send' = [send EXCEPT ![s] = r] /\ r.pane = send[s].pane /\ r.pc = pc
  <2> DEFINE o == send[s]
             r == [o EXCEPT !.pc = pc]
  <2>1. o \in Sending
    BY <1>0
  <2>2. r \in Sending /\ r.pane = o.pane /\ r.pc = pc
    BY <2>1 DEF Sending
  <2>3. send' = [send EXCEPT ![s] = r]
    BY <1>4, <1>0
  <2> HIDE DEF r
  <2> QED BY <2>2, <2>3
<1>5. ASSUME NEW s \in Sender, P!TypeLine(s) PROVE SendInv'
  <2>1. CASE P!Says(s, "send-failed") /\ UNCHANGED composer
    <3>1. UNCHANGED <<heard, buffer>>
      BY <1>5 DEF P!TypeLine
    <3> QED BY <1>0, <1>2, <1>3, <2>1, <3>1
  <2>2. CASE P!Typed(send[s].pane, s) /\ send' = [send EXCEPT ![s].pc = "enter"]
    <3>1. UNCHANGED <<heard, buffer>> /\ send[s].pc = "idle"
      BY <1>5 DEF P!TypeLine, P!At
    <3>2. TrailInv'
      BY <2>2, <3>1, Types
    <3>3. composer' \in [Pane -> Seq(Sender)]
      BY <1>0, <2>2 DEF P!Typed, Sending
    <3>4. PICK r \in Sending : send' = [send EXCEPT ![s] = r] /\ r.pc = "enter"
      BY <1>4, <2>2
    <3>5. SendShape'
      BY <1>0, <3>1, <3>3, <3>4 DEF SendShape
    <3> QED BY <3>2, <3>5 DEF SendInv
  <2> QED BY <1>5, <2>1, <2>2 DEF P!TypeLine
<1>6. ASSUME NEW s \in Sender, P!LoadBuffer(s) PROVE SendInv'
  <2>1. /\ UNCHANGED <<composer, heard>> /\ buffer' = s /\ s \in MultiLine /\ send[s].pc = "idle"
        /\ send' = [send EXCEPT ![s].pc = "paste"]
    BY <1>6 DEF P!LoadBuffer, P!At
  <2> QED BY <1>0, <1>2, <1>4, <2>1
<1>7. ASSUME NEW s \in Sender, P!PasteBuffer(s) PROVE SendInv'
  <2>1. send[s].pc = "paste" /\ s \in MultiLine /\ heard' = heard
    BY <1>0, <1>7 DEF P!PasteBuffer, P!At
  <2>2. CASE buffer = P!NoText
    BY <1>0, <1>2, <1>3, <1>7, <2>1, <2>2 DEF P!PasteBuffer
  <2>3. CASE buffer # P!NoText
    <3>1. /\ P!Typed(send[s].pane, buffer) /\ buffer' = P!NoText /\ buffer \in MultiLine
          /\ send' = [send EXCEPT ![s].pc = "enter"]
      BY <1>0, <1>7, <2>3 DEF P!PasteBuffer
    <3>2. s \in Confirmable \/ buffer \in Confirmable => buffer = s
      BY <2>1, <3>1, AloneInBuffer
    <3>3. PICK x \in Sender : x = buffer
      BY <1>0, <3>1
    <3>4. TrailInv'
      BY <2>1, <3>1, <3>2, <3>3, Types
    <3>5. composer' \in [Pane -> Seq(Sender)]
      BY <1>0, <3>1, <3>3 DEF P!Typed, Sending
    <3>6. PICK r \in Sending : send' = [send EXCEPT ![s] = r] /\ r.pc = "enter"
      BY <1>4, <3>1
    <3>7. SendShape'
      BY <1>0, <2>1, <3>1, <3>5, <3>6 DEF SendShape
    <3> QED BY <3>4, <3>7 DEF SendInv
  <2> QED BY <2>2, <2>3
<1>8. ASSUME NEW s \in Sender, P!Enter(s) PROVE SendInv'
  <2>1. PICK p \in Pane : p = send[s].pane
    BY <1>0 DEF Sending
  <2>2. send[s].pc = "enter" /\ send' = [send EXCEPT ![s].pc = "look"] /\ buffer' = buffer
        /\ (P!Submitted(p) \/ UNCHANGED <<composer, heard>>)
    BY <1>8, <2>1 DEF P!Enter, P!At
  <2>3. /\ composer' \in [Pane -> Seq(Sender)] /\ heard' \in [Pane -> Seq(Sender)]
        /\ \A q \in Pane : Trail(q)' = Trail(q)
        /\ \A q \in Pane, t \in Sender : IsIn(heard[q], t) => IsIn(heard'[q], t)
    <3>1. CASE P!Submitted(p)
      BY <3>1, Submits
    <3>2. CASE UNCHANGED <<composer, heard>>
      BY <1>0, <3>2 DEF Trail
    <3> QED BY <2>2, <3>1, <3>2
  <2>4. PICK r \in Sending : send' = [send EXCEPT ![s] = r] /\ r.pane = send[s].pane /\ r.pc = "look"
    BY <1>4, <2>2
  <2>5. \A t \in Sender : send'[t] = IF t = s THEN r ELSE send[t]
    BY <1>0, <2>4
  <2>6. Confirmable \subseteq Sender
    BY DEF Confirmable
  <2>7. TrailInv'
    BY <2>2, <2>3, <2>4, <2>5, <2>6, NothingTyped
  <2>8. SendShape'
    BY <1>0, <2>2, <2>3, <2>4, <2>5 DEF SendShape
  <2> QED BY <2>7, <2>8 DEF SendInv
<1>9. ASSUME NEW s \in Sender, P!Look(s) PROVE SendInv'
  <2> DEFINE o == send[s]
  <2>1. o \in Sending /\ o.pc = "look" /\ UNCHANGED <<composer, heard, buffer>>
    BY <1>0, <1>9 DEF P!Look, P!At
  <2>2. PICK p \in Pane : p = o.pane
    BY <2>1 DEF Sending
  <2>3. CASE send' = [send EXCEPT ![s] = [pc |-> P!AfterPending(s), pane |-> @.pane,
                                          left |-> @.left - 1, said |-> "pending"]]
    <3> DEFINE r == [pc |-> P!AfterPending(s), pane |-> o.pane, left |-> o.left - 1, said |-> "pending"]
    <3>1. r \in Sending /\ r.pane = o.pane /\ r.pc \in {"said", "enter"} /\ r.said = "pending"
      BY <2>1 DEF Sending, P!AfterPending
    <3>2. send' = [send EXCEPT ![s] = r]
      BY <1>0, <2>3
    <3> HIDE DEF r
    <3> QED BY <1>0, <1>2, <2>1, <3>1, <3>2
  <2>4. CASE P!ComposerState(o.pane) = "empty" /\ P!Says(s, "empty")
    <3>1. composer[p] = <<>>
      BY <2>2, <2>4 DEF P!ComposerState
    <3>2. heard[p] \o <<>> = heard[p]
      BY <1>0
    <3>3. s \in Confirmable => IsIn(heard[o.pane], s)
      BY <2>1, <2>2, <3>1, <3>2 DEF SendInv, TrailInv, Trail
    <3> QED BY <1>0, <1>2, <1>3, <2>1, <2>4, <3>3
  <2>5. CASE P!Says(s, "unknown")
    <3>1. PICK r \in Sending : /\ send' = [send EXCEPT ![s] = r] /\ r.pane = send[s].pane
                               /\ r.pc = "said" /\ r.said = "unknown"
      BY <1>3, <2>5
    <3> QED BY <1>0, <1>2, <2>1, <3>1
  <2> QED BY <1>9, <2>3, <2>4, <2>5 DEF P!Look
<1>10. ASSUME NEW p \in Pane, P!RawEnter(p) PROVE SendInv'
  <2>1. P!Submitted(p) /\ UNCHANGED <<buffer, send>>
    BY <1>10 DEF P!RawEnter
  <2>2. /\ composer' \in [Pane -> Seq(Sender)] /\ heard' \in [Pane -> Seq(Sender)]
        /\ \A q \in Pane : Trail(q)' = Trail(q)
        /\ \A q \in Pane, t \in Sender : IsIn(heard[q], t) => IsIn(heard'[q], t)
    BY <2>1, Submits
  <2>3. TrailInv'
    BY <2>1, <2>2, NothingTyped
  <2> QED BY <1>0, <2>1, <2>2, <2>3 DEF SendInv, SendShape
<1>11. ASSUME (\E c \in Client : P!Watch(c) \/ P!Leave(c))
              \/ (\E h \in Hub : P!Opened(h) \/ P!OpenFailed(h) \/ P!PaneGone(h))
       PROVE  SendInv'
  <2>1. UNCHANGED <<composer, heard, buffer, send>>
    BY <1>11 DEF P!Watch, P!Leave, P!Opened, P!OpenFailed, P!PaneGone, P!composing
  <2> QED BY <1>1, <2>1
<1>12. CASE UNCHANGED P!vars
  BY <1>1, <1>12 DEF P!vars, P!composing
<1> QED BY <1>5, <1>6, <1>7, <1>8, <1>9, <1>10, <1>11, <1>12 DEF P!Next

\* A text reaches the agent it was sent to once at most, and once when its send saw the
\* composer empty, whatever Enters are retried, swallowed or pressed by somebody else
\* (tmux.js 212, 236).
THEOREM TextsAreGivenOnce == P!PanesAssumption => (P!Spec => []P!SentOnce)
<1> SUFFICES ASSUME P!PanesAssumption PROVE P!Spec => []P!SentOnce
  OBVIOUS
<1>1. ASSUME SendInv PROVE P!SentOnce
  <2> SUFFICES ASSUME NEW s \in Confirmable
               PROVE  /\ P!Given(send[s].pane, s) <= 1
                      /\ P!At(s, "said") /\ send[s].said = "empty" => P!Given(send[s].pane, s) = 1
    BY DEF P!SentOnce, Confirmable
  <2>1. PICK p \in Pane : p = send[s].pane
    BY <1>1 DEF Confirmable, SendInv, SendShape, Sending
  <2> DEFINE there == {i \in DOMAIN heard[p] : heard[p][i] = s}
  <2>2. AtMostOnce(heard[p], s)
    <3>1. heard[p] \in Seq(Sender) /\ composer[p] \in Seq(Sender) /\ s \in Sender
      BY <1>1 DEF SendInv, SendShape, Confirmable
    <3>2. AtMostOnce(heard[p] \o composer[p], s)
      BY <1>1, <2>1 DEF SendInv, TrailInv, Trail
    <3> QED BY <3>1, <3>2, Prefixed
  <2>3. P!Given(p, s) = Cardinality(there)
    BY DEF P!Given, P!Cardinality, Cardinality, P!IsFiniteSet, IsFiniteSet
  <2>4. there = {} \/ \E i : there = {i}
    BY <2>2 DEF AtMostOnce
  <2>5. IsIn(heard[p], s) => there # {}
    BY DEF IsIn
  <2> HIDE DEF there
  <2>6. Cardinality(there) <= 1 /\ (there # {} => Cardinality(there) = 1)
    <3>1. CASE there = {}
      BY <3>1, FS_EmptySet
    <3>2. CASE \E i : there = {i}
      <4>1. PICK i : there = {i}
        BY <3>2
      <4>2. Cardinality({i}) = 1
        BY FS_Singleton
      <4> QED BY <4>1, <4>2
    <3> QED BY <2>4, <3>1, <3>2
  <2>7. P!At(s, "said") /\ send[s].said = "empty" => IsIn(heard[p], s)
    BY <1>1, <2>1 DEF SendInv, TrailInv, P!At
  <2> QED BY <2>1, <2>3, <2>5, <2>6, <2>7
<1>2. P!PanesAssumption /\ SendInv /\ [P!Next]_P!vars => SendInv'
  BY SendStep
<1> QED BY <1>1, <1>2, SendInit, PTL DEF P!Spec

-----------------------------------------------------------------------------
CONSTANTS Caller, Sched, CardKey, FailKey, MaxLosses, MaxCrashes
VARIABLES lock, call, orphans, claimed, told, wakes, spare, stuck, post, screen, losses, crashes
H == INSTANCE Hooks WITH keys <- claimed

Run == [pc : {"idle", "runs", "waits", "retry"}, child : {"none", "up", "gone"},
        ok : BOOLEAN, canceled : BOOLEAN]
HookShape ==
  /\ lock \in Caller \cup {H!Nobody} /\ call \in [Caller -> Run]
  /\ claimed \subseteq H!Key /\ told \subseteq H!Key /\ stuck \subseteq claimed
  /\ wakes \in [CardKey -> Nat] /\ spare \in [CardKey -> Nat]
  /\ post \in [stage : {"none", "ask", "deliver", "save", "claim"}, key : H!Key]
  /\ screen \in [read : {"no", "sent", "answered"}, stale : BOOLEAN, behind : BOOLEAN,
                 nudged : BOOLEAN, says : BOOLEAN]
(* Whoever has a child holds the lock. *)
LockInv == \A c \in Caller : (call[c].pc = "runs" <=> lock = c) /\ (call[c].child # "none" <=> lock = c)
(* A handler past its delivery has told, and its key is not claimed yet; a key whose owner was
   not told is one a recovery could not forget. *)
Told == post.stage \in {"save", "claim"}
KeyInv ==
  /\ claimed \subseteq told \cup stuck
  /\ Told => post.key \in told
  /\ Told \/ post.stage = "deliver" => post.key \notin claimed
(* A wake no claim stands for is paid. *)
PaidInv ==
  \A k \in CardKey : /\ wakes[k] <= 1 + spare[k]
                     /\ k \in claimed \/ (Told /\ post.key = k) \/ wakes[k] <= spare[k]
ScreenInv ==
  /\ H!ScreenCurrent
  /\ screen.behind /\ screen.read = "answered" => screen.nudged \/ screen.stale
HookInv == HookShape /\ LockInv /\ KeyInv /\ PaidInv /\ ScreenInv

LEMMA HookInit == H!HooksAssumption /\ H!Init => HookInv
<1> SUFFICES ASSUME H!HooksAssumption, H!Init PROVE HookInv
  OBVIOUS
<1>1. HookShape
  BY DEF H!Init, HookShape, Run, H!NoCall, H!NoPost, H!Key
<1>2. LockInv
  BY DEF H!Init, LockInv, H!NoCall, H!HooksAssumption
<1>3. KeyInv /\ PaidInv
  BY DEF H!Init, KeyInv, PaidInv, Told, H!NoPost
<1>4. ScreenInv
  BY DEF H!Init, ScreenInv, H!ScreenCurrent
<1> QED BY <1>1, <1>2, <1>3, <1>4 DEF HookInv

\* The lock and the child, through starts, cancels, exits, timeouts and crashes.
LEMMA LockKeeps == H!HooksAssumption /\ HookInv /\ [H!Next]_H!vars =>
  lock' \in Caller \cup {H!Nobody} /\ call' \in [Caller -> Run] /\ LockInv'
<1> SUFFICES ASSUME H!HooksAssumption, HookInv, [H!Next]_H!vars
             PROVE  lock' \in Caller \cup {H!Nobody} /\ call' \in [Caller -> Run] /\ LockInv'
  OBVIOUS
<1>0. lock \in Caller \cup {H!Nobody} /\ call \in [Caller -> Run] /\ LockInv /\ H!Nobody \notin Caller
  BY DEF HookInv, HookShape, H!HooksAssumption
<1>1. CASE UNCHANGED <<lock, call>>
  BY <1>0, <1>1 DEF LockInv
<1>2. ASSUME NEW c \in Caller, H!Starts(c) PROVE lock' = c /\ call' \in [Caller -> Run] /\ LockInv'
  <2>1. PICK r \in Run : call' = [call EXCEPT ![c] = r] /\ r.pc = "runs" /\ r.child # "none"
    <3>1. /\ H!Spawned(c) \in Run /\ H!Spawned(c).pc = "runs" /\ H!Spawned(c).child = "up"
          /\ H!NotSpawned(c) \in Run /\ H!NotSpawned(c).pc = "runs" /\ H!NotSpawned(c).child = "gone"
      BY DEF H!Spawned, H!NotSpawned, Run
    <3> QED BY <1>2, <3>1 DEF H!Starts
  <2>2. lock = H!Nobody /\ lock' = c
    BY <1>2 DEF H!Starts
  <2> QED BY <1>0, <2>1, <2>2 DEF LockInv
<1>3. ASSUME NEW c \in Caller, H!Refused(c) PROVE lock' = lock /\ call' \in [Caller -> Run] /\ LockInv'
  <2>1. H!NoCall \in Run /\ H!NoCall.pc = "idle" /\ H!NoCall.child = "none"
    BY DEF H!NoCall, Run
  <2>2. lock' = lock /\ call' = [call EXCEPT ![c] = H!NoCall] /\ call[c].pc = "retry"
    BY <1>3 DEF H!Refused
  <2> QED BY <1>0, <2>1, <2>2 DEF LockInv
<1>4. ASSUME NEW c \in Caller, H!Cancels(c) PROVE lock' = lock /\ call' \in [Caller -> Run] /\ LockInv'
  <2>1. lock' = lock /\ lock \in Caller /\ call[c].pc = "idle" /\ lock # c
        /\ call' = [call EXCEPT ![c].pc = "waits", ![lock] = H!Killed(@)]
    BY <1>0, <1>4 DEF H!Cancels, H!LockKept, LockInv
  <2>2. [call[c] EXCEPT !.pc = "waits"] \in Run
    BY <1>0 DEF Run
  <2>3. H!Killed(call[lock]) \in Run /\ H!Killed(call[lock]).pc = call[lock].pc /\ H!Killed(call[lock]).child = "gone"
    BY <1>0, <2>1 DEF Run, H!Killed
  <2>4. call' = [call EXCEPT ![c] = [call[c] EXCEPT !.pc = "waits"], ![lock] = H!Killed(call[lock])]
    BY <1>0, <2>1
  <2> DEFINE q == [call[c] EXCEPT !.pc = "waits"]
             r == H!Killed(call[lock])
  <2>5. /\ q \in Run /\ q.pc = "waits" /\ q.child = call[c].child
        /\ r \in Run /\ r.pc = call[lock].pc /\ r.child = "gone"
    BY <1>0, <2>2, <2>3 DEF Run
  <2>6. call' = [call EXCEPT ![c] = q, ![lock] = r]
    BY <2>4
  <2> HIDE DEF q, r
  <2>7. /\ call' \in [Caller -> Run] /\ call'[c] = q /\ call'[lock] = r
        /\ \A d \in Caller \ {c, lock} : call'[d] = call[d]
    BY <1>0, <2>1, <2>5, <2>6
  <2> QED BY <1>0, <2>1, <2>5, <2>7 DEF LockInv
<1>5. ASSUME NEW c \in Caller, H!ChildExits(c) \/ H!TimesOut(c)
      PROVE  lock' = lock /\ call' \in [Caller -> Run] /\ LockInv'
  <2>1. PICK ok \in BOOLEAN : call' = [call EXCEPT ![c].child = "gone", ![c].ok = ok]
    <3>1. CASE H!ChildExits(c)
      BY <3>1, Zenon DEF H!ChildExits
    <3>2. CASE H!TimesOut(c)
      <4>1. call' = [call EXCEPT ![c].child = "gone", ![c].ok = FALSE]
        BY <3>2 DEF H!TimesOut
      <4> QED BY <4>1, Zenon
    <3> QED BY <1>5, <3>1, <3>2
  <2> DEFINE r == [call[c] EXCEPT !.child = "gone", !.ok = ok]
  <2>3. r \in Run /\ r.pc = call[c].pc /\ r.child = "gone"
    BY <1>0 DEF Run
  <2>4. call' = [call EXCEPT ![c] = r]
    BY <1>0, <2>1
  <2> HIDE DEF r
  <2>2. lock' = lock /\ lock = c
    BY <1>0, <1>5 DEF H!ChildExits, H!TimesOut, LockInv
  <2> QED BY <1>0, <2>2, <2>3, <2>4 DEF LockInv
<1>6. ASSUME NEW c \in Caller, H!Finishes(c) PROVE lock' = H!Nobody /\ call' \in [Caller -> Run] /\ LockInv'
  <2>1. H!NoCall \in Run /\ H!NoCall.pc = "idle" /\ H!NoCall.child = "none"
    BY DEF H!NoCall, Run
  <2>2. /\ lock' = H!Nobody /\ lock = c /\ call' = [H!Freed EXCEPT ![c] = H!NoCall]
    BY <1>0, <1>6 DEF H!Finishes, LockInv
  <2>3. /\ H!Freed \in [Caller -> Run]
        /\ \A d \in Caller : H!Freed[d].child = call[d].child /\ (H!Freed[d].pc = "runs" <=> call[d].pc = "runs")
    <3>1. ASSUME NEW d \in Caller
          PROVE  /\ [call[d] EXCEPT !.pc = "retry"] \in Run /\ [call[d] EXCEPT !.pc = "retry"].pc = "retry"
                 /\ [call[d] EXCEPT !.pc = "retry"].child = call[d].child
      BY <1>0 DEF Run
    <3> QED BY <1>0, <3>1 DEF H!Freed
  <2> QED BY <1>0, <2>1, <2>2, <2>3 DEF LockInv
<1>7. CASE H!Crash
  <2>1. H!NoCall \in Run /\ H!NoCall.pc = "idle" /\ H!NoCall.child = "none"
    BY DEF H!NoCall, Run
  <2> QED BY <1>0, <1>7, <2>1 DEF H!Crash, LockInv
<1>8. CASE H!OrphanExits \/ H!Posts \/ H!Handles \/ H!Paints \/ H!ReadFails \/ \E k \in H!Key : H!Expires(k)
  <2>1. UNCHANGED <<lock, call>>
    BY <1>8 DEF H!OrphanExits, H!Posts, H!Handles, H!Asks, H!Delivers, H!Saves, H!Claims, H!Paints, H!Renders,
       H!ServerReads, H!ReadReturns, H!ReadFails, H!Expires, H!running
  <2> QED BY <1>1, <2>1
<1>9. CASE UNCHANGED H!vars
  BY <1>1, <1>9 DEF H!vars, H!running
<1> QED BY <1>0, <1>2, <1>3, <1>4, <1>5, <1>6, <1>7, <1>8, <1>9 DEF H!Next

\* The screen, through every read, nudge and claim.
LEMMA ScreenKeeps == HookInv /\ [H!Next]_H!vars =>
  screen' \in [read : {"no", "sent", "answered"}, stale : BOOLEAN, behind : BOOLEAN,
               nudged : BOOLEAN, says : BOOLEAN] /\ ScreenInv'
<1> DEFINE Screens == [read : {"no", "sent", "answered"}, stale : BOOLEAN, behind : BOOLEAN,
                       nudged : BOOLEAN, says : BOOLEAN]
<1> SUFFICES ASSUME HookInv, [H!Next]_H!vars PROVE screen' \in Screens /\ ScreenInv'
  OBVIOUS
<1> USE DEF ScreenInv, H!ScreenCurrent
<1>0. screen \in Screens /\ ScreenInv
  BY DEF HookInv, HookShape
<1>1. CASE screen' = screen
  BY <1>0, <1>1
<1>2. CASE screen' = [screen EXCEPT !.behind = TRUE, !.nudged = TRUE]
  BY <1>0, <1>2
<1>3. CASE H!Renders
  BY <1>0, <1>3 DEF H!Renders
<1>4. CASE H!ServerReads
  BY <1>0, <1>4 DEF H!ServerReads
<1>5. CASE H!ReadReturns
  BY <1>0, <1>5 DEF H!ReadReturns, H!NextRead
<1>6. CASE H!ReadFails
  BY <1>0, <1>6 DEF H!ReadFails
<1>7. ASSUME NEW c \in Caller, H!Finishes(c)
      PROVE  screen' = screen \/ screen' = [screen EXCEPT !.behind = TRUE, !.nudged = TRUE]
  BY <1>7 DEF H!Finishes, H!Lands
<1>8. CASE H!Crash \/ H!Claims
  BY <1>2, <1>8 DEF H!Crash, H!Claims
<1>9. ASSUME NEW c \in Caller, H!Starts(c) \/ H!Refused(c) \/ H!Cancels(c) \/ H!ChildExits(c) \/ H!TimesOut(c)
      PROVE  screen' = screen
  BY <1>9 DEF H!Starts, H!Refused, H!Cancels, H!ChildExits, H!TimesOut
<1>10. CASE H!OrphanExits \/ H!Posts \/ H!Asks \/ H!Delivers \/ H!Saves \/ \E k \in H!Key : H!Expires(k)
  BY <1>1, <1>10 DEF H!OrphanExits, H!Posts, H!Asks, H!Delivers, H!Saves, H!Expires
<1>11. CASE UNCHANGED H!vars
  BY <1>1, <1>11 DEF H!vars
<1> QED BY <1>1, <1>2, <1>3, <1>4, <1>5, <1>6, <1>7, <1>8, <1>9, <1>10, <1>11 DEF H!Next, H!Handles, H!Paints

\* Keys that a torn file lost are paid for, and so is a wake whose claim never came.
LEMMA LostKeysPaid ==
  ASSUME wakes \in [CardKey -> Nat], spare \in [CardKey -> Nat], PaidInv, UNCHANGED wakes,
         claimed' \subseteq claimed, NEW K, Told => post.key \in K,
         H!Excuse((claimed \ claimed') \cup K)
  PROVE  spare' \in [CardKey -> Nat] /\ PaidInv'
<1>1. spare' \in [CardKey -> Nat] /\ \A k \in CardKey :
        spare'[k] = IF k \in (claimed \ claimed') \cup K THEN spare[k] + 1 ELSE spare[k]
  BY DEF H!Excuse
<1> SUFFICES ASSUME NEW k \in CardKey
             PROVE  wakes[k] <= 1 + spare'[k] /\ (k \in claimed' \/ wakes[k] <= spare'[k])
  BY <1>1 DEF PaidInv
<1>2. /\ wakes[k] <= 1 + spare[k] /\ wakes[k] \in Nat /\ spare[k] \in Nat
      /\ k \in claimed \/ (Told /\ post.key = k) \/ wakes[k] <= spare[k]
  BY DEF PaidInv
<1> QED BY <1>1, <1>2

\* The keys, what the owner was told and what was paid for it.
LEMMA KeysKeep == H!HooksAssumption /\ HookInv /\ [H!Next]_H!vars => HookInv'
<1> SUFFICES ASSUME H!HooksAssumption, HookInv, [H!Next]_H!vars PROVE HookInv'
  OBVIOUS
<1> DEFINE Posted == [stage : {"none", "ask", "deliver", "save", "claim"}, key : H!Key]
           Count == [CardKey -> Nat]
<1>0. /\ claimed \subseteq H!Key /\ told \subseteq H!Key /\ wakes \in Count /\ spare \in Count
      /\ stuck \subseteq claimed /\ post \in Posted /\ FailKey \in H!Key /\ CardKey \subseteq H!Key /\ FailKey \notin CardKey
      /\ KeyInv /\ PaidInv
  BY DEF HookInv, HookShape, H!HooksAssumption, H!Key
<1> DEFINE Kept == /\ claimed' \subseteq H!Key /\ told' \subseteq H!Key /\ wakes' \in Count /\ spare' \in Count
                   /\ stuck' \subseteq claimed' /\ post' \in Posted /\ KeyInv' /\ PaidInv'
<1>1. Kept => HookInv'
  BY LockKeeps, ScreenKeeps DEF HookInv, HookShape
<1> HIDE DEF Kept
<1>2. ASSUME UNCHANGED <<claimed, told, wakes, spare, stuck, post>> PROVE Kept
  BY <1>0, <1>2 DEF Kept, KeyInv, PaidInv, Told
<1>3. ASSUME UNCHANGED <<claimed, told, wakes, spare, stuck>>, post.stage = "none",
             NEW k \in H!Key, post' = [stage |-> "ask", key |-> k]
      PROVE  Kept
  BY <1>0, <1>3 DEF Kept, KeyInv, PaidInv, Told
<1>4. ASSUME NEW c \in Caller, H!Finishes(c) PROVE Kept
  <2>1. UNCHANGED wakes /\ post.stage = "none" /\ H!Lands(c)
    BY <1>4 DEF H!Finishes, H!Quiet
  <2>2. CASE UNCHANGED <<claimed, told, spare, stuck, post>>
    BY <1>2, <2>1, <2>2
  <2>3. CASE H!Unspoken({FailKey}) /\ UNCHANGED <<spare, post>>
    BY <1>0, <2>1, <2>3 DEF Kept, KeyInv, PaidInv, Told, H!Unspoken
  <2>4. CASE post' = [stage |-> "ask", key |-> FailKey] /\ UNCHANGED <<claimed, told, spare, stuck>>
    BY <1>0, <1>3, <2>1, <2>4
  <2>5. CASE H!StillClaimed({FailKey}) /\ UNCHANGED post
    <3>1. /\ claimed' \subseteq claimed /\ H!Excuse(claimed \ claimed')
          /\ told' = told \ {FailKey} /\ stuck' = (stuck \cup {FailKey}) \cap claimed'
      BY <2>5 DEF H!StillClaimed, H!FailedWrite
    <3>2. ~Told /\ H!Excuse((claimed \ claimed') \cup {})
      <4>1. (claimed \ claimed') \cup {} = claimed \ claimed'
        OBVIOUS
      <4> QED BY <2>1, <3>1, <4>1 DEF Told
    <3>3. spare' \in Count /\ PaidInv'
      BY <1>0, <2>1, <3>1, <3>2, LostKeysPaid
    <3> QED BY <1>0, <2>1, <2>5, <3>1, <3>3 DEF Kept, KeyInv, Told
  <2> QED BY <2>1, <2>2, <2>3, <2>4, <2>5 DEF H!Lands
<1>5. ASSUME H!Posts PROVE Kept
  BY <1>0, <1>3, <1>5 DEF H!Posts, H!Quiet, H!store
<1>6. ASSUME H!Asks PROVE Kept
  <2>1. UNCHANGED <<claimed, told, wakes, spare, stuck>> /\ post.stage = "ask"
    BY <1>6 DEF H!Asks, H!Asked
  <2>2. CASE post' = H!NoPost
    BY <1>0, <2>1, <2>2 DEF Kept, KeyInv, PaidInv, Told, H!NoPost
  <2>3. CASE post.key \notin claimed /\ post' = [post EXCEPT !.stage = "deliver"]
    BY <1>0, <2>1, <2>3 DEF Kept, KeyInv, PaidInv, Told
  <2> QED BY <1>6, <2>2, <2>3 DEF H!Asks, H!Seen
<1>7. ASSUME H!Delivers PROVE Kept
  <2>1. post.stage = "deliver" /\ UNCHANGED <<claimed, spare, stuck>> /\ post.key \notin claimed
    BY <1>0, <1>7 DEF H!Delivers, KeyInv
  <2>2. CASE /\ wakes' = [k \in CardKey |-> IF k = post.key THEN wakes[k] + 1 ELSE wakes[k]]
             /\ told' = told \cup {post.key} /\ post' = [post EXCEPT !.stage = "save"]
    BY <1>0, <2>1, <2>2 DEF Kept, KeyInv, PaidInv, Told
  <2>3. CASE post' = H!NoPost /\ UNCHANGED <<wakes, told>>
    BY <1>0, <2>1, <2>3 DEF Kept, KeyInv, PaidInv, Told, H!NoPost
  <2> QED BY <1>7, <2>2, <2>3 DEF H!Delivers
<1>8. ASSUME H!Saves PROVE Kept
  <2>1. post.stage = "save" /\ UNCHANGED <<claimed, told, wakes, stuck>>
    BY <1>8 DEF H!Saves
  <2>2. CASE post' = [post EXCEPT !.stage = "claim"] /\ UNCHANGED spare
    BY <1>0, <2>1, <2>2 DEF Kept, KeyInv, PaidInv, Told
  <2>3. CASE post' = H!NoPost /\ H!Excuse({post.key})
    BY <1>0, <2>1, <2>3 DEF Kept, KeyInv, PaidInv, Told, H!NoPost, H!Excuse
  <2> QED BY <1>8, <2>2, <2>3 DEF H!Saves
<1>9. ASSUME H!Claims PROVE Kept
  <2>1. /\ post.stage = "claim" /\ post' = H!NoPost /\ UNCHANGED <<told, wakes>>
        /\ stuck' = stuck \cap claimed'
    BY <1>9 DEF H!Claims
  <2>2. CASE claimed' = claimed \cup {post.key} /\ UNCHANGED spare
    BY <1>0, <2>1, <2>2 DEF Kept, KeyInv, PaidInv, Told, H!NoPost
  <2>3. CASE claimed' \subseteq claimed /\ H!Excuse((claimed \ claimed') \cup {post.key})
    <3>1. Told => post.key \in {post.key}
      OBVIOUS
    <3> QED BY <1>0, <2>1, <2>3, <3>1, LostKeysPaid DEF Kept, KeyInv, Told, H!NoPost
  <2> QED BY <1>9, <2>2, <2>3 DEF H!Claims, H!FailedWrite
<1>10. ASSUME NEW k \in H!Key, H!Expires(k) PROVE Kept
  <2>1. post.stage = "none" /\ H!Unspoken({k}) /\ H!Excuse({k}) /\ UNCHANGED <<wakes, post>>
    BY <1>10 DEF H!Expires, H!Quiet
  <2> QED BY <1>0, <2>1 DEF Kept, KeyInv, PaidInv, Told, H!Unspoken, H!Excuse
<1>11. ASSUME H!Crash PROVE Kept
  <2>1. claimed' \subseteq claimed /\ UNCHANGED <<told, wakes>> /\ post' = H!NoPost
        /\ H!Excuse((claimed \ claimed') \cup H!Interrupted) /\ stuck' = stuck \cap claimed'
    BY <1>11 DEF H!Crash, H!LostByCrash
  <2>2. Told => post.key \in H!Interrupted
    BY DEF Told, H!Interrupted
  <2> QED BY <1>0, <2>1, <2>2, LostKeysPaid DEF Kept, KeyInv, Told, H!NoPost
<1>12. ASSUME NEW c \in Caller, H!Starts(c) \/ H!Refused(c) \/ H!Cancels(c) \/ H!ChildExits(c) \/ H!TimesOut(c)
       PROVE  UNCHANGED <<claimed, told, wakes, spare, stuck, post>>
  BY <1>12 DEF H!Starts, H!Refused, H!Cancels, H!ChildExits, H!TimesOut, H!store
<1>13. ASSUME H!OrphanExits \/ H!Paints \/ H!ReadFails PROVE Kept
  BY <1>2, <1>13 DEF H!OrphanExits, H!Paints, H!Renders, H!ServerReads, H!ReadReturns, H!ReadFails, H!store
<1>14. ASSUME UNCHANGED H!vars PROVE Kept
  BY <1>2, <1>14 DEF H!vars, H!store
<1> QED BY <1>1, <1>2, <1>4, <1>5, <1>6, <1>7, <1>8, <1>9, <1>10, <1>11, <1>12, <1>13, <1>14
        DEF H!Next, H!Handles

\* Of one named hook there is one child of this server at a time, a key that answers
\* "duplicate" is one its owner was told of or one a recovery's failed write left claimed,
\* every wake but the first under a key is paid for, and the screen lacks nothing it does not
\* say it lacks (hooks.js 309, server.js 2536 and 2572, hkmanager.js).
THEOREM HookIsToldOnce ==
  H!HooksAssumption =>
    (H!Spec => [](H!OneAtATime /\ H!NeverSwallowed /\ H!HeardOnce /\ H!ScreenCurrent))
<1> SUFFICES ASSUME H!HooksAssumption
             PROVE  H!Spec => [](H!OneAtATime /\ H!NeverSwallowed /\ H!HeardOnce /\ H!ScreenCurrent)
  OBVIOUS
<1>1. ASSUME HookInv PROVE H!OneAtATime /\ H!NeverSwallowed /\ H!HeardOnce /\ H!ScreenCurrent
  <2> DEFINE Busy == {c \in Caller : call[c].child # "none"}
  <2>1. Busy \subseteq {lock}
    BY <1>1 DEF HookInv, LockInv
  <2>2. Cardinality(Busy) <= 1
    <3>1. Busy = {} \/ Busy = {lock}
      BY <2>1
    <3>2. Cardinality({}) = 0 /\ Cardinality({lock}) = 1
      BY FS_EmptySet, FS_Singleton
    <3> HIDE DEF Busy
    <3> QED BY <3>1, <3>2
  <2>3. H!Cardinality(Busy) = Cardinality(Busy)
    BY DEF H!Cardinality, Cardinality, H!IsFiniteSet, IsFiniteSet
  <2>4. H!OneAtATime
    BY <2>2, <2>3 DEF H!OneAtATime
  <2> QED BY <1>1, <2>4 DEF HookInv, KeyInv, PaidInv, ScreenInv, H!NeverSwallowed, H!HeardOnce
<1>2. H!HooksAssumption /\ HookInv /\ [H!Next]_H!vars => HookInv'
  BY KeysKeep
<1> QED BY <1>1, <1>2, HookInit, PTL DEF H!Spec

-----------------------------------------------------------------------------
CONSTANTS MaxSeq, MaxEnd, MaxReq, Trouble, MaxTrouble
VARIABLES events, seq, pushSeq, queued, shadows, store, ep, used, page, mirror, reqs, pushes,
  shown, due, chosen, troubles
N == INSTANCE Push WITH heard <- shown

Takes == N!Choices \cup {N!Unknown}
Req == [kind : N!Kind, st : {"sent", "ok", "failed"}, ep : Nat, old : Nat, cats : Takes, cat : N!Category,
        on : BOOLEAN, answer : Takes, tap : BOOLEAN, mine : BOOLEAN]
Plain(r, k, e) == /\ r.kind = k /\ r.ep = e /\ r.st = "sent" /\ r.old = 0 /\ r.answer = N!Unknown
                  /\ r.tap = TRUE /\ r.mine = TRUE
(* An endpoint is subscribed once the browser has it. *)
Given(r, n) == r.kind = "subscribe" => r.ep \in 1..n
Phone == [on : BOOLEAN, busy : BOOLEAN, endpoint : Nat, cats : Takes]
BoardShape ==
  /\ MaxSeq \in Nat /\ seq \in 0..MaxSeq /\ pushSeq \in Nat /\ pushSeq <= seq /\ queued \in BOOLEAN
  /\ (\A n \in DOMAIN events : n \in 1..seq) /\ shown \in [1..MaxSeq -> Nat]
  /\ \A p \in pushes : p.seq \in 1..seq
DeviceShape ==
  /\ used \in Nat /\ ep \in 0..used /\ page \in Phone /\ mirror \in Takes /\ chosen \in N!Choices
  /\ store \subseteq [ep : 1..used, cats : N!Choices]
  /\ \A s, t \in store : s.ep = t.ep => s = t
  /\ reqs \subseteq Req /\ \A r \in reqs : Given(r, used)
  /\ pushes \subseteq [ep : 1..used, seq : Nat]
(* What was pushed or shown is behind the scan, or a message the scan leaves alone. *)
Passed(n) == n <= pushSeq \/ n \in shadows
HeardInv ==
  /\ \A p \in pushes : Passed(p.seq) /\ (p.ep = ep => shown[p.seq] = 0)
  /\ \A n \in 1..MaxSeq : shown[n] <= 1 /\ (shown[n] = 1 => Passed(n) /\ n <= seq)
(* What is owed, the device is listed for; and the scan to come meets it. *)
DueInv ==
  \A d \in due :
    /\ \E s \in store : s.ep = ep /\ d.cat \in s.cats
    /\ "archive" \notin troubles => queued /\ d.seq \in DOMAIN events /\ d.seq > pushSeq

(* What is asked for the device's own endpoint, while nothing rotates or overlaps. *)
Kept(x, c) == x = c \/ (x = N!Unknown /\ c = N!Defaults)
Pending(r, e, c) ==
  /\ r.mine
  /\ r.kind = "subscribe" => r.ep = e /\ r.old = 0 /\ Kept(r.cats, c) /\ (r.st = "ok" => r.answer = c)
  /\ r.kind = "prefs" => /\ r.ep = e /\ r.cats \in N!Choices /\ c = N!Flipped(r.cats, r.cat, r.on)
                         /\ (r.on <=> r.cat \notin r.cats) /\ (r.st = "ok" => r.answer = c)
  /\ r.kind = "unsubscribe" => e = 0 /\ r.tap
(* The store has what he chose last, but for the flip that is on its way. *)
StoreAgrees ==
  \A s \in store : s.ep = ep =>
    \/ s.cats = chosen /\ \A r \in reqs : r.kind = "prefs" => r.st = "ok"
    \/ \E r \in reqs : r.kind = "prefs" /\ r.st # "ok" /\ s.cats = r.cats
ChoiceInv ==
  /\ \A q, r \in reqs : q = r
  /\ \A r \in reqs : Pending(r, ep, chosen)
  /\ Kept(mirror, chosen) /\ page.cats \in {N!Unknown, chosen}
  /\ page.endpoint \in {0, ep} \/ \E r \in reqs : r.kind = "unsubscribe"
  /\ StoreAgrees
Calm == troubles \cap {"rotate", "mute", "overlap"} = {}
PushInv == BoardShape /\ DeviceShape /\ HeardInv /\ DueInv /\ (Calm => ChoiceInv)

LEMMA Shapes ==
  /\ N!Unknown \in Takes /\ N!Choices \subseteq Takes /\ N!Defaults \in N!Choices
  /\ \A x \in Takes, c \in N!Category, on \in BOOLEAN : x # N!Unknown => N!Flipped(x, c, on) \in N!Choices
  /\ \A e \in Nat, k \in N!Kind : N!Request(k, e) \in Req /\ Plain(N!Request(k, e), k, e)
<1>1. N!Unknown \in Takes /\ N!Choices \subseteq Takes /\ N!Defaults \in N!Choices
  BY DEF Takes, N!Unknown, N!Choices, N!Defaults, N!Category
<1>2. \A x \in Takes, c \in N!Category, on \in BOOLEAN : x # N!Unknown => N!Flipped(x, c, on) \in N!Choices
  BY DEF Takes, N!Choices, N!Flipped
<1>3. "chat" \in N!Category
  BY DEF N!Category
<1>4. \A e \in Nat, k \in N!Kind : N!Request(k, e) \in Req /\ Plain(N!Request(k, e), k, e)
  BY <1>1, <1>3 DEF N!Request, Req, Plain
<1> QED BY <1>1, <1>2, <1>4

LEMMA PushInit == N!PushAssumption /\ N!Init => PushInv
<1> SUFFICES ASSUME N!PushAssumption, N!Init PROVE PushInv
  OBVIOUS
<1>1. BoardShape
  <2>1. MaxSeq \in Nat /\ DOMAIN << >> = {}
    BY DEF N!PushAssumption
  <2>2. DOMAIN events = {}
    BY <2>1 DEF N!Init
  <2>3. shown \in [1..MaxSeq -> Nat]
    BY DEF N!Init
  <2>4. seq = 0 /\ pushSeq = 0 /\ queued \in BOOLEAN /\ pushes = {}
    BY DEF N!Init
  <2> QED BY <2>1, <2>2, <2>3, <2>4 DEF BoardShape
<1>2. DeviceShape
  <2>1. N!NoPage \in Phone
    BY Shapes DEF N!NoPage, Phone
  <2>2. mirror \in Takes /\ chosen \in N!Choices /\ page \in Phone
    BY <2>1, Shapes DEF N!Init
  <2> QED BY <2>2 DEF N!Init, DeviceShape
<1>3. HeardInv /\ DueInv
  BY DEF N!Init, HeardInv, DueInv
<1>4. ChoiceInv
  BY DEF N!Init, N!NoPage, ChoiceInv, Kept, StoreAgrees
<1> QED BY <1>1, <1>2, <1>3, <1>4 DEF PushInv

\* What the store holds for an endpoint, and what a device subscribing is given.
LEMMA StoreTakes ==
  ASSUME DeviceShape, NEW e \in Nat, NEW old \in Nat, NEW remembered \in Takes
  PROVE  /\ N!Listed(e) => N!CatsOf(e) \in N!Choices /\ \A s \in store : s.ep = e => s.cats = N!CatsOf(e)
         /\ N!Carried(e, old, remembered) \in N!Choices
<1>1. ASSUME NEW x, N!Listed(x)
      PROVE  N!CatsOf(x) \in N!Choices /\ \A s \in store : s.ep = x => s.cats = N!CatsOf(x)
  <2> DEFINE s0 == CHOOSE s \in N!Of(x) : TRUE
  <2>1. s0 \in N!Of(x)
    BY <1>1 DEF N!Listed
  <2>2. N!CatsOf(x) = s0.cats
    BY DEF N!CatsOf
  <2> HIDE DEF s0
  <2> QED BY <2>1, <2>2 DEF N!Of, DeviceShape
<1>2. N!Carried(e, old, remembered) \in N!Choices
  <2>1. N!Defaults \in N!Choices /\ (remembered # N!Unknown => remembered \in N!Choices)
    BY Shapes DEF Takes
  <2> QED BY <1>1, <2>1 DEF N!Carried
<1> QED BY <1>1, <1>2

LEMMA BoardKeeps == PushInv /\ [N!Next]_N!vars => BoardShape'
<1> SUFFICES ASSUME PushInv, [N!Next]_N!vars PROVE BoardShape'
  OBVIOUS
<1> USE DEF BoardShape
<1>0. BoardShape /\ DeviceShape
  BY DEF PushInv
<1>1. ASSUME UNCHANGED N!scanning, shown' = shown, pushes' \subseteq pushes PROVE BoardShape'
  BY <1>0, <1>1 DEF N!scanning
<1>11. ASSUME NEW c, N!Lands(c)
       PROVE  seq' = seq + 1 /\ seq' <= MaxSeq /\ queued' = TRUE /\ \A n \in DOMAIN events' : n \in 1..seq'
  <2>1. seq < MaxSeq /\ seq' = seq + 1 /\ queued' = TRUE
    BY <1>11 DEF N!Lands, N!Scheduled
  <2>2. DOMAIN events' = DOMAIN events \cup {seq + 1}
    BY <1>11 DEF N!Lands
  <2> QED BY <1>0, <2>1, <2>2
<1>21. ASSUME NEW c, N!Lands(c), UNCHANGED <<pushSeq, shown>>,
              \A p \in pushes' : p \in pushes \/ p.seq = seq + 1
       PROVE  BoardShape'
  <2>0. seq' = seq + 1 /\ seq' <= MaxSeq /\ queued' = TRUE
    BY <1>11, <1>21
  <2>1. \A p \in pushes' : p.seq \in 1..seq'
    BY <1>0, <1>21, <2>0
  <2>2. pushSeq' \in Nat /\ pushSeq' <= seq' /\ seq' \in 0..MaxSeq /\ queued' \in BOOLEAN
    BY <1>0, <1>21, <2>0
  <2>3. \A n \in DOMAIN events' : n \in 1..seq'
    BY <1>11, <1>21
  <2> QED BY <1>0, <1>21, <2>1, <2>2, <2>3
<1>2. ASSUME NEW c \in N!Category, N!Event(c) PROVE BoardShape'
  BY <1>21, <1>2 DEF N!Event
<1>3. CASE N!Message
  <2>1. \A p \in pushes' : p \in pushes \/ p.seq = seq + 1
    BY <1>3 DEF N!Message, N!ToDevices, N!ToEach
  <2> QED BY <1>21, <1>3, <2>1 DEF N!Message
<1>4. CASE N!Scan
  <2>1. UNCHANGED <<events, seq, shown>> /\ queued' = FALSE /\ pushSeq' = seq
    BY <1>4 DEF N!Scan
  <2>2. \A p \in pushes' : p \in pushes \/ \E n \in N!Untold : p \in N!ToEach(n, events[n])
    BY <1>4 DEF N!Scan
  <2>3. \A n \in N!Untold : n \in 1..seq
    BY <1>0 DEF N!Untold, N!Fresh
  <2>4. \A n : \A p \in N!ToEach(n, events[n]) : p.seq = n
    BY DEF N!ToEach
  <2>5. \A p \in pushes' : p.seq \in 1..seq
    BY <1>0, <2>2, <2>3, <2>4
  <2>6. queued' \in BOOLEAN
    BY <2>1
  <2> QED BY <1>0, <2>1, <2>5, <2>6
<1>5. ASSUME NEW n \in DOMAIN events, N!Archive(n) PROVE BoardShape'
  BY <1>0, <1>5 DEF N!Archive, N!Scheduled, N!sending
<1>6. ASSUME NEW p \in pushes, N!Delivered(p) PROVE BoardShape'
  <2>1. /\ UNCHANGED <<events, seq, pushSeq, queued>> /\ pushes' \subseteq pushes
        /\ shown' = [shown EXCEPT ![p.seq] = @ + 1]
    BY <1>6 DEF N!Delivered, N!scanning
  <2>2. shown' \in [1..MaxSeq -> Nat]
    BY <1>0, <2>1
  <2> QED BY <1>0, <2>1, <2>2
<1>7. CASE N!Restart
  <2>1. UNCHANGED <<events, seq, shown>> /\ pushSeq' = seq /\ pushes' \subseteq pushes /\ queued' \in BOOLEAN
    BY <1>7 DEF N!Restart
  <2> QED BY <1>0, <2>1
<1>8. ASSUME NEW p \in pushes, N!Gone(p) PROVE UNCHANGED N!scanning /\ shown' = shown /\ pushes' \subseteq pushes
  BY <1>8 DEF N!Gone
<1>9. CASE (\E c \in N!Category : N!Toggle(c)) \/ N!Wipe \/ N!Rotate \/ N!Load \/ N!TurnOn \/ N!TurnOff
           \/ \E r \in reqs : N!Serve(r) \/ N!Answered(r) \/ N!Failed(r) \/ N!Lose(r) \/ N!Mute(r)
  <2>1. UNCHANGED N!scanning /\ shown' = shown /\ pushes' = pushes
    BY <1>9 DEF N!Toggle, N!Wipe, N!Rotate, N!Load, N!TurnOn, N!TurnOff, N!Serve, N!Answered, N!Failed,
       N!Lose, N!Mute, N!sending
  <2> QED BY <1>1, <2>1
<1>10. CASE UNCHANGED N!vars
  BY <1>1, <1>10 DEF N!vars, N!scanning
<1> QED BY <1>1, <1>2, <1>3, <1>4, <1>5, <1>6, <1>7, <1>8, <1>9, <1>10 DEF N!Next

LEMMA DeviceKeeps == PushInv /\ [N!Next]_N!vars => DeviceShape'
<1> SUFFICES ASSUME PushInv, [N!Next]_N!vars PROVE DeviceShape'
  OBVIOUS
<1> DEFINE Records(u) == [ep : 1..u, cats : N!Choices]
           Pushed(u) == [ep : 1..u, seq : Nat]
<1>0. /\ used \in Nat /\ ep \in 0..used /\ page \in Phone /\ mirror \in Takes /\ chosen \in N!Choices
      /\ store \subseteq Records(used) /\ (\A s, t \in store : s.ep = t.ep => s = t)
      /\ reqs \subseteq Req /\ (\A r \in reqs : Given(r, used)) /\ pushes \subseteq Pushed(used)
      /\ BoardShape /\ DeviceShape
  BY DEF PushInv, DeviceShape
<1>1. ASSUME UNCHANGED <<used, ep, page, mirror, chosen, reqs>>, store' \subseteq store, pushes' \subseteq Pushed(used)
      PROVE  DeviceShape'
  BY <1>0, <1>1 DEF DeviceShape
<1>2. ASSUME NEW n \in Nat, NEW c PROVE N!ToEach(n, c) \subseteq Pushed(used)
  BY <1>0, <1>2 DEF N!ToEach, N!Takers
<1>3. ASSUME NEW c \in N!Category, N!Event(c) PROVE DeviceShape'
  BY <1>0, <1>1, <1>3 DEF N!Event, N!device
<1>4. CASE N!Message
  <2>1. seq + 1 \in Nat
    BY <1>0 DEF BoardShape
  <2> QED BY <1>0, <1>1, <1>2, <1>4, <2>1 DEF N!Message, N!device, N!ToDevices
<1>5. CASE N!Scan
  <2>1. \A n \in N!Untold : n \in Nat
    BY <1>0 DEF BoardShape, N!Untold, N!Fresh
  <2>2. UNION {N!ToEach(n, events[n]) : n \in N!Untold} \subseteq Pushed(used)
    BY <1>2, <2>1
  <2> QED BY <1>0, <1>1, <1>5, <2>2 DEF N!Scan, N!device
<1>6. CASE (\E n \in DOMAIN events : N!Archive(n)) \/ \E p \in pushes : N!Delivered(p) \/ N!Gone(p)
  BY <1>0, <1>1, <1>6 DEF N!Archive, N!Delivered, N!Gone, N!device, N!sending
<1>7. CASE N!Restart
  <2>1. UNCHANGED <<used, ep, page, mirror, chosen, store>> /\ pushes' \subseteq pushes
    BY <1>7 DEF N!Restart, N!device
  <2>2. reqs' = {IF r.st = "sent" THEN [r EXCEPT !.st = "failed"] ELSE r : r \in {q \in reqs : q.mine}}
    BY <1>7 DEF N!Restart
  <2>3. ASSUME NEW r \in reqs
        PROVE  [r EXCEPT !.st = "failed"] \in Req /\ Given([r EXCEPT !.st = "failed"], used)
    BY <1>0, <2>3 DEF Req, Given
  <2>4. reqs' \subseteq Req /\ \A r \in reqs' : Given(r, used)
    BY <1>0, <2>2, <2>3
  <2> QED BY <1>0, <2>1, <2>4 DEF DeviceShape
<1>8. ASSUME NEW r \in reqs, NEW st \in {"ok", "failed"}, NEW a \in Takes, N!Answer(r, st, a)
      PROVE  reqs' \subseteq Req /\ \A q \in reqs' : Given(q, used)
  <2>1. [r EXCEPT !.st = st, !.answer = a] \in Req /\ Given([r EXCEPT !.st = st, !.answer = a], used)
    BY <1>0, <1>8 DEF Req, Given
  <2> QED BY <1>0, <1>8, <2>1 DEF N!Answer
<1>9. ASSUME NEW r \in reqs, N!Serve(r) PROVE DeviceShape'
  <2>1. r \in Req /\ r.ep \in Nat /\ Given(r, used) /\ UNCHANGED <<used, ep, page, mirror, chosen, pushes>>
    BY <1>0, <1>9 DEF N!Serve, N!device, Req
  <2>2. ASSUME store' \subseteq Records(used), \A s, t \in store' : s.ep = t.ep => s = t,
               NEW st \in {"ok", "failed"}, NEW a \in Takes, N!Answer(r, st, a)
        PROVE  DeviceShape'
    BY <1>0, <1>8, <2>1, <2>2 DEF DeviceShape
  <2>3. CASE r.kind = "subscribe"
    <3>0. r.ep \in 1..used
      BY <2>1, <2>3 DEF Given
    <3> DEFINE c == N!Carried(r.ep, r.old, r.cats)
    <3>1. c \in N!Choices /\ c \in Takes
      BY <1>0, <2>1, StoreTakes, Shapes DEF Req
    <3>2. store' = {s \in store : s.ep \notin {r.ep, r.old}} \cup {[ep |-> r.ep, cats |-> c]}
          /\ N!Answer(r, "ok", c)
      BY <1>9, <2>3 DEF N!Serve, N!Added
    <3> HIDE DEF c
    <3>3. store' \subseteq Records(used) /\ \A s, t \in store' : s.ep = t.ep => s = t
      BY <1>0, <2>1, <3>0, <3>1, <3>2
    <3> QED BY <2>2, <3>1, <3>2, <3>3
  <2>4. CASE r.kind = "unsubscribe"
    <3>1. store' = store \ N!Of(r.ep) /\ N!Answer(r, "ok", N!Unknown)
      BY <1>9, <2>4 DEF N!Serve
    <3> QED BY <1>0, <2>2, <3>1, Shapes
  <2>5. CASE r.kind = "prefs" /\ N!Listed(r.ep)
    <3> DEFINE c == N!Flipped(N!CatsOf(r.ep), r.cat, r.on)
    <3>0. N!CatsOf(r.ep) \in N!Choices /\ r.cat \in N!Category /\ r.on \in BOOLEAN
      BY <1>0, <2>1, <2>5, StoreTakes, Shapes DEF Req
    <3>1. c \in N!Choices /\ c \in Takes
      BY <3>0, Shapes DEF N!Choices, N!Flipped
    <3>2. store' = N!Patched(r.ep, r.cat, r.on) /\ N!Answer(r, "ok", c)
      BY <1>9, <2>5 DEF N!Serve
    <3>3. ASSUME NEW s \in store
          PROVE  [s EXCEPT !.cats = N!Flipped(s.cats, r.cat, r.on)] \in Records(used)
                 /\ [s EXCEPT !.cats = N!Flipped(s.cats, r.cat, r.on)].ep = s.ep
      <4>1. N!Flipped(s.cats, r.cat, r.on) \in N!Choices
        BY <1>0, <3>0, Shapes DEF N!Choices, N!Flipped
      <4> QED BY <1>0, <4>1
    <3>4. store' \subseteq Records(used) /\ \A s, t \in store' : s.ep = t.ep => s = t
      BY <1>0, <3>2, <3>3 DEF N!Patched
    <3> QED BY <2>2, <3>1, <3>2, <3>4
  <2>6. CASE r.kind = "prefs" /\ ~N!Listed(r.ep)
    <3>1. store' = store /\ N!Answer(r, "failed", N!Unknown)
      BY <1>9, <2>6 DEF N!Serve
    <3> QED BY <1>0, <2>2, <3>1, Shapes
  <2> QED BY <2>1, <2>3, <2>4, <2>5, <2>6 DEF Req, N!Kind
<1>10. CASE N!Wipe
  BY <1>0, <1>1, <1>10 DEF N!Wipe, N!device
<1>11. ASSUME NEW r \in reqs, N!Lose(r) \/ N!Mute(r) PROVE DeviceShape'
  <2>1. UNCHANGED <<used, ep, page, mirror, chosen, pushes, store>> /\ N!Answer(r, "failed", N!Unknown)
    BY <1>11 DEF N!Lose, N!Mute, N!device, N!sending
  <2>2. reqs' \subseteq Req /\ \A q \in reqs' : Given(q, used)
    BY <1>8, <2>1, Shapes
  <2> QED BY <1>0, <2>1, <2>2 DEF DeviceShape
<1>12. CASE UNCHANGED N!vars
  BY <1>0, <1>1, <1>12 DEF N!vars, N!device, N!sending
<1>13. ASSUME NEW r \in reqs, N!Answered(r) \/ N!Failed(r) PROVE DeviceShape'
  <2>1. reqs' \subseteq reqs /\ UNCHANGED <<store, ep, used, pushes>> /\ r \in Req
    BY <1>0, <1>13 DEF N!Answered, N!Failed, N!sending
  <2>2. mirror' \in Takes /\ chosen' \in N!Choices
    BY <1>0, <1>13, <2>1, Shapes DEF N!Answered, N!Failed, N!Flipped, N!Choices, Req
  <2>3. ASSUME NEW p \in Phone PROVE N!AfterTap(r, p) \in Phone
    <3>1. [p EXCEPT !.busy = FALSE] \in Phone
      BY <2>3 DEF Phone
    <3>2. \A q \in Phone : N!Refreshed(q) \in Phone
      BY DEF Phone, N!Refreshed
    <3> QED BY <2>3, <3>1, <3>2 DEF N!AfterTap
  <2>4. N!Told(r) \in Phone
    BY <1>0, <2>1 DEF N!Told, Phone, Req, N!Kind
  <2>5. [page EXCEPT !.cats = r.cats] \in Phone
    BY <1>0, <2>1 DEF Phone, Req
  <2>6. page' \in Phone
    BY <1>0, <1>13, <2>3, <2>4, <2>5 DEF N!Answered, N!Failed
  <2> QED BY <1>0, <2>1, <2>2, <2>6 DEF DeviceShape
<1>14. ASSUME NEW c \in N!Category, N!Toggle(c) PROVE DeviceShape'
  <2> DEFINE x == page.cats
             on == c \notin x
             q == N!Request("prefs", page.endpoint)
             r == [q EXCEPT !.cats = x, !.cat = c, !.on = on, !.tap = FALSE]
  <2>1. /\ page.endpoint # 0 /\ x # N!Unknown /\ reqs' = reqs \cup {r}
        /\ page' = [page EXCEPT !.cats = N!Flipped(x, c, on)] /\ mirror' = page'.cats
        /\ chosen' = N!Flipped(chosen, c, on) /\ UNCHANGED <<store, ep, used, pushes>>
    BY <1>0, <1>14 DEF N!Toggle, N!Ask, N!sending, Phone
  <2>2. /\ x \in Takes /\ N!Flipped(x, c, on) \in N!Choices /\ N!Flipped(chosen, c, on) \in N!Choices
        /\ page.endpoint \in Nat
    BY <1>0, <2>1, Shapes DEF Phone, N!Choices, N!Flipped
  <2>3. q \in Req /\ q.ep = page.endpoint /\ q.kind = "prefs"
    BY <2>2, Shapes DEF N!Kind, Plain
  <2> HIDE DEF q
  <2>4. r \in Req /\ Given(r, used)
    BY <2>2, <2>3 DEF Req, Given
  <2>5. page' \in Phone /\ mirror' \in Takes
    BY <1>0, <2>1, <2>2, Shapes DEF Phone
  <2> HIDE DEF r
  <2> QED BY <1>0, <2>1, <2>2, <2>4, <2>5 DEF DeviceShape
<1>15. ASSUME NEW n \in Nat, n >= used, NEW r \in reqs PROVE Given(r, n)
  BY <1>0, <1>15 DEF Given
<1>16. CASE N!TurnOn
  <2> DEFINE q == N!Request("subscribe", ep')
             r == [q EXCEPT !.cats = mirror]
  <2>1. /\ reqs' = reqs \cup {r} /\ page' = [page EXCEPT !.busy = TRUE]
        /\ UNCHANGED <<store, mirror, pushes, chosen>>
    BY <1>16 DEF N!TurnOn, N!Ask, N!sending
  <2>2. used' \in Nat /\ used' >= used /\ ep' \in 1..used'
    BY <1>0, <1>16 DEF N!TurnOn, N!GivenEndpoint
  <2>3. q \in Req /\ q.ep = ep'
    BY <2>2, Shapes DEF N!Kind, Plain
  <2> HIDE DEF q
  <2>4. r \in Req /\ Given(r, used')
    BY <1>0, <2>2, <2>3 DEF Req, Given
  <2>5. page' \in Phone
    BY <1>0, <2>1 DEF Phone
  <2> HIDE DEF r
  <2>6. store' \subseteq Records(used') /\ pushes' \subseteq Pushed(used')
    BY <1>0, <2>1, <2>2
  <2>7. reqs' \subseteq Req /\ \A x \in reqs' : Given(x, used')
    BY <1>0, <1>15, <2>1, <2>2, <2>4
  <2> QED BY <1>0, <2>1, <2>2, <2>5, <2>6, <2>7 DEF DeviceShape
<1>17. CASE N!TurnOff
  <2> DEFINE r == N!Request("unsubscribe", ep)
  <2>1. /\ reqs' = reqs \cup {r} /\ page' = [page EXCEPT !.busy = TRUE] /\ ep' = 0
        /\ UNCHANGED <<store, used, mirror, pushes, chosen>>
    BY <1>17 DEF N!TurnOff, N!Ask
  <2>2. r \in Req /\ r.kind = "unsubscribe"
    BY <1>0, Shapes DEF N!Kind, Plain
  <2>3. page' \in Phone
    BY <1>0, <2>1 DEF Phone
  <2> HIDE DEF r
  <2> QED BY <1>0, <2>1, <2>2, <2>3 DEF DeviceShape, Given
<1>18. CASE N!Load
  <2> DEFINE q == N!Request("subscribe", ep)
             r == [q EXCEPT !.cats = mirror, !.tap = FALSE]
             left == {[x EXCEPT !.mine = FALSE] : x \in {y \in reqs : y.st = "sent"}}
  <2>1. /\ page' = N!Refreshed(N!NoPage) /\ reqs' = IF ep # 0 THEN left \cup {r} ELSE left
        /\ UNCHANGED <<store, ep, used, mirror, pushes, chosen>>
    BY <1>18 DEF N!Load, N!sending
  <2>2. ASSUME ep # 0 PROVE r \in Req /\ Given(r, used)
    <3>1. q \in Req /\ q.ep = ep
      BY <1>0, Shapes DEF N!Kind, Plain
    <3> HIDE DEF q
    <3>2. r \in Req /\ r.ep = ep
      BY <1>0, <3>1 DEF Req
    <3> QED BY <1>0, <2>2, <3>2 DEF Given
  <2>3. page' \in Phone
    BY <2>1, Shapes DEF N!Refreshed, N!NoPage, Phone
  <2>4. ASSUME NEW x \in reqs
        PROVE  [x EXCEPT !.mine = FALSE] \in Req /\ Given([x EXCEPT !.mine = FALSE], used)
    BY <1>0, <2>4 DEF Req, Given
  <2> HIDE DEF r
  <2>5. reqs' \subseteq Req /\ \A x \in reqs' : Given(x, used)
    BY <1>0, <2>1, <2>2, <2>4
  <2> QED BY <1>0, <2>1, <2>3, <2>5 DEF DeviceShape
<1>19. CASE N!Rotate
  <2> DEFINE q == N!Request("subscribe", used + 1)
             r == [q EXCEPT !.old = ep, !.tap = FALSE, !.mine = FALSE]
  <2>1. /\ reqs' = reqs \cup {r} /\ used' = used + 1 /\ ep' = used + 1
        /\ UNCHANGED <<store, page, mirror, pushes, chosen>>
    BY <1>19 DEF N!Rotate, N!Ask
  <2>2. used' \in Nat /\ used' >= used /\ ep' \in 1..used'
    BY <1>0, <2>1
  <2>3. q \in Req /\ q.ep = used + 1
    BY <1>0, Shapes DEF N!Kind, Plain
  <2> HIDE DEF q
  <2>4. r \in Req /\ r.ep = used + 1
    <3> DEFINE x == [q EXCEPT !.old = ep]
    <3>1. x \in Req /\ x.ep = used + 1 /\ r = [x EXCEPT !.tap = FALSE, !.mine = FALSE]
      BY <1>0, <2>3 DEF Req
    <3> HIDE DEF x
    <3> QED BY <3>1 DEF Req
  <2> HIDE DEF r
  <2>6. store' \subseteq Records(used') /\ pushes' \subseteq Pushed(used')
    BY <1>0, <2>1, <2>2
  <2>7. reqs' \subseteq Req /\ \A x \in reqs' : Given(x, used')
    BY <1>0, <1>15, <2>1, <2>2, <2>4 DEF Given
  <2> QED BY <1>0, <2>1, <2>2, <2>6, <2>7 DEF DeviceShape
<1> QED BY <1>3, <1>4, <1>5, <1>6, <1>7, <1>9, <1>10, <1>11, <1>12, <1>13, <1>14, <1>16, <1>17, <1>18, <1>19 DEF N!Next

\* What was pushed or shown stays behind the scan, whatever is sent, shown or forgotten.
LEMMA HeardKeeps == PushInv /\ [N!Next]_N!vars => HeardInv'
<1> SUFFICES ASSUME PushInv, [N!Next]_N!vars PROVE HeardInv'
  OBVIOUS
<1>0. /\ MaxSeq \in Nat /\ seq \in 0..MaxSeq /\ pushSeq \in Nat /\ pushSeq <= seq
      /\ shown \in [1..MaxSeq -> Nat] /\ used \in Nat /\ ep \in 0..used
      /\ (\A n \in DOMAIN events : n \in 1..seq) /\ (\A p \in pushes : p.seq \in 1..seq)
      /\ pushes \subseteq [ep : 1..used, seq : Nat] /\ HeardInv
  BY DEF PushInv, BoardShape, DeviceShape
\* Nothing is pushed or shown anew, and what was passed stays so.
<1>1. ASSUME pushes' \subseteq pushes, shown' = shown, seq' \in Nat, seq' >= seq,
             \A n \in 1..seq : Passed(n) => Passed(n)',
             \A p \in pushes' : p.ep = ep' => p.ep = ep
      PROVE  HeardInv'
  <2>1. \A p \in pushes' : Passed(p.seq)' /\ (p.ep = ep' => shown'[p.seq] = 0)
    BY <1>0, <1>1 DEF HeardInv
  <2>2. \A n \in 1..MaxSeq : shown'[n] <= 1 /\ (shown'[n] = 1 => Passed(n)' /\ n <= seq')
    BY <1>0, <1>1 DEF HeardInv
  <2> QED BY <2>1, <2>2 DEF HeardInv
<1>2. ASSUME UNCHANGED N!scanning, UNCHANGED <<pushes, shown, ep>> PROVE HeardInv'
  BY <1>0, <1>2 DEF HeardInv, Passed, N!scanning
<1>3. ASSUME NEW c \in N!Category, N!Event(c) PROVE HeardInv'
  <2>1. seq' = seq + 1 /\ UNCHANGED <<pushSeq, shadows, ep, pushes, shown>>
    BY <1>3 DEF N!Event, N!Lands, N!device
  <2> QED BY <1>0, <1>1, <2>1 DEF Passed
<1>4. CASE N!Message
  <2>1. /\ seq' = seq + 1 /\ seq' <= MaxSeq /\ UNCHANGED <<pushSeq, ep, shown>>
        /\ shadows' = shadows \cup {seq + 1}
        /\ pushes' = pushes \cup N!ToEach(seq + 1, "chat")
    BY <1>0, <1>4 DEF N!Message, N!Lands, N!device, N!ToDevices
  <2>2. shown[seq + 1] = 0
    BY <1>0, <2>1 DEF HeardInv
  <2>3. \A p \in pushes' : p \in pushes \/ p.seq = seq + 1
    BY <2>1 DEF N!ToEach
  <2>4. \A p \in pushes' : Passed(p.seq)' /\ (p.ep = ep' => shown'[p.seq] = 0)
    BY <1>0, <2>1, <2>2, <2>3 DEF HeardInv, Passed
  <2>5. \A n \in 1..MaxSeq : shown'[n] <= 1 /\ (shown'[n] = 1 => Passed(n)' /\ n <= seq')
    BY <1>0, <2>1 DEF HeardInv, Passed
  <2> QED BY <2>4, <2>5 DEF HeardInv
<1>5. CASE N!Scan
  <2>1. UNCHANGED <<seq, shown, ep, events>> /\ pushSeq' = seq
    BY <1>5 DEF N!Scan, N!device
  <2>2. \A n \in N!Untold : ~Passed(n) /\ n \in 1..seq
    BY <1>0 DEF N!Untold, N!Fresh, Passed
  <2>3. \A n \in N!Untold : shown[n] = 0
    BY <1>0, <2>2 DEF HeardInv
  <2>4. \A p \in pushes' : p \in pushes \/ p.seq \in N!Untold
    BY <1>5 DEF N!Scan, N!ToEach
  <2>5. \A n \in 1..seq : Passed(n)'
    BY <1>0, <2>1 DEF Passed
  <2>6. \A p \in pushes' : Passed(p.seq)' /\ (p.ep = ep' => shown'[p.seq] = 0)
    BY <1>0, <2>1, <2>2, <2>3, <2>4, <2>5 DEF HeardInv
  <2>7. \A n \in 1..MaxSeq : shown'[n] <= 1 /\ (shown'[n] = 1 => Passed(n)' /\ n <= seq')
    BY <1>0, <2>1, <2>5 DEF HeardInv
  <2> QED BY <2>6, <2>7 DEF HeardInv
<1>6. ASSUME NEW n \in DOMAIN events, N!Archive(n) PROVE HeardInv'
  BY <1>0, <1>1, <1>6 DEF N!Archive, N!device, N!sending, Passed
<1>7. ASSUME NEW p \in pushes, N!Delivered(p) PROVE HeardInv'
  <2>1. /\ UNCHANGED <<seq, pushSeq, shadows, ep>> /\ pushes' = pushes \ {p} /\ p.ep = ep
        /\ shown' = [shown EXCEPT ![p.seq] = @ + 1]
    BY <1>7 DEF N!Delivered, N!scanning, N!device
  <2>2. shown[p.seq] = 0 /\ Passed(p.seq) /\ p.seq \in 1..seq
    BY <1>0, <1>7, <2>1 DEF HeardInv
  <2>3. \A n \in 1..MaxSeq : shown'[n] = IF n = p.seq THEN 1 ELSE shown[n]
    BY <1>0, <2>1, <2>2
  <2>4. ASSUME NEW q \in pushes', q.ep = ep PROVE q.seq # p.seq
    <3>1. \A x \in pushes : x = [ep |-> x.ep, seq |-> x.seq]
      BY <1>0
    <3>2. q \in pushes /\ q # p /\ q.ep = p.ep
      BY <2>1, <2>4
    <3> QED BY <1>7, <3>1, <3>2
  <2>5. \A n : Passed(n)' <=> Passed(n)
    BY <2>1 DEF Passed
  <2>6. \A q \in pushes' : Passed(q.seq)' /\ (q.ep = ep' => shown'[q.seq] = 0)
    BY <1>0, <2>1, <2>3, <2>4, <2>5 DEF HeardInv
  <2>7. \A n \in 1..MaxSeq : shown'[n] <= 1 /\ (shown'[n] = 1 => Passed(n)' /\ n <= seq')
    BY <1>0, <2>1, <2>2, <2>3, <2>5 DEF HeardInv
  <2> QED BY <2>6, <2>7 DEF HeardInv
<1>8. ASSUME NEW p \in pushes, N!Gone(p) PROVE HeardInv'
  BY <1>0, <1>1, <1>8 DEF N!Gone, N!scanning, N!device, Passed
<1>9. CASE N!Restart
  <2>1. UNCHANGED <<seq, shown, ep>> /\ pushSeq' = seq /\ pushes' \subseteq pushes
    BY <1>9 DEF N!Restart, N!device
  <2> QED BY <1>0, <1>1, <2>1 DEF Passed
<1>10. CASE N!TurnOn \/ N!TurnOff \/ N!Rotate
  <2>1. UNCHANGED <<events, seq, pushSeq, queued, shadows, pushes, shown>>
    BY <1>10 DEF N!TurnOn, N!TurnOff, N!Rotate, N!scanning, N!sending
  <2>2. ep' = ep \/ ep' = 0 \/ ep' = used + 1
    BY <1>10 DEF N!TurnOn, N!TurnOff, N!Rotate, N!GivenEndpoint
  <2>3. \A p \in pushes' : p.ep = ep' => p.ep = ep
    BY <1>0, <2>1, <2>2
  <2> QED BY <1>0, <1>1, <2>1, <2>3 DEF Passed
<1>11. CASE (\E c \in N!Category : N!Toggle(c)) \/ N!Wipe \/ N!Load
            \/ \E r \in reqs : N!Serve(r) \/ N!Answered(r) \/ N!Failed(r) \/ N!Lose(r) \/ N!Mute(r)
  <2>1. UNCHANGED N!scanning /\ UNCHANGED <<pushes, shown, ep>>
    BY <1>11 DEF N!Toggle, N!Wipe, N!Load, N!Serve, N!Answered, N!Failed, N!Lose, N!Mute, N!sending, N!device
  <2> QED BY <1>2, <2>1
<1>12. CASE UNCHANGED N!vars
  BY <1>2, <1>12 DEF N!vars, N!scanning
<1> QED BY <1>3, <1>4, <1>5, <1>6, <1>7, <1>8, <1>9, <1>10, <1>11, <1>12 DEF N!Next

\* What is owed is owed to a device that is listed, and the next scan will meet it.
LEMMA DueKeeps == PushInv /\ [N!Next]_N!vars => DueInv'
<1> SUFFICES ASSUME PushInv, [N!Next]_N!vars PROVE DueInv'
  OBVIOUS
<1>0. /\ seq \in Nat /\ pushSeq \in Nat /\ pushSeq <= seq /\ used \in Nat /\ ep \in 0..used
      /\ (\A s \in store : s.ep \in 1..used) /\ DueInv
  BY DEF PushInv, BoardShape, DeviceShape
<1> DEFINE ListedFor(d) == \E s \in store : s.ep = ep /\ d.cat \in s.cats
           Ahead(d) == "archive" \notin troubles => queued /\ d.seq \in DOMAIN events /\ d.seq > pushSeq
<1>1. ASSUME NEW d \in due PROVE ListedFor(d) /\ Ahead(d)
  BY <1>0, <1>1 DEF DueInv
<1>2. ASSUME due' = {} PROVE DueInv'
  BY <1>2 DEF DueInv
<1>3. ASSUME due' \subseteq due, UNCHANGED <<events, queued, pushSeq>>, troubles \subseteq troubles',
             \A d \in due' : ListedFor(d)'
      PROVE  DueInv'
  BY <1>1, <1>3 DEF DueInv
<1>4. ASSUME NEW kind, N!Befalls(kind) PROVE troubles \subseteq troubles'
  BY <1>4 DEF N!Befalls
<1>5. ASSUME N!Patiently PROVE troubles \subseteq troubles'
  BY <1>4, <1>5 DEF N!Patiently
<1>6. ASSUME NEW c \in N!Category, N!Lands(c), UNCHANGED <<pushSeq, store, ep, troubles>>,
             \A d \in due' : d \in due \/ (d.seq = seq + 1 /\ ListedFor(d))
      PROVE  DueInv'
  <2>1. queued' = TRUE /\ DOMAIN events' = DOMAIN events \cup {seq + 1}
    BY <1>6 DEF N!Lands, N!Scheduled
  <2>2. ASSUME NEW d \in due' PROVE ListedFor(d)' /\ Ahead(d)'
    BY <1>0, <1>1, <1>6, <2>1, <2>2
  <2> QED BY <2>2 DEF DueInv
<1>7. ASSUME NEW c \in N!Category, N!Event(c) PROVE DueInv'
  <2>1. \A d \in due' : d \in due \/ (d.seq = seq + 1 /\ ListedFor(d))
    BY <1>7 DEF N!Event, N!OwedTo, N!Takers
  <2> QED BY <1>6, <1>7, <2>1 DEF N!Event, N!device
<1>8. CASE N!Message
  <2>1. "other" \in N!Category
    BY DEF N!Category
  <2> QED BY <1>6, <1>8, <2>1 DEF N!Message, N!device
<1>9. CASE N!Scan
  <2>1. CASE store = {}
    <3>1. due = {}
      BY <1>1, <2>1
    <3> QED BY <1>2, <1>9, <2>1, <3>1 DEF N!Scan
  <2>2. CASE store # {}
    <3>1. due' = {d \in due : d.seq \notin N!Fresh} /\ UNCHANGED <<store, ep, troubles>>
      BY <1>9, <2>2 DEF N!Scan, N!device
    <3>2. ASSUME NEW d \in due' PROVE ListedFor(d)' /\ "archive" \in troubles'
      BY <1>1, <3>1, <3>2 DEF N!Fresh
    <3> QED BY <3>2 DEF DueInv
  <2> QED BY <2>1, <2>2
<1>10. ASSUME NEW n \in DOMAIN events, N!Archive(n) PROVE DueInv'
  <2>1. "archive" \in troubles' /\ UNCHANGED <<store, ep, due>>
    BY <1>10 DEF N!Archive, N!Befalls, N!device, N!sending
  <2> QED BY <1>1, <2>1 DEF DueInv
<1>11. ASSUME NEW p \in pushes, N!Delivered(p) PROVE DueInv'
  BY <1>1, <1>3, <1>11 DEF N!Delivered, N!scanning, N!device
<1>12. ASSUME NEW p \in pushes, N!Gone(p) PROVE DueInv'
  <2>1. p.ep # ep /\ store' = {s \in store : s.ep # p.ep} /\ UNCHANGED <<events, queued, pushSeq, due, ep, troubles>>
    BY <1>12 DEF N!Gone, N!scanning, N!device
  <2>2. \A d \in due' : ListedFor(d)'
    BY <1>1, <2>1
  <2> QED BY <1>3, <2>1, <2>2
<1>13. CASE N!Restart \/ N!Wipe \/ N!TurnOff \/ N!Rotate
  BY <1>2, <1>13 DEF N!Restart, N!Wipe, N!TurnOff, N!Rotate
<1>14. CASE N!TurnOn
  <2>1. UNCHANGED <<events, queued, pushSeq, store, due>> /\ troubles \subseteq troubles'
    BY <1>5, <1>14 DEF N!TurnOn, N!Tap, N!scanning, N!sending
  <2>2. CASE ep = 0
    <3>1. due = {}
      BY <1>0, <1>1, <2>2
    <3> QED BY <1>2, <2>1, <3>1
  <2>3. CASE ep # 0
    <3>1. ep' = ep
      BY <1>14, <2>3 DEF N!TurnOn, N!GivenEndpoint
    <3> QED BY <1>1, <1>3, <2>1, <3>1
  <2> QED BY <2>2, <2>3
<1>15. CASE (\E c \in N!Category : N!Toggle(c)) \/ N!Load
            \/ \E r \in reqs : N!Answered(r) \/ N!Failed(r) \/ N!Lose(r) \/ N!Mute(r)
  <2>1. UNCHANGED <<events, queued, pushSeq, store, ep, due>> /\ troubles \subseteq troubles'
    BY <1>4, <1>5, <1>15 DEF N!Toggle, N!Load, N!Answered, N!Failed, N!Lose, N!Mute, N!scanning, N!device, N!sending
  <2> QED BY <1>1, <1>3, <2>1
<1>16. ASSUME NEW r \in reqs, N!Serve(r) PROVE DueInv'
  <2>1. /\ UNCHANGED <<events, queued, pushSeq, ep, troubles>>
        /\ due' = {d \in due : \E s \in store' : s.ep = ep /\ d.cat \in s.cats}
    BY <1>16 DEF N!Serve, N!scanning, N!device
  <2> QED BY <1>3, <2>1
<1>17. CASE UNCHANGED N!vars
  BY <1>1, <1>3, <1>17 DEF N!vars, N!scanning, N!device, N!sending
<1> QED BY <1>7, <1>8, <1>9, <1>10, <1>11, <1>12, <1>13, <1>14, <1>15, <1>16, <1>17 DEF N!Next

\* What the store, the page and the request on its way say of his choice, while one thing
\* is asked at a time.
LEMMA ChoiceKeeps == PushInv /\ [N!Next]_N!vars /\ Calm' => ChoiceInv'
<1> SUFFICES ASSUME PushInv, [N!Next]_N!vars, Calm' PROVE ChoiceInv'
  OBVIOUS
<1> DEFINE Alone == \A q, r \in reqs : q = r
           Screen == Kept(mirror, chosen) /\ page.cats \in {N!Unknown, chosen}
           Ends == page.endpoint \in {0, ep} \/ \E r \in reqs : r.kind = "unsubscribe"
<1>1. troubles \subseteq troubles'
  <2>1. ASSUME NEW kind, N!Befalls(kind) PROVE troubles \subseteq troubles'
    BY <2>1 DEF N!Befalls
  <2>2. ASSUME N!Patiently PROVE troubles \subseteq troubles'
    BY <2>1, <2>2 DEF N!Patiently
  <2> QED BY <2>1, <2>2 DEF N!Next, N!vars, N!Event, N!Toggle, N!Message, N!Scan, N!Restart, N!Wipe, N!Rotate, N!Load,
       N!TurnOn, N!TurnOff, N!Tap, N!Archive, N!Delivered, N!Gone, N!Serve, N!Answered, N!Failed, N!Lose, N!Mute
<1>2. /\ used \in Nat /\ ep \in 0..used /\ page \in Phone /\ mirror \in Takes /\ chosen \in N!Choices
      /\ store \subseteq [ep : 1..used, cats : N!Choices] /\ (\A s, t \in store : s.ep = t.ep => s = t)
      /\ reqs \subseteq Req /\ DeviceShape /\ DeviceShape' /\ ChoiceInv
  BY <1>1, DeviceKeeps DEF PushInv, DeviceShape, Calm
<1>3. Alone /\ (\A r \in reqs : Pending(r, ep, chosen)) /\ Screen /\ Ends /\ StoreAgrees
  BY <1>2 DEF ChoiceInv
<1>4. ASSUME UNCHANGED <<ep, page, mirror, reqs, chosen>>, store' \subseteq store PROVE ChoiceInv'
  BY <1>3, <1>4 DEF ChoiceInv, Pending, Kept, StoreAgrees
<1>5. ASSUME N!Patiently PROVE reqs = {}
  BY <1>5 DEF N!Patiently, N!Befalls, Calm
\* A request that is answered, or is known to have failed.
<1>6. ASSUME NEW r \in reqs, NEW st \in {"ok", "failed"}, NEW a \in Takes, N!Answer(r, st, a),
             UNCHANGED <<ep, page, mirror, chosen>>, r.kind # "unsubscribe" /\ st = "ok" => a = chosen
      PROVE  /\ reqs' = {[r EXCEPT !.st = st, !.answer = a]}
             /\ Alone' /\ (\A q \in reqs' : Pending(q, ep', chosen')) /\ Screen' /\ Ends'
  <2> DEFINE q == [r EXCEPT !.st = st, !.answer = a]
  <2>1. r.mine /\ reqs = {r} /\ r \in Req /\ Pending(r, ep, chosen)
    BY <1>2, <1>3, <1>6 DEF Pending
  <2>2. reqs' = {q}
    BY <1>6, <2>1 DEF N!Answer
  <2>3. /\ q.mine = r.mine /\ q.kind = r.kind /\ q.ep = r.ep /\ q.old = r.old /\ q.cats = r.cats
        /\ q.cat = r.cat /\ q.on = r.on /\ q.st = st /\ q.answer = a /\ q.tap = r.tap
    BY <1>6, <2>1 DEF Req
  <2> HIDE DEF q
  <2>4. Pending(q, ep', chosen')
    BY <1>6, <2>1, <2>3 DEF Pending, Kept
  <2>5. Screen' /\ Ends'
    BY <1>3, <1>6, <2>1, <2>2, <2>3 DEF Kept
  <2> QED BY <2>2, <2>4, <2>5 DEF q
<1>7. ASSUME NEW r \in reqs, N!Serve(r) PROVE ChoiceInv'
  <2>1. r \in Req /\ Pending(r, ep, chosen) /\ reqs = {r} /\ r.st = "sent" /\ UNCHANGED <<ep, page, mirror, chosen>>
    BY <1>2, <1>3, <1>7 DEF N!Serve, N!device
  <2>2. ASSUME r.kind # "unsubscribe"
        PROVE  /\ ep \in Nat /\ r.ep = ep
               /\ N!Listed(ep) => N!CatsOf(ep) \in N!Choices /\ \A s \in store : s.ep = ep => s.cats = N!CatsOf(ep)
    <3>1. ep \in Nat
      BY <1>2
    <3>2. 0 \in Nat /\ N!Unknown \in Takes
      BY Shapes
    <3> QED BY <1>2, <2>1, <2>2, <3>1, <3>2, StoreTakes DEF Pending, Req, N!Kind
  <2>3. CASE r.kind = "subscribe"
    <3> DEFINE c == N!Carried(r.ep, r.old, r.cats)
    <3>1. ~N!Listed(r.old)
      BY <1>2, <2>1, <2>3 DEF Pending, N!Listed, N!Of
    <3>2. N!Listed(ep) => N!CatsOf(ep) = chosen
      <4>1. \A s \in store : s.ep = ep => s.cats = chosen
        BY <1>3, <2>1, <2>3 DEF StoreAgrees
      <4>2. N!Listed(ep) => \E s \in store : s.ep = ep
        BY DEF N!Listed, N!Of
      <4> QED BY <2>2, <2>3, <4>1, <4>2
    <3>3. c = chosen
      <4>1. r.ep = ep /\ Kept(r.cats, chosen)
        BY <2>1, <2>3 DEF Pending
      <4>2. chosen # N!Unknown
        BY <1>2 DEF N!Choices, N!Category, N!Unknown
      <4> QED BY <3>1, <3>2, <4>1, <4>2 DEF N!Carried, Kept
    <3>4. /\ store' = {s \in store : s.ep \notin {r.ep, r.old}} \cup {[ep |-> r.ep, cats |-> c]}
          /\ N!Answer(r, "ok", c)
      BY <1>7, <2>3 DEF N!Serve, N!Added
    <3> HIDE DEF c
    <3>5. chosen \in Takes
      BY <1>2, Shapes
    <3>6. /\ Alone' /\ (\A q \in reqs' : Pending(q, ep', chosen')) /\ Screen' /\ Ends'
          /\ reqs' = {[r EXCEPT !.st = "ok", !.answer = c]}
      BY <1>6, <2>1, <2>3, <3>3, <3>4, <3>5
    <3>7. \A q \in reqs' : q.st = "ok"
      BY <2>1, <3>6 DEF Req
    <3>8. \A s \in store' : s.ep = ep => s.cats = chosen
      BY <2>2, <2>3, <3>3, <3>4
    <3>9. StoreAgrees'
      BY <2>1, <3>7, <3>8 DEF StoreAgrees
    <3> QED BY <3>6, <3>9 DEF ChoiceInv
  <2>4. CASE r.kind = "unsubscribe"
    <3>1. store' \subseteq store /\ N!Answer(r, "ok", N!Unknown) /\ ep = 0
      BY <1>7, <2>1, <2>4 DEF N!Serve, Pending
    <3>2. Alone' /\ (\A q \in reqs' : Pending(q, ep', chosen')) /\ Screen' /\ Ends'
      BY <1>6, <2>1, <2>4, <3>1, Shapes
    <3>3. StoreAgrees'
      BY <1>2, <2>1, <3>1 DEF StoreAgrees
    <3> QED BY <3>2, <3>3 DEF ChoiceInv
  <2>5. CASE r.kind = "prefs" /\ N!Listed(r.ep)
    <3> DEFINE c == N!Flipped(N!CatsOf(r.ep), r.cat, r.on)
    <3>1. \A s \in store : s.ep = ep => s.cats = r.cats
      BY <1>3, <2>1, <2>5 DEF StoreAgrees
    <3>2. N!CatsOf(r.ep) = r.cats /\ r.ep = ep
      <4>1. \E s \in store : s.ep = r.ep
        BY <2>5 DEF N!Listed, N!Of
      <4> QED BY <2>2, <2>5, <3>1, <4>1
    <3>3. c = chosen
      BY <2>1, <2>5, <3>2 DEF Pending
    <3>4. store' = N!Patched(r.ep, r.cat, r.on) /\ N!Answer(r, "ok", c)
      BY <1>7, <2>5 DEF N!Serve
    <3>5. \A s \in store : s.ep = ep => N!Flipped(s.cats, r.cat, r.on) = chosen
      BY <3>1, <3>2, <3>3
    <3> HIDE DEF c
    <3>6. chosen \in Takes
      BY <1>2, Shapes
    <3>7. /\ Alone' /\ (\A q \in reqs' : Pending(q, ep', chosen')) /\ Screen' /\ Ends'
          /\ reqs' = {[r EXCEPT !.st = "ok", !.answer = c]}
      BY <1>6, <2>1, <2>5, <3>3, <3>4, <3>6
    <3>8. \A q \in reqs' : q.st = "ok"
      BY <2>1, <3>7 DEF Req
    <3>9. \A s \in store' : s.ep = ep => s.cats = chosen
      <4>1. ASSUME NEW s \in store
            PROVE  /\ [s EXCEPT !.cats = N!Flipped(s.cats, r.cat, r.on)].ep = s.ep
                   /\ [s EXCEPT !.cats = N!Flipped(s.cats, r.cat, r.on)].cats = N!Flipped(s.cats, r.cat, r.on)
        BY <1>2
      <4> QED BY <3>2, <3>4, <3>5, <4>1 DEF N!Patched
    <3>10. StoreAgrees'
      BY <2>1, <3>8, <3>9 DEF StoreAgrees
    <3> QED BY <3>7, <3>10 DEF ChoiceInv
  <2>6. CASE r.kind = "prefs" /\ ~N!Listed(r.ep)
    <3>1. store' = store /\ N!Answer(r, "failed", N!Unknown)
      BY <1>7, <2>6 DEF N!Serve
    <3>2. Alone' /\ (\A q \in reqs' : Pending(q, ep', chosen')) /\ Screen' /\ Ends'
      BY <1>6, <2>1, <3>1, Shapes
    <3>3. StoreAgrees'
      BY <2>1, <2>2, <2>6, <3>1 DEF StoreAgrees, N!Listed, N!Of
    <3> QED BY <3>2, <3>3 DEF ChoiceInv
  <2> QED BY <2>1, <2>3, <2>4, <2>5, <2>6 DEF Req, N!Kind
<1>8. ASSUME NEW r \in reqs, N!Lose(r) PROVE ChoiceInv'
  <2>1. /\ r.st = "sent" /\ N!Answer(r, "failed", N!Unknown) /\ UNCHANGED <<ep, page, mirror, chosen, store>>
        /\ r \in Req /\ reqs = {r}
    BY <1>2, <1>3, <1>8 DEF N!Lose, N!device, N!sending
  <2>2. /\ Alone' /\ (\A q \in reqs' : Pending(q, ep', chosen')) /\ Screen' /\ Ends'
        /\ reqs' = {[r EXCEPT !.st = "failed", !.answer = N!Unknown]}
    BY <1>6, <2>1, Shapes
  <2>3. \A q \in reqs' : q.kind = r.kind /\ q.cats = r.cats /\ q.st = "failed"
    BY <2>1, <2>2 DEF Req
  <2>4. StoreAgrees'
    BY <1>3, <2>1, <2>2, <2>3 DEF StoreAgrees
  <2> QED BY <2>2, <2>4 DEF ChoiceInv
<1>9. ~N!Rotate /\ \A r \in reqs : ~N!Mute(r)
  BY DEF N!Rotate, N!Mute, N!Befalls, Calm
<1>10. CASE N!Restart
  <2>1. UNCHANGED <<ep, page, mirror, chosen, store>>
    BY <1>10 DEF N!Restart, N!device
  <2>2. reqs' = {IF r.st = "sent" THEN [r EXCEPT !.st = "failed"] ELSE r : r \in reqs}
    BY <1>3, <1>10 DEF N!Restart, Pending
  <2>3. CASE reqs = {}
    BY <1>3, <2>1, <2>2, <2>3 DEF ChoiceInv, Kept, StoreAgrees
  <2>4. ASSUME NEW r \in reqs PROVE ChoiceInv'
    <3> DEFINE q == IF r.st = "sent" THEN [r EXCEPT !.st = "failed"] ELSE r
    <3>1. reqs = {r} /\ r \in Req /\ Pending(r, ep, chosen) /\ reqs' = {q}
      BY <1>2, <1>3, <2>2, <2>4
    <3>2. /\ q.mine = r.mine /\ q.kind = r.kind /\ q.ep = r.ep /\ q.old = r.old /\ q.cats = r.cats
          /\ q.cat = r.cat /\ q.on = r.on /\ q.answer = r.answer /\ q.tap = r.tap /\ (q.st = "ok" <=> r.st = "ok")
      BY <3>1 DEF Req
    <3> HIDE DEF q
    <3>3. Pending(q, ep', chosen')
      BY <2>1, <3>1, <3>2 DEF Pending, Kept
    <3>4. StoreAgrees'
      BY <1>3, <2>1, <3>1, <3>2 DEF StoreAgrees
    <3>5. Alone' /\ Screen' /\ Ends'
      BY <1>3, <2>1, <3>1, <3>2 DEF Kept
    <3> QED BY <3>1, <3>3, <3>4, <3>5 DEF ChoiceInv
  <2> QED BY <2>3, <2>4
<1>11. CASE N!Wipe
  BY <1>4, <1>11 DEF N!Wipe, N!device
<1>12. ASSUME NEW r \in reqs, N!Answered(r) \/ N!Failed(r) PROVE ChoiceInv'
  <2>1. reqs = {r} /\ r \in Req /\ Pending(r, ep, chosen) /\ reqs' = {} /\ UNCHANGED <<store, ep>>
    BY <1>2, <1>3, <1>12 DEF N!Answered, N!Failed
  <2>2. \A p \in Phone : /\ N!AfterTap(r, p).cats = p.cats
                         /\ N!AfterTap(r, p).endpoint \in {p.endpoint, 0}
                         /\ r.kind = "unsubscribe" /\ r.tap /\ ep = 0 => N!AfterTap(r, p).endpoint = 0
    BY DEF Phone, N!AfterTap, N!Refreshed
  <2>3. CASE N!Answered(r) /\ r.kind # "unsubscribe"
    <3>1. r.st = "ok" /\ r.answer = chosen /\ chosen' = chosen /\ mirror' = chosen /\ r.ep = ep /\ r.ep \in Nat
      BY <2>1, <2>3 DEF N!Answered, Pending, Req, N!Kind
    <3>2. N!Told(r) \in Phone /\ N!Told(r).cats = chosen /\ N!Told(r).endpoint \in {page.endpoint, ep}
      BY <1>2, <2>1, <2>3, <3>1, Shapes DEF N!Told, Phone, Req, N!Kind
    <3>3. page'.cats = chosen /\ page'.endpoint \in {0, ep}
      BY <1>3, <2>1, <2>2, <2>3, <3>2 DEF N!Answered
    <3>4. StoreAgrees'
      BY <1>3, <2>1, <3>1 DEF StoreAgrees
    <3> QED BY <2>1, <3>1, <3>3, <3>4 DEF ChoiceInv, Kept
  <2>4. CASE N!Answered(r) /\ r.kind = "unsubscribe"
    <3>1. UNCHANGED <<chosen, mirror>> /\ page' = N!AfterTap(r, page) /\ ep = 0
      BY <2>1, <2>4 DEF N!Answered, N!Told, Pending
    <3>2. page'.cats = page.cats /\ page'.endpoint \in {0, ep}
      BY <1>2, <2>1, <2>2, <2>4, <3>1 DEF Pending
    <3>3. StoreAgrees'
      BY <1>2, <2>1, <3>1 DEF StoreAgrees
    <3> QED BY <1>3, <2>1, <3>1, <3>2, <3>3 DEF ChoiceInv, Kept
  <2>5. CASE N!Failed(r) /\ r.kind = "prefs"
    <3>1. /\ page' = [page EXCEPT !.cats = r.cats] /\ mirror' = r.cats /\ r.st = "failed"
          /\ chosen' = N!Flipped(chosen, r.cat, ~r.on)
      BY <2>5 DEF N!Failed
    <3>2. chosen' = r.cats
      BY <2>1, <2>5, <3>1 DEF Pending, N!Flipped
    <3>3. page'.cats = r.cats /\ page'.endpoint = page.endpoint
      BY <1>2, <3>1 DEF Phone
    <3>4. StoreAgrees'
      BY <1>3, <2>1, <2>5, <3>1, <3>2 DEF StoreAgrees
    <3> QED BY <1>3, <2>1, <2>5, <3>1, <3>2, <3>3, <3>4 DEF ChoiceInv, Kept
  <2>6. CASE N!Failed(r) /\ r.kind # "prefs"
    <3>1. UNCHANGED <<chosen, mirror>> /\ page' = N!AfterTap(r, page)
      BY <2>6 DEF N!Failed
    <3>2. page'.cats = page.cats /\ page'.endpoint \in {0, ep}
      BY <1>2, <1>3, <2>1, <2>2, <2>6, <3>1 DEF Pending
    <3>3. StoreAgrees'
      BY <1>3, <2>1, <2>6, <3>1 DEF StoreAgrees
    <3> QED BY <1>3, <2>1, <3>1, <3>2, <3>3 DEF ChoiceInv, Kept
  <2> QED BY <1>12, <2>3, <2>4, <2>5, <2>6
<1>13. ASSUME NEW c \in N!Category, N!Toggle(c) PROVE ChoiceInv'
  <2> DEFINE x == page.cats
             on == c \notin x
             q == N!Request("prefs", page.endpoint)
             r == [q EXCEPT !.cats = x, !.cat = c, !.on = on, !.tap = FALSE]
  <2>1. /\ page.endpoint # 0 /\ x # N!Unknown /\ reqs = {} /\ reqs' = {r} /\ UNCHANGED <<store, ep>>
        /\ page' = [page EXCEPT !.cats = N!Flipped(x, c, on)] /\ mirror' = page'.cats
        /\ chosen' = N!Flipped(chosen, c, on)
    BY <1>5, <1>13 DEF N!Toggle, N!Ask
  <2>2. x = chosen /\ page.endpoint = ep
    BY <1>3, <2>1
  <2>3. r.kind = "prefs" /\ r.st = "sent" /\ r.ep = ep /\ r.cats = x /\ r.cat = c /\ r.on = on /\ r.mine
    <3>1. q \in Req /\ Plain(q, "prefs", ep)
      BY <1>2, <2>2, Shapes DEF N!Kind
    <3> HIDE DEF q
    <3> QED BY <3>1 DEF Req, Plain
  <2>4. page'.cats = chosen' /\ page'.endpoint = ep
    BY <1>2, <2>1, <2>2 DEF Phone
  <2> HIDE DEF r
  <2>5. Pending(r, ep', chosen')
    BY <1>2, <2>1, <2>2, <2>3 DEF Pending
  <2>6. StoreAgrees'
    BY <1>3, <2>1, <2>2, <2>3 DEF StoreAgrees
  <2> QED BY <2>1, <2>4, <2>5, <2>6 DEF ChoiceInv, Kept
<1>14. CASE N!TurnOn
  <2> DEFINE q == N!Request("subscribe", ep')
             r == [q EXCEPT !.cats = mirror]
  <2>1. /\ reqs = {} /\ reqs' = {r} /\ page' = [page EXCEPT !.busy = TRUE] /\ UNCHANGED <<store, mirror, chosen>>
        /\ ep' = ep \/ (ep = 0 /\ ep' = used + 1)
    BY <1>5, <1>14 DEF N!TurnOn, N!Tap, N!Ask, N!GivenEndpoint
  <2>2. r.kind = "subscribe" /\ r.st = "sent" /\ r.ep = ep' /\ r.old = 0 /\ r.cats = mirror /\ r.mine
    <3>1. q \in Req /\ Plain(q, "subscribe", ep')
      BY <1>2, <2>1, Shapes DEF N!Kind
    <3> HIDE DEF q
    <3> QED BY <3>1 DEF Req, Plain
  <2> HIDE DEF r
  <2>3. page'.cats = page.cats /\ page'.endpoint = page.endpoint
    BY <1>2, <2>1 DEF Phone
  <2>4. Pending(r, ep', chosen') /\ r.kind = "subscribe"
    BY <1>3, <2>1, <2>2 DEF Pending, Kept
  <2>5. \A s \in store : s.ep = ep' => s.ep = ep
    BY <1>2, <2>1
  <2>6. StoreAgrees'
    BY <1>3, <2>1, <2>4, <2>5 DEF StoreAgrees
  <2>7. page.endpoint \in {0, ep'}
    BY <1>3, <2>1
  <2> QED BY <1>3, <2>1, <2>3, <2>4, <2>6, <2>7 DEF ChoiceInv, Kept
<1>15. CASE N!TurnOff
  <2> DEFINE r == N!Request("unsubscribe", ep)
  <2>1. /\ reqs = {} /\ reqs' = {r} /\ page' = [page EXCEPT !.busy = TRUE] /\ ep' = 0
        /\ UNCHANGED <<store, mirror, chosen>>
    BY <1>5, <1>15 DEF N!TurnOff, N!Tap, N!Ask
  <2>2. r.mine /\ r.kind = "unsubscribe" /\ r.tap
    BY <1>2, Shapes DEF N!Kind, Plain
  <2> HIDE DEF r
  <2>3. page'.cats = page.cats
    BY <1>2, <2>1 DEF Phone
  <2>4. Pending(r, ep', chosen')
    BY <2>1, <2>2 DEF Pending
  <2>5. StoreAgrees'
    BY <1>2, <2>1 DEF StoreAgrees
  <2> QED BY <1>3, <2>1, <2>2, <2>3, <2>4, <2>5 DEF ChoiceInv, Kept
<1>16. CASE N!Load
  <2> DEFINE q == N!Request("subscribe", ep)
             r == [q EXCEPT !.cats = mirror, !.tap = FALSE]
  <2>1. /\ reqs = {} /\ page' = N!Refreshed(N!NoPage) /\ reqs' = IF ep # 0 THEN {r} ELSE {}
        /\ UNCHANGED <<store, ep, mirror, chosen>>
    BY <1>5, <1>16 DEF N!Load
  <2>2. r.kind = "subscribe" /\ r.st = "sent" /\ r.ep = ep /\ r.old = 0 /\ r.cats = mirror /\ r.mine
    <3>1. q \in Req /\ Plain(q, "subscribe", ep)
      BY <1>2, Shapes DEF N!Kind
    <3> HIDE DEF q
    <3> QED BY <3>1 DEF Req, Plain
  <2> HIDE DEF r
  <2>3. page'.cats = N!Unknown /\ page'.endpoint = 0
    BY <2>1 DEF N!Refreshed, N!NoPage
  <2>4. Pending(r, ep', chosen') /\ r.kind = "subscribe"
    BY <1>3, <2>1, <2>2 DEF Pending, Kept
  <2>5. StoreAgrees'
    BY <1>3, <2>1, <2>4 DEF StoreAgrees
  <2> QED BY <1>3, <2>1, <2>3, <2>4, <2>5 DEF ChoiceInv, Kept
<1>17. CASE N!Message \/ N!Scan \/ (\E c \in N!Category : N!Event(c)) \/ (\E n \in DOMAIN events : N!Archive(n))
            \/ (\E p \in pushes : N!Delivered(p) \/ N!Gone(p)) \/ UNCHANGED N!vars
  BY <1>4, <1>17 DEF N!Message, N!Scan, N!Event, N!Archive, N!Delivered, N!Gone, N!vars, N!device, N!sending
<1> QED BY <1>7, <1>8, <1>9, <1>10, <1>11, <1>12, <1>13, <1>14, <1>15, <1>16, <1>17 DEF N!Next

\* Nothing is pushed or shown twice, nothing is owed once the scan has run but of a card
\* archived before it, and the store and the column have what he chose last, unless the
\* endpoint was rotated, an answer lost, or two things asked at once (server.js 416,
\* webpush.js 187, push.js).
THEOREM PushesAreHonest ==
  N!PushAssumption => (N!Spec => [](N!HeardOnce /\ N!NoneMissed /\ N!ChoiceKept))
<1> SUFFICES ASSUME N!PushAssumption PROVE N!Spec => [](N!HeardOnce /\ N!NoneMissed /\ N!ChoiceKept)
  OBVIOUS
<1>1. N!Init => PushInv
  BY PushInit
<1>2. PushInv /\ [N!Next]_N!vars => PushInv'
  <2> SUFFICES ASSUME PushInv, [N!Next]_N!vars PROVE PushInv'
    OBVIOUS
  <2>1. BoardShape' /\ DeviceShape' /\ HeardInv' /\ DueInv'
    BY BoardKeeps, DeviceKeeps, HeardKeeps, DueKeeps
  <2>2. Calm' => ChoiceInv'
    BY ChoiceKeeps
  <2> QED BY <2>1, <2>2 DEF PushInv
<1>3. PushInv => N!HeardOnce
  <2> SUFFICES ASSUME PushInv, NEW n \in 1..MaxSeq
               PROVE  shown[n] + N!Cardinality({p \in pushes : p.seq = n /\ p.ep = ep}) <= 1
    BY DEF N!HeardOnce
  <2> DEFINE Here == {p \in pushes : p.seq = n /\ p.ep = ep}
  <2>1. shown[n] \in Nat /\ shown[n] <= 1 /\ (Here # {} => shown[n] = 0)
    BY DEF PushInv, BoardShape, HeardInv
  <2>2. Here = {} \/ Here = {[ep |-> ep, seq |-> n]}
    <3>1. \A p \in pushes : p = [ep |-> p.ep, seq |-> p.seq]
      BY DEF PushInv, DeviceShape
    <3> QED BY <3>1
  <2>3. Cardinality({}) = 0 /\ Cardinality({[ep |-> ep, seq |-> n]}) = 1
    BY FS_EmptySet, FS_Singleton
  <2>4. N!Cardinality(Here) = Cardinality(Here)
    BY DEF N!Cardinality, Cardinality, N!IsFiniteSet, IsFiniteSet
  <2> HIDE DEF Here
  <2>5. shown[n] + N!Cardinality(Here) <= 1
    <3>1. CASE Here = {}
      BY <2>1, <2>3, <2>4, <3>1
    <3>2. CASE Here = {[ep |-> ep, seq |-> n]}
      <4>1. Cardinality(Here) = 1 /\ Here # {}
        BY <2>3, <3>2
      <4> QED BY <2>1, <2>4, <4>1
    <3> QED BY <2>2, <3>1, <3>2
  <2> QED BY <2>5 DEF Here
<1>4. PushInv => N!NoneMissed
  BY DEF PushInv, DueInv, N!NoneMissed, N!NoneMissedAtAll
<1>5. PushInv => N!ChoiceKept
  <2> SUFFICES ASSUME ChoiceInv, DeviceShape, N!Quiet, N!Listed(ep)
               PROVE  N!CatsOf(ep) = chosen /\ (N!Column => page.cats = chosen)
    BY DEF PushInv, Calm, N!ChoiceKept, N!ChoiceAlwaysKept
  <2>1. \A s \in store : s.ep = ep => s.cats = chosen
    BY DEF ChoiceInv, StoreAgrees, N!Quiet
  <2>2. N!CatsOf(ep) = chosen
    <3>1. ep \in Nat /\ 0 \in Nat /\ N!Unknown \in Takes
      BY Shapes DEF DeviceShape
    <3>2. \A s \in store : s.ep = ep => s.cats = N!CatsOf(ep)
      BY <3>1, StoreTakes
    <3>3. \E s \in store : s.ep = ep
      BY DEF N!Listed, N!Of
    <3> QED BY <2>1, <3>2, <3>3
  <2> QED BY <2>2 DEF ChoiceInv, N!Column
<1> QED BY <1>1, <1>2, <1>3, <1>4, <1>5, PTL DEF N!Spec

-----------------------------------------------------------------------------
CONSTANTS Board, Home, Shared, Own, Slot, MaxTip, MaxStarts
VARIABLES tip, clone, turns, pool, lease, dirs, job, remains, starts, mishaps
B == INSTANCE Base WITH lock <- turns, troubles <- mishaps

(* Where a start is before it has a checkout, once it has a base, and with a checkout. *)
Before == {"idle", "fetch", "get", "add"}
Based == {"get", "add", "carry", "checkout", "assert", "stands", "probe"}
Holding == {"carry", "checkout", "assert", "stands", "probe"}
Start == [at : Before \cup Based \cup {"stuck"}, base : Nat, asked : Nat, warned : BOOLEAN,
          slot : Slot \cup {B!NoSlot}, own : BOOLEAN]
Lease == [by : B!Key \cup {<<>>}, head : Nat]
Remains == [slots : SUBSET Slot, dirs : SUBSET B!Key]
GroundShape ==
  /\ tip \in Nat \ {0} /\ clone \in [Board -> [st : {"none", "cloning", "ready", "torn"}, ref : Nat]]
  /\ pool \in [origin : Nat, base : [B!Card -> Nat]]
  /\ lease \in [Slot -> Lease] /\ dirs \in [B!Key -> Nat] /\ job \in [B!Key -> Start]
  /\ remains \in Remains
(* A clone that is there, and one a start is at, has a commit. *)
Cloned ==
  /\ \A w \in Board : clone[w].st = "ready" => clone[w].ref # 0
  /\ \A k \in B!Key : job[k].at # "idle" => clone[k[1]].ref # 0
(* A start has its slot's lease, and whoever has a lease has that slot or lost it. *)
Leaseholds ==
  /\ \A k \in B!Key : job[k].slot # B!NoSlot =>
                        lease[job[k].slot].by = k /\ job[k].slot \notin remains.slots
  /\ \A s \in Slot : lease[s].by # <<>> => s \in remains.slots \/ job[lease[s].by].slot = s
  /\ \A s \in remains.slots : lease[s].by # <<>>
(* How far a start j is, with the directory d under its clone and HEAD at h; r: d remains. *)
OnCourse(j, d, h, r) ==
  /\ j.at \in Before => j.slot = B!NoSlot /\ ~j.own
  /\ j.at \in {"carry", "checkout"} => ~j.own
  /\ j.at \in Holding => j.own \/ j.slot # B!NoSlot
  /\ j.own => j.slot = B!NoSlot
  /\ d # 0 <=> j.own \/ r
  /\ r => ~j.own
  /\ j.asked <= tip
  /\ j.at \in Based => j.warned \/ j.base >= j.asked
  /\ j.at \in {"stands", "probe"} => h = j.base
Left(k) == k \in remains.dirs
Underway == \A k \in B!Key : OnCourse(job[k], dirs[k], B!Head_(k), Left(k))
BaseInv == GroundShape /\ Cloned /\ Leaseholds /\ Underway

LEMMA KeysArePairs ==
  \A k \in B!Key : k # <<>> /\ k[1] \in Board \cup {Home} /\ k[2] \in B!Card
BY DEF B!Key, B!Card

LEMMA BaseInit == B!BaseAssumption /\ B!Init => BaseInv
<1> SUFFICES ASSUME B!BaseAssumption, B!Init PROVE BaseInv
  OBVIOUS
<1>1. B!Idle \in Start /\ B!Idle.at = "idle" /\ B!Idle.slot = B!NoSlot /\ ~B!Idle.own /\ B!Idle.asked = 0
  BY DEF B!Idle, Start, Before
<1>2. GroundShape
  <2>1. B!Free \in Lease
    BY DEF B!Free, Lease
  <2> QED BY <1>1, <2>1 DEF GroundShape, B!Init, Remains
<1>3. Leaseholds
  BY <1>1 DEF Leaseholds, B!Init, B!Free
<1>4. Cloned
  BY <1>1 DEF Cloned, B!Init
<1>5. Underway
  <2> SUFFICES ASSUME NEW k \in B!Key PROVE OnCourse(job[k], dirs[k], B!Head_(k), Left(k))
    BY DEF Underway
  <2>1. job[k] = B!Idle /\ dirs[k] = 0 /\ tip = 1 /\ ~Left(k)
    BY DEF B!Init, Left
  <2>2. job[k].at = "idle" /\ job[k].slot = B!NoSlot /\ ~job[k].own /\ job[k].asked = 0
    BY <1>1, <2>1
  <2>3. /\ "idle" \notin Based /\ "idle" \notin {"carry", "checkout"} /\ "idle" \notin Holding
        /\ "idle" \notin {"stands", "probe"}
    BY DEF Based, Holding
  <2>4. job[k].asked <= tip
    BY <2>1, <2>2
  <2> QED BY <2>1, <2>2, <2>3, <2>4, Zenon DEF OnCourse
<1> QED BY <1>2, <1>3, <1>4, <1>5 DEF BaseInv

\* What one start does to its slot leaves every other start where it is.
LEMMA OneMoves ==
  ASSUME BaseInv, B!NoSlot \notin Slot, tip' = tip,
         NEW k \in B!Key, NEW j \in Start, job' = [job EXCEPT ![k] = j],
         NEW d \in Nat, dirs' = [dirs EXCEPT ![k] = d],
         lease' \in [Slot -> Lease], remains' \in Remains,
         \A x \in B!Key \ {k} : job[x].slot # B!NoSlot =>
           lease'[job[x].slot] = lease[job[x].slot] /\ job[x].slot \notin remains'.slots,
         \A x \in B!Key \ {k} : Left(x)' <=> Left(x),
         j.slot # B!NoSlot => lease'[j.slot].by = k /\ j.slot \notin remains'.slots,
         OnCourse(j, d, IF j.slot # B!NoSlot THEN lease'[j.slot].head ELSE d, Left(k)'),
         remains.slots \subseteq remains'.slots,
         \A s \in remains'.slots : lease'[s].by # <<>>,
         \A s \in Slot : /\ lease'[s].by = k => s \in remains'.slots \/ j.slot = s
                         /\ lease'[s].by \notin {k, <<>>} => lease[s].by = lease'[s].by
  PROVE  /\ lease' \in [Slot -> Lease] /\ dirs' \in [B!Key -> Nat] /\ job' \in [B!Key -> Start]
         /\ remains' \in Remains /\ Leaseholds' /\ Underway'
<1>0. job \in [B!Key -> Start] /\ dirs \in [B!Key -> Nat] /\ lease \in [Slot -> Lease] /\ Leaseholds /\ Underway
  BY DEF BaseInv, GroundShape
<1>1. /\ job' \in [B!Key -> Start] /\ dirs' \in [B!Key -> Nat] /\ job'[k] = j /\ dirs'[k] = d
      /\ \A x \in B!Key \ {k} : job'[x] = job[x] /\ dirs'[x] = dirs[x]
  BY <1>0
<1>2. Leaseholds'
  <2>1. \A x \in B!Key : job'[x].slot # B!NoSlot => lease'[job'[x].slot].by = x /\ job'[x].slot \notin remains'.slots
    BY <1>0, <1>1 DEF Leaseholds
  <2>2. ASSUME NEW s \in Slot, lease'[s].by # <<>>, s \notin remains'.slots PROVE job'[lease'[s].by].slot = s
    <3>1. lease'[s].by \in B!Key
      BY <2>2 DEF Lease
    <3>2. CASE lease'[s].by = k
      BY <1>1, <2>2, <3>2
    <3>3. CASE lease'[s].by # k
      <4>1. lease[s].by = lease'[s].by /\ s \notin remains.slots
        BY <2>2, <3>3
      <4>2. job[lease[s].by].slot = s
        BY <1>0, <2>2, <4>1 DEF Leaseholds
      <4> QED BY <1>1, <3>1, <3>3, <4>1, <4>2
    <3> QED BY <3>2, <3>3
  <2> QED BY <2>1, <2>2 DEF Leaseholds
<1>3. Underway'
  <2>1. ASSUME NEW x \in B!Key PROVE OnCourse(job[x], dirs[x], B!Head_(x), Left(x))'
    <3>1. CASE x = k
      BY <1>1, <3>1 DEF OnCourse, B!Head_
    <3>2. CASE x # k
      <4>1. OnCourse(job[x], dirs[x], B!Head_(x), Left(x)) /\ job'[x] = job[x] /\ dirs'[x] = dirs[x]
            /\ (Left(x)' <=> Left(x))
        BY <1>0, <1>1, <2>1, <3>2 DEF Underway
      <4>2. B!Head_(x)' = B!Head_(x)
        <5>1. job[x].slot # B!NoSlot => lease'[job[x].slot] = lease[job[x].slot]
          BY <2>1, <3>2
        <5> QED BY <4>1, <5>1 DEF B!Head_
      <4> QED BY <4>1, <4>2 DEF OnCourse
    <3> QED BY <3>1, <3>2
  <2> QED BY <2>1 DEF Underway
<1> QED BY <1>1, <1>2, <1>3

\* A start that goes on with the slot it has, or with none.
LEMMA GoesOn ==
  ASSUME BaseInv, B!NoSlot \notin Slot, tip' = tip, remains' = remains,
         NEW k \in B!Key, NEW j \in Start, job' = [job EXCEPT ![k] = j], j.slot = job[k].slot,
         NEW d \in Nat, dirs' = [dirs EXCEPT ![k] = d],
         NEW h \in Nat, lease' = lease \/ lease' = [lease EXCEPT ![j.slot].head = h],
         OnCourse(j, d, IF j.slot # B!NoSlot THEN lease'[j.slot].head ELSE d, Left(k))
  PROVE  /\ lease' \in [Slot -> Lease] /\ dirs' \in [B!Key -> Nat] /\ job' \in [B!Key -> Start]
         /\ remains' \in Remains /\ Leaseholds' /\ Underway'
<1>0. job \in [B!Key -> Start] /\ lease \in [Slot -> Lease] /\ Leaseholds /\ remains \in Remains
  BY DEF BaseInv, GroundShape
<1>1. /\ lease' \in [Slot -> Lease] /\ \A s \in Slot : lease'[s].by = lease[s].by
      /\ \A s \in Slot \ {j.slot} : lease'[s] = lease[s]
  <2>1. CASE lease' = lease
    BY <1>0, <2>1
  <2>2. CASE lease' = [lease EXCEPT ![j.slot].head = h]
    <3>1. \A s \in Slot : lease'[s] = IF s = j.slot THEN [lease[s] EXCEPT !.head = h] ELSE lease[s]
      BY <1>0, <2>2
    <3>2. \A s \in Slot : /\ [lease[s] EXCEPT !.head = h] \in Lease
                          /\ [lease[s] EXCEPT !.head = h].by = lease[s].by
      BY <1>0 DEF Lease
    <3> QED BY <1>0, <2>2, <3>1, <3>2
  <2> QED BY <2>1, <2>2
<1>2. \A x \in B!Key : job[x].slot # B!NoSlot =>
        job[x].slot \in Slot /\ lease[job[x].slot].by = x /\ job[x].slot \notin remains.slots
  BY <1>0 DEF Leaseholds, Start
<1>3. ASSUME NEW x \in B!Key \ {k}, job[x].slot # B!NoSlot
      PROVE  lease'[job[x].slot] = lease[job[x].slot] /\ job[x].slot \notin remains'.slots
  <2>1. job[x].slot # job[k].slot
    BY <1>2, <1>3
  <2> QED BY <1>1, <1>2, <1>3, <2>1
<1>4. j.slot # B!NoSlot => lease'[j.slot].by = k /\ j.slot \notin remains'.slots
  BY <1>1, <1>2
<1>5. ASSUME NEW s \in Slot
      PROVE  /\ lease'[s].by = k => s \in remains'.slots \/ j.slot = s
             /\ lease'[s].by \notin {k, <<>>} => lease[s].by = lease'[s].by
  <2>1. lease'[s].by = lease[s].by /\ k # <<>>
    BY <1>1, KeysArePairs
  <2>2. lease[s].by # <<>> => s \in remains.slots \/ job[lease[s].by].slot = s
    BY <1>0 DEF Leaseholds
  <2> QED BY <2>1, <2>2
<1>6. /\ remains' \in Remains /\ remains.slots \subseteq remains'.slots
      /\ \A s \in remains'.slots : lease'[s].by # <<>>
  BY <1>0, <1>1 DEF Leaseholds, Remains
<1>7. (Left(k)' <=> Left(k)) /\ \A x \in B!Key \ {k} : Left(x)' <=> Left(x)
  BY DEF Left
<1>8. OnCourse(j, d, IF j.slot # B!NoSlot THEN lease'[j.slot].head ELSE d, Left(k)')
  BY <1>7 DEF Left
<1>9. \A x \in B!Key \ {k} : job[x].slot # B!NoSlot =>
        lease'[job[x].slot] = lease[job[x].slot] /\ job[x].slot \notin remains'.slots
  BY <1>3
<1>10. \A s \in Slot : /\ lease'[s].by = k => s \in remains'.slots \/ j.slot = s
                       /\ lease'[s].by \notin {k, <<>>} => lease[s].by = lease'[s].by
  BY <1>5
<1>11. lease' \in [Slot -> Lease]
  BY <1>1
<1> HIDE DEF OnCourse, Left
<1> QED BY <1>4, <1>6, <1>7, <1>8, <1>9, <1>10, <1>11, OneMoves

\* A start that ends: its slot is given back or remains, its directory is gone or remains.
LEMMA Leaves ==
  ASSUME BaseInv, B!NoSlot \notin Slot, tip' = tip,
         NEW k \in B!Key, job' = [job EXCEPT ![k] = B!Idle],
         NEW d \in Nat, dirs' = [dirs EXCEPT ![k] = d], remains' \in Remains,
         d # 0 <=> Left(k)', \A x \in B!Key \ {k} : Left(x)' <=> Left(x),
         \/ lease' = [lease EXCEPT ![job[k].slot].by = <<>>] /\ remains'.slots = remains.slots
         \/ lease' = lease /\ job[k].slot = B!NoSlot /\ remains'.slots = remains.slots
         \/ lease' = lease /\ job[k].slot # B!NoSlot /\ remains'.slots = remains.slots \cup {job[k].slot}
  PROVE  /\ lease' \in [Slot -> Lease] /\ dirs' \in [B!Key -> Nat] /\ job' \in [B!Key -> Start]
         /\ remains' \in Remains /\ Leaseholds' /\ Underway'
<1>0. job \in [B!Key -> Start] /\ lease \in [Slot -> Lease] /\ Leaseholds /\ tip \in Nat /\ remains \in Remains
  BY DEF BaseInv, GroundShape
<1> DEFINE j == B!Idle
<1>1. j \in Start /\ j.at = "idle" /\ j.slot = B!NoSlot /\ ~j.own /\ j.asked = 0
  BY DEF B!Idle, Start, Before
<1>2. OnCourse(j, d, IF j.slot # B!NoSlot THEN lease'[j.slot].head ELSE d, Left(k)')
  <2> HIDE DEF j
  <2>3. /\ "idle" \notin Based /\ "idle" \notin {"carry", "checkout"} /\ "idle" \notin Holding
        /\ "idle" \notin {"stands", "probe"}
    BY DEF Based, Holding
  <2>4. j.asked <= tip
    BY <1>0, <1>1
  <2> QED BY <1>1, <2>3, <2>4, Zenon DEF OnCourse
<1> HIDE DEF j
<1>3. /\ lease' \in [Slot -> Lease]
      /\ \A s \in Slot : s # job[k].slot => lease'[s] = lease[s]
  <2>1. CASE lease' = lease
    BY <1>0, <2>1
  <2>2. CASE lease' = [lease EXCEPT ![job[k].slot].by = <<>>]
    <3>1. ASSUME job[k].slot \in Slot PROVE [lease[job[k].slot] EXCEPT !.by = <<>>] \in Lease
      BY <1>0, <3>1 DEF Lease
    <3>2. lease' = [s \in Slot |-> IF s = job[k].slot THEN [lease[s] EXCEPT !.by = <<>>] ELSE lease[s]]
      BY <1>0, <2>2
    <3>3. \A s \in Slot : lease'[s] \in Lease /\ (s # job[k].slot => lease'[s] = lease[s])
      BY <1>0, <3>1, <3>2
    <3> QED BY <3>2, <3>3
  <2> QED BY <2>1, <2>2
<1>4. \A x \in B!Key : job[x].slot # B!NoSlot =>
        job[x].slot \in Slot /\ lease[job[x].slot].by = x /\ job[x].slot \notin remains.slots
  BY <1>0 DEF Leaseholds, Start
<1>5. ASSUME NEW x \in B!Key \ {k}, job[x].slot # B!NoSlot
      PROVE  lease'[job[x].slot] = lease[job[x].slot] /\ job[x].slot \notin remains'.slots
  <2>1. job[x].slot # job[k].slot
    BY <1>4, <1>5
  <2> QED BY <1>3, <1>4, <1>5, <2>1
<1>6. ASSUME NEW s \in Slot
      PROVE  /\ lease'[s].by = k => s \in remains'.slots
             /\ lease'[s].by \notin {k, <<>>} => lease[s].by = lease'[s].by
             /\ s \in remains'.slots => lease'[s].by # <<>>
  <2>1. k # <<>> /\ (s \in remains.slots => lease[s].by # <<>>)
    BY <1>0, KeysArePairs DEF Leaseholds
  <2>2. lease[s].by = k => s \in remains.slots \/ job[k].slot = s
    BY <1>0, <2>1 DEF Leaseholds
  <2>3. CASE s = job[k].slot
    <3>1. job[k].slot # B!NoSlot /\ lease[s].by = k /\ s \notin remains.slots
      BY <1>4, <2>3
    <3>2. CASE lease' = [lease EXCEPT ![job[k].slot].by = <<>>] /\ remains'.slots = remains.slots
      <4>1. lease'[s].by = <<>>
        BY <1>0, <2>3, <3>2 DEF Lease
      <4> QED BY <2>1, <3>1, <3>2, <4>1
    <3>3. CASE lease' = lease /\ remains'.slots = remains.slots \cup {job[k].slot}
      BY <2>1, <2>3, <3>1, <3>3
    <3> QED BY <3>1, <3>2, <3>3
  <2>4. CASE s # job[k].slot
    BY <1>3, <2>1, <2>2, <2>4
  <2> QED BY <2>3, <2>4
<1>7. j.slot # B!NoSlot => lease'[j.slot].by = k /\ j.slot \notin remains'.slots
  BY <1>1
<1>8. job' = [job EXCEPT ![k] = j]
  BY DEF j
<1>9. j \in Start /\ lease' \in [Slot -> Lease] /\ remains.slots \subseteq remains'.slots
  BY <1>1, <1>3
<1>10. \A s \in remains'.slots : lease'[s].by # <<>>
  BY <1>6 DEF Remains
<1> QED BY <1>2, <1>5, <1>6, <1>7, <1>8, <1>9, <1>10, OneMoves

LEMMA BaseKeeps == B!BaseAssumption /\ BaseInv /\ [B!Next]_B!vars => BaseInv'
<1> SUFFICES ASSUME B!BaseAssumption, BaseInv, [B!Next]_B!vars PROVE BaseInv'
  OBVIOUS
<1> DEFINE Stays == /\ lease' \in [Slot -> Lease] /\ dirs' \in [B!Key -> Nat] /\ job' \in [B!Key -> Start]
                   /\ remains' \in Remains /\ Leaseholds' /\ Underway'
<1>0. /\ tip \in Nat \ {0} /\ clone \in [Board -> [st : {"none", "cloning", "ready", "torn"}, ref : Nat]]
      /\ pool \in [origin : Nat, base : [B!Card -> Nat]]
      /\ lease \in [Slot -> Lease] /\ dirs \in [B!Key -> Nat] /\ job \in [B!Key -> Start]
      /\ remains \in Remains /\ Cloned /\ Leaseholds /\ Underway /\ B!NoSlot \notin Slot /\ Home \in Board
  BY DEF BaseInv, GroundShape, B!BaseAssumption
<1>1. \A k \in B!Key : k[1] \in Board /\ k[2] \in B!Card /\ OnCourse(job[k], dirs[k], B!Head_(k), Left(k))
  BY <1>0, KeysArePairs DEF Underway
<1>2. ASSUME Stays, Cloned', tip' = tip, clone' = clone, pool' = pool PROVE BaseInv'
  BY <1>0, <1>2 DEF BaseInv, GroundShape
<1>3. ASSUME UNCHANGED <<lease, dirs, job, remains>>, tip' = tip PROVE Stays
  BY <1>0, <1>3 DEF Leaseholds, Underway, OnCourse, Left, B!Head_
<1>4. ASSUME UNCHANGED <<job, clone>> PROVE Cloned'
  BY <1>0, <1>4 DEF Cloned
<1>5. ASSUME NEW w \in Board, B!AddProject(w) \/ B!Cloned(w) \/ B!CloneFails(w) PROVE BaseInv'
  <2>1. UNCHANGED <<tip, lease, dirs, job, pool, remains>>
    BY <1>5 DEF B!AddProject, B!Cloned, B!CloneFails
  <2> DEFINE States == {"none", "cloning", "ready", "torn"}
             Clone == [st : States, ref : Nat]
  <2>2. PICK c \in Clone : /\ clone' = [clone EXCEPT ![w] = c] /\ (c.st = "ready" => c.ref # 0)
                            /\ (clone[w].ref # 0 => c.ref # 0)
    <3>1. ASSUME NEW st \in {"none", "cloning", "torn"}, clone' = [clone EXCEPT ![w].st = st]
          PROVE  \E c \in Clone : /\ clone' = [clone EXCEPT ![w] = c] /\ (c.st = "ready" => c.ref # 0)
                                  /\ (clone[w].ref # 0 => c.ref # 0)
      <4> DEFINE c == [clone[w] EXCEPT !.st = st]
      <4>1. c \in Clone /\ c.st = st /\ c.ref = clone[w].ref
        BY <1>0
      <4>2. clone' = [clone EXCEPT ![w] = c]
        BY <1>0, <3>1
      <4> HIDE DEF c, Clone
      <4> QED BY <4>1, <4>2
    <3>2. CASE B!Cloned(w)
      <4> DEFINE c == [st |-> "ready", ref |-> tip]
      <4>1. c \in Clone /\ c.ref # 0
        BY <1>0
      <4>2. clone' = [clone EXCEPT ![w] = c]
        BY <3>2 DEF B!Cloned
      <4> HIDE DEF c, Clone
      <4> QED BY <4>1, <4>2
    <3>3. CASE B!AddProject(w) \/ B!CloneFails(w)
      <4>1. PICK st \in {"none", "cloning", "torn"} : clone' = [clone EXCEPT ![w].st = st]
        BY <3>3 DEF B!AddProject, B!CloneFails
      <4> QED BY <3>1, <4>1
    <3> QED BY <1>5, <3>2, <3>3
  <2>3. clone' \in [Board -> [st : States, ref : Nat]] /\ Cloned'
    BY <1>0, <1>1, <2>1, <2>2 DEF Cloned
  <2>4. Leaseholds' /\ Underway'
    BY <1>0, <2>1 DEF Leaseholds, Underway, OnCourse, Left, B!Head_
  <2> QED BY <1>0, <2>1, <2>3, <2>4 DEF BaseInv, GroundShape
<1>6. CASE B!OriginGrows
  <2>1. /\ tip' = tip + 1 /\ clone' = clone /\ pool' = pool /\ lease' = lease /\ dirs' = dirs
        /\ job' = job /\ remains' = remains
    BY <1>6 DEF B!OriginGrows
  <2>2. ASSUME NEW k \in B!Key PROVE OnCourse(job[k], dirs[k], B!Head_(k), Left(k))'
    <3>1. job[k].asked \in Nat
      BY <1>0 DEF Start
    <3>2. /\ OnCourse(job[k], dirs[k], B!Head_(k), Left(k)) /\ B!Head_(k)' = B!Head_(k)
          /\ (Left(k)' <=> Left(k))
      BY <1>1, <2>1 DEF B!Head_, Left
    <3>3. job[k].asked <= tip => job[k].asked <= tip + 1
      BY <1>0, <3>1
    <3> QED BY <2>1, <3>2, <3>3, Zenon DEF OnCourse
  <2>3. Leaseholds'
    BY <1>0, <2>1 DEF Leaseholds
  <2>4. GroundShape'
    BY <1>0, <2>1 DEF GroundShape
  <2> QED BY <1>4, <2>1, <2>2, <2>3, <2>4 DEF BaseInv, Underway
<1>7. CASE B!PoolFetches
  <2>1. UNCHANGED <<tip, clone, lease, dirs, job, remains>> /\ pool' = [pool EXCEPT !.origin = tip]
    BY <1>7 DEF B!PoolFetches
  <2>2. pool' \in [origin : Nat, base : [B!Card -> Nat]]
    BY <1>0, <2>1
  <2> QED BY <1>0, <1>3, <1>4, <2>1, <2>2 DEF BaseInv, GroundShape
\* One start goes on: what it becomes, and where its HEAD is.
<1>8. ASSUME NEW k \in B!Key, NEW j \in Start, B!Job(k, j), j.slot = job[k].slot,
             NEW d \in Nat, dirs' = [dirs EXCEPT ![k] = d], NEW h \in Nat,
             lease' = lease \/ lease' = [lease EXCEPT ![j.slot].head = h],
             remains' = remains, tip' = tip,
             OnCourse(j, d, IF j.slot # B!NoSlot THEN lease'[j.slot].head ELSE d, Left(k))
      PROVE  Stays
  BY <1>0, <1>8, GoesOn DEF B!Job
<1>9. ASSUME NEW k \in B!Key, B!Job(k, B!Idle), tip' = tip,
             NEW d \in Nat, dirs' = [dirs EXCEPT ![k] = d], remains' \in Remains,
             d # 0 <=> Left(k)', \A x \in B!Key \ {k} : Left(x)' <=> Left(x),
             \/ lease' = [lease EXCEPT ![job[k].slot].by = <<>>] /\ remains'.slots = remains.slots
             \/ lease' = lease /\ job[k].slot = B!NoSlot /\ remains'.slots = remains.slots
             \/ lease' = lease /\ job[k].slot # B!NoSlot /\ remains'.slots = remains.slots \cup {job[k].slot}
      PROVE  Stays
  BY <1>0, <1>9, Leaves DEF B!Job
<1> HIDE DEF Stays
<1>10. ASSUME NEW k \in B!Key
       PROVE  /\ job[k] \in Start /\ OnCourse(job[k], dirs[k], B!Head_(k), Left(k)) /\ dirs[k] \in Nat
              /\ dirs' = dirs => dirs' = [dirs EXCEPT ![k] = dirs[k]]
              /\ lease' = lease => B!Head_(k) = IF job[k].slot # B!NoSlot THEN lease'[job[k].slot].head ELSE dirs[k]
  BY <1>0, <1>1, <1>10 DEF B!Head_
<1>11. 0 \in Nat /\ 1 \in Nat
  OBVIOUS
\* Its lease, its directory and so its HEAD are left alone.
<1>12. ASSUME NEW k \in B!Key, NEW j \in Start, B!Job(k, j), j.slot = job[k].slot,
              UNCHANGED <<dirs, lease, remains, tip>>, OnCourse(j, dirs[k], B!Head_(k), Left(k))
       PROVE  Stays
  <2>1. OnCourse(j, dirs[k], IF j.slot # B!NoSlot THEN lease'[j.slot].head ELSE dirs[k], Left(k))
    BY <1>10, <1>12
  <2> QED BY <1>8, <1>10, <1>11, <1>12, <2>1
<1>13. ASSUME NEW k \in B!Key, B!CreateWorktree(k) PROVE Stays
  <2> DEFINE j == [job[k] EXCEPT !.at = "fetch", !.asked = tip]
  <2>1. B!Job(k, j) /\ UNCHANGED <<tip, dirs, lease, remains>> /\ job[k].at = "idle"
    BY <1>13 DEF B!CreateWorktree, B!WithProjectLock
  <2>2. /\ j \in Start /\ j.slot = job[k].slot /\ j.own = job[k].own /\ j.at = "fetch" /\ j.asked = tip
    BY <1>0, <1>10 DEF Start, Before
  <2> HIDE DEF j
  <2>3. OnCourse(j, dirs[k], B!Head_(k), Left(k))
    BY <1>0, <1>10, <2>1, <2>2 DEF OnCourse, Before, Based, Holding
  <2> QED BY <1>12, <2>1, <2>2, <2>3
<1>14. ASSUME NEW k \in B!Key, B!FreshBase(k) PROVE Stays
  <2>1. UNCHANGED <<tip, dirs, lease, remains>> /\ job[k].at = "fetch"
    BY <1>14 DEF B!FreshBase, B!At
  <2>2. PICK b \in Nat, y \in BOOLEAN :
          B!Job(k, [job[k] EXCEPT !.at = "get", !.base = b, !.warned = y]) /\ (y \/ b = tip)
    <3>1. CASE B!Job(k, [job[k] EXCEPT !.at = "get", !.base = B!Fetched(k[1])])
      <4>1. [job[k] EXCEPT !.at = "get", !.base = tip]
            = [job[k] EXCEPT !.at = "get", !.base = tip, !.warned = job[k].warned] /\ job[k].warned \in BOOLEAN
        BY <1>10 DEF Start
      <4> QED BY <1>0, <3>1, <4>1 DEF B!Fetched
    <3>2. CASE B!Job(k, [job[k] EXCEPT !.at = "get", !.base = clone[k[1]].ref, !.warned = TRUE])
      <4>1. clone[k[1]].ref \in Nat
        BY <1>0, <1>1
      <4> QED BY <3>2, <4>1
    <3> QED BY <1>14, <3>1, <3>2 DEF B!FreshBase
  <2> DEFINE j == [job[k] EXCEPT !.at = "get", !.base = b, !.warned = y]
  <2>3. /\ j \in Start /\ j.slot = job[k].slot /\ j.own = job[k].own /\ j.at = "get" /\ j.base = b
        /\ j.warned = y /\ j.asked = job[k].asked
    BY <1>10 DEF Start, Based
  <2>4. B!Job(k, j)
    BY <2>2
  <2> HIDE DEF j
  <2>5. OnCourse(j, dirs[k], B!Head_(k), Left(k))
    BY <1>0, <1>10, <2>1, <2>2, <2>3 DEF OnCourse, Before, Based, Holding
  <2> QED BY <1>12, <2>1, <2>3, <2>4, <2>5
\* A start that only goes from one stage to another, neither of them with a HEAD to keep.
<1>15. ASSUME NEW k \in B!Key, NEW st \in Before \cup Based \cup {"stuck"}, B!Job(k, [job[k] EXCEPT !.at = st]),
              UNCHANGED <<dirs, lease, remains, tip>>,
              st \in Before => job[k].at \in Before,
              st \in Based => job[k].at \in Based,
              st \in {"carry", "checkout"} => job[k].at \in {"carry", "checkout"},
              st \in {"stands", "probe"} => B!Head_(k) = job[k].base,
              st \in Holding => job[k].at \in Holding
       PROVE  Stays
  <2> DEFINE j == [job[k] EXCEPT !.at = st]
  <2>1. /\ j \in Start /\ j.slot = job[k].slot /\ j.own = job[k].own /\ j.at = st /\ j.base = job[k].base
        /\ j.warned = job[k].warned /\ j.asked = job[k].asked
    BY <1>10 DEF Start
  <2> HIDE DEF j
  <2>2. OnCourse(j, dirs[k], B!Head_(k), Left(k))
    BY <1>10, <1>15, <2>1 DEF OnCourse
  <2> QED BY <1>12, <1>15, <2>1, <2>2 DEF j
<1>16. ASSUME NEW k \in B!Key, B!TreehouseFails(k) \/ B!ApplyBase(k) PROVE Stays
  <2>1. /\ UNCHANGED <<tip, dirs, lease, remains>>
        /\ \/ job[k].at = "get" /\ B!Job(k, [job[k] EXCEPT !.at = "add"])
           \/ job[k].at = "carry" /\ B!Job(k, [job[k] EXCEPT !.at = "checkout"])
    BY <1>16 DEF B!TreehouseFails, B!ApplyBase, B!At
  <2>2. CASE job[k].at = "get" /\ B!Job(k, [job[k] EXCEPT !.at = "add"])
    BY <1>15, <2>1, <2>2 DEF Before, Based, Holding
  <2>3. CASE job[k].at = "carry" /\ B!Job(k, [job[k] EXCEPT !.at = "checkout"])
    BY <1>15, <2>1, <2>3 DEF Before, Based, Holding
  <2> QED BY <2>1, <2>2, <2>3
<1>17. ASSUME NEW k \in B!Key, B!Asserted(k) \/ B!ReleaseWorktree(k) \/ B!NotReleased(k) PROVE Stays
  <2>1. UNCHANGED <<tip, dirs, lease, remains>>
    BY <1>17 DEF B!Asserted, B!ReleaseWorktree, B!NotReleased
  <2>2. CASE B!Asserted(k)
    BY <1>15, <2>1, <2>2 DEF B!Asserted, B!At, B!OnBase, Before, Based, Holding
  <2>3. CASE B!ReleaseWorktree(k)
    <3>1. job[k].at = "stands" /\ B!Job(k, [job[k] EXCEPT !.at = "probe", !.asked = job[k].asked])
      BY <2>3 DEF B!ReleaseWorktree, B!WithProjectLock
    <3>2. [job[k] EXCEPT !.at = "probe", !.asked = job[k].asked] = [job[k] EXCEPT !.at = "probe"]
      BY <1>10 DEF Start
    <3>3. B!Head_(k) = job[k].base
      BY <1>10, <3>1 DEF OnCourse
    <3> QED BY <1>15, <2>1, <3>1, <3>2, <3>3 DEF Before, Based, Holding
  <2>4. CASE B!NotReleased(k)
    <3>1. /\ job[k].at = "probe"
          /\ B!Job(k, [job[k] EXCEPT !.at = "stands"]) \/ B!Job(k, [job[k] EXCEPT !.at = "stuck"])
      BY <2>4 DEF B!NotReleased, B!At
    <3>2. B!Head_(k) = job[k].base
      BY <1>10, <3>1 DEF OnCourse
    <3> QED BY <1>15, <2>1, <3>1, <3>2 DEF Before, Based, Holding
  <2> QED BY <1>17, <2>2, <2>3, <2>4
\* A free slot is leased for the card: nobody else has it, and it has not remained.
<1> DEFINE Hires(k, s) == lease[s].by = <<>> /\ lease' = [lease EXCEPT ![s].by = k]
<1>18. ASSUME NEW k \in B!Key, NEW s \in Slot, Hires(k, s), job[k].at = "get"
       PROVE  /\ lease' \in [Slot -> Lease] /\ lease'[s].by = k /\ s \notin remains.slots /\ k # <<>>
              /\ \A x \in Slot \ {s} : lease'[x] = lease[x]
              /\ \A x \in B!Key : job[x].slot # B!NoSlot =>
                   lease'[job[x].slot] = lease[job[x].slot] /\ job[x].slot \notin remains.slots /\ job[x].slot # s
              /\ \A x \in Slot : /\ lease'[x].by = k => x \in remains.slots \/ x = s
                                 /\ lease'[x].by \notin {k, <<>>} => lease[x].by = lease'[x].by
              /\ \A x \in remains.slots : lease'[x].by # <<>>
              /\ job[k].slot = B!NoSlot /\ ~job[k].own
              /\ dirs' = dirs => dirs' = [dirs EXCEPT ![k] = dirs[k]]
  <2>1. /\ lease' \in [Slot -> Lease] /\ lease'[s].by = k /\ s \notin remains.slots /\ k # <<>>
        /\ \A x \in Slot \ {s} : lease'[x] = lease[x]
    <3>1. [lease[s] EXCEPT !.by = k] \in Lease /\ [lease[s] EXCEPT !.by = k].by = k
      BY <1>0, <1>18 DEF Lease
    <3>2. \A x \in Slot : lease'[x] = IF x = s THEN [lease[s] EXCEPT !.by = k] ELSE lease[x]
      BY <1>0, <1>18
    <3>3. lease' = [x \in Slot |-> IF x = s THEN [lease[s] EXCEPT !.by = k] ELSE lease[x]]
      BY <1>0, <1>18
    <3>4. k # <<>> /\ s \notin remains.slots
      BY <1>0, <1>18, KeysArePairs DEF Leaseholds
    <3> QED BY <1>0, <3>1, <3>2, <3>3, <3>4
  <2>2. ASSUME NEW x \in B!Key, job[x].slot # B!NoSlot
        PROVE  lease'[job[x].slot] = lease[job[x].slot] /\ job[x].slot \notin remains.slots /\ job[x].slot # s
    <3>1. lease[job[x].slot].by = x /\ x # <<>> /\ job[x].slot \in Slot /\ job[x].slot \notin remains.slots
      BY <1>0, <2>2, KeysArePairs DEF Leaseholds, Start
    <3> QED BY <1>18, <2>1, <3>1
  <2>3. job[k].slot = B!NoSlot /\ ~job[k].own
    BY <1>10, <1>18 DEF OnCourse, Before
  <2>4. ASSUME NEW x \in Slot
        PROVE  /\ lease'[x].by = k => x \in remains.slots \/ x = s
               /\ lease'[x].by \notin {k, <<>>} => lease[x].by = lease'[x].by
    <3>1. lease[x].by = k => x \in remains.slots \/ job[k].slot = x
      BY <1>0, <2>1 DEF Leaseholds
    <3> QED BY <1>0, <2>1, <2>3, <2>4, <3>1
  <2>5. ASSUME NEW x \in remains.slots PROVE lease'[x].by # <<>>
    BY <1>0, <2>1, <2>5 DEF Leaseholds, Remains
  <2>6. dirs' = dirs => dirs' = [dirs EXCEPT ![k] = dirs[k]]
    BY <1>10
  <2> QED BY <2>1, <2>2, <2>3, <2>4, <2>5, <2>6
<1> HIDE DEF Hires
<1>26. ASSUME NEW k \in B!Key, B!TreehouseGet(k) PROVE Stays
  <2>1. PICK s \in Slot : /\ Hires(k, s)
                          /\ B!Job(k, [job[k] EXCEPT !.at = "carry", !.slot = s])
    BY <1>26 DEF B!TreehouseGet, Hires
  <2>2. UNCHANGED <<tip, dirs, remains>> /\ job[k].at = "get"
    BY <1>26 DEF B!TreehouseGet, B!At
  <2> DEFINE j == [job[k] EXCEPT !.at = "carry", !.slot = s]
  <2>3. /\ j \in Start /\ j.slot = s /\ j.own = job[k].own /\ j.at = "carry" /\ j.base = job[k].base
        /\ j.warned = job[k].warned /\ j.asked = job[k].asked
    BY <1>10 DEF Start, Based
  <2>4. job' = [job EXCEPT ![k] = j]
    BY <2>1 DEF B!Job
  <2> HIDE DEF j
  <2>5. /\ lease' \in [Slot -> Lease] /\ dirs' = [dirs EXCEPT ![k] = dirs[k]] /\ dirs[k] \in Nat
        /\ remains' \in Remains /\ remains.slots \subseteq remains'.slots
    BY <1>0, <1>10, <1>18, <2>1, <2>2
  <2>6. \A x \in B!Key \ {k} : job[x].slot # B!NoSlot =>
          lease'[job[x].slot] = lease[job[x].slot] /\ job[x].slot \notin remains'.slots
    BY <1>18, <2>1, <2>2
  <2>7. (Left(k)' <=> Left(k)) /\ (\A x \in B!Key \ {k} : Left(x)' <=> Left(x))
    BY <2>2 DEF Left
  <2>8. OnCourse(j, dirs[k], IF j.slot # B!NoSlot THEN lease'[j.slot].head ELSE dirs[k], Left(k)')
    BY <1>0, <1>10, <2>2, <2>3, <2>7 DEF OnCourse, Before, Based, Holding
  <2>11. /\ \A x \in Slot : /\ lease'[x].by = k => x \in remains.slots \/ x = s
                            /\ lease'[x].by \notin {k, <<>>} => lease[x].by = lease'[x].by
         /\ \A x \in remains.slots : lease'[x].by # <<>>
    <3>1. Hires(k, s) /\ job[k].at = "get"
      BY <2>1, <2>2
    <3> QED BY <3>1, <1>18
  <2>9. /\ \A x \in Slot : /\ lease'[x].by = k => x \in remains'.slots \/ j.slot = x
                           /\ lease'[x].by \notin {k, <<>>} => lease[x].by = lease'[x].by
        /\ \A x \in remains'.slots : lease'[x].by # <<>>
    BY <2>2, <2>3, <2>11
  <2>10. j.slot # B!NoSlot => lease'[j.slot].by = k /\ j.slot \notin remains'.slots
    BY <1>18, <2>1, <2>2, <2>3
  <2> HIDE DEF OnCourse, Left
  <2>12. /\ tip' = tip /\ B!NoSlot \notin Slot /\ j \in Start
         /\ \A x \in B!Key \ {k} : Left(x)' <=> Left(x)
         /\ remains.slots \subseteq remains'.slots /\ remains' \in Remains /\ lease' \in [Slot -> Lease]
         /\ dirs[k] \in Nat /\ dirs' = [dirs EXCEPT ![k] = dirs[k]]
    BY <1>0, <2>2, <2>3, <2>5, <2>7, <2>10
  <2>13. /\ j.slot # B!NoSlot => lease'[j.slot].by = k /\ j.slot \notin remains'.slots
         /\ \A x \in remains'.slots : lease'[x].by # <<>>
    BY <2>3, <2>9, <2>10
  <2> QED BY <2>4, <2>6, <2>8, <2>12, <2>13, <2>9, OneMoves DEF Stays
<1>27. ASSUME NEW k \in B!Key, B!TreehouseLoses(k) PROVE Stays
  <2>1. PICK s \in Slot : /\ Hires(k, s)
                          /\ remains' = [remains EXCEPT !.slots = @ \cup {s}]
    BY <1>27 DEF B!TreehouseLoses, Hires
  <2>2. UNCHANGED <<tip, dirs>> /\ job[k].at = "get" /\ B!Job(k, [job[k] EXCEPT !.at = "add"])
    BY <1>27 DEF B!TreehouseLoses, B!At
  <2>11. /\ lease' \in [Slot -> Lease] /\ lease'[s].by = k /\ k # <<>>
         /\ \A x \in B!Key : job[x].slot # B!NoSlot =>
              lease'[job[x].slot] = lease[job[x].slot] /\ job[x].slot \notin remains.slots /\ job[x].slot # s
         /\ \A x \in Slot : /\ lease'[x].by = k => x \in remains.slots \/ x = s
                            /\ lease'[x].by \notin {k, <<>>} => lease[x].by = lease'[x].by
         /\ \A x \in remains.slots : lease'[x].by # <<>>
         /\ job[k].slot = B!NoSlot /\ ~job[k].own /\ dirs' = [dirs EXCEPT ![k] = dirs[k]]
    <3>1. Hires(k, s) /\ job[k].at = "get" /\ dirs' = dirs
      BY <2>1, <2>2
    <3> QED BY <3>1, <1>18
  <2> DEFINE j == [job[k] EXCEPT !.at = "add"]
  <2>3. /\ j \in Start /\ j.slot = B!NoSlot /\ j.own = job[k].own /\ j.at = "add" /\ j.base = job[k].base
        /\ j.warned = job[k].warned /\ j.asked = job[k].asked
    <3>1. job[k] \in Start /\ job[k].slot = B!NoSlot
      BY <1>0, <2>11
    <3> QED BY <3>1 DEF Start, Before, Based
  <2>4. job' = [job EXCEPT ![k] = j]
    BY <2>2 DEF B!Job
  <2> HIDE DEF j
  <2>5. /\ remains' \in Remains /\ remains'.slots = remains.slots \cup {s} /\ remains'.dirs = remains.dirs
    BY <1>0, <2>1 DEF Remains
  <2>6. \A x \in B!Key \ {k} : job[x].slot # B!NoSlot =>
          lease'[job[x].slot] = lease[job[x].slot] /\ job[x].slot \notin remains'.slots
    BY <2>11, <2>5
  <2>7. (Left(k)' <=> Left(k)) /\ (\A x \in B!Key \ {k} : Left(x)' <=> Left(x))
    BY <2>5 DEF Left
  <2>8. OnCourse(j, dirs[k], IF j.slot # B!NoSlot THEN lease'[j.slot].head ELSE dirs[k], Left(k)')
    BY <1>0, <1>10, <2>2, <2>3, <2>7 DEF OnCourse, Before, Based, Holding
  <2>9. /\ \A x \in Slot : /\ lease'[x].by = k => x \in remains'.slots \/ j.slot = x
                           /\ lease'[x].by \notin {k, <<>>} => lease[x].by = lease'[x].by
        /\ \A x \in remains'.slots : lease'[x].by # <<>>
    BY <2>11, <2>5
  <2>10. /\ lease' \in [Slot -> Lease] /\ dirs' = [dirs EXCEPT ![k] = dirs[k]] /\ dirs[k] \in Nat
         /\ remains.slots \subseteq remains'.slots
    BY <1>0, <1>10, <2>11, <2>5
  <2> HIDE DEF OnCourse, Left
  <2>12. /\ tip' = tip /\ B!NoSlot \notin Slot /\ j \in Start
         /\ \A x \in B!Key \ {k} : Left(x)' <=> Left(x)
         /\ remains.slots \subseteq remains'.slots /\ remains' \in Remains /\ lease' \in [Slot -> Lease]
         /\ dirs[k] \in Nat /\ dirs' = [dirs EXCEPT ![k] = dirs[k]]
    BY <1>0, <2>2, <2>3, <2>5, <2>7, <2>10
  <2>13. /\ j.slot # B!NoSlot => lease'[j.slot].by = k /\ j.slot \notin remains'.slots
         /\ \A x \in remains'.slots : lease'[x].by # <<>>
    BY <2>3, <2>9, <2>10
  <2> QED BY <2>4, <2>6, <2>8, <2>12, <2>13, <2>9, OneMoves DEF Stays
<1>19. ASSUME NEW k \in B!Key, B!Checkout(k) \/ B!CarryFails(k) PROVE Stays
  <2>1. UNCHANGED <<tip, dirs, remains>> /\ job[k].at \in {"carry", "checkout"}
    BY <1>19 DEF B!Checkout, B!CarryFails, B!At
  <2>2. PICK h \in Nat, y \in BOOLEAN :
          /\ lease' = [lease EXCEPT ![job[k].slot].head = h]
          /\ B!Job(k, [job[k] EXCEPT !.at = "assert", !.warned = y]) /\ (job[k].warned => y)
    <3>1. CASE B!Checkout(k)
      <4>1. [job[k] EXCEPT !.at = "assert"] = [job[k] EXCEPT !.at = "assert", !.warned = job[k].warned]
            /\ job[k].warned \in BOOLEAN
        BY <1>10 DEF Start
      <4>2. pool.base[k[2]] \in Nat
        BY <1>0, <1>1
      <4> QED BY <3>1, <4>1, <4>2 DEF B!Checkout
    <3>2. CASE B!CarryFails(k)
      <4>1. pool.origin \in Nat
        BY <1>0
      <4> QED BY <3>2, <4>1 DEF B!CarryFails
    <3> QED BY <1>19, <3>1, <3>2
  <2> DEFINE j == [job[k] EXCEPT !.at = "assert", !.warned = y]
  <2>3. /\ j \in Start /\ j.slot = job[k].slot /\ j.own = job[k].own /\ j.at = "assert" /\ j.base = job[k].base
        /\ j.warned = y /\ j.asked = job[k].asked
    BY <1>10 DEF Start, Based
  <2>4. B!Job(k, j) /\ lease' = [lease EXCEPT ![j.slot].head = h]
    BY <2>2, <2>3
  <2> HIDE DEF j
  <2>5. OnCourse(j, dirs[k], IF j.slot # B!NoSlot THEN lease'[j.slot].head ELSE dirs[k], Left(k))
    BY <1>0, <1>10, <2>1, <2>2, <2>3 DEF OnCourse, Before, Based, Holding
  <2> QED BY <1>8, <1>10, <2>1, <2>3, <2>4, <2>5
\* A start that ends: its own checkout is removed, or its lease given back, or that fails.
<1>20. ASSUME NEW k \in B!Key, B!Job(k, B!Idle), tip' = tip, NEW others, job[k].own \/ job[k].slot # B!NoSlot,
              \/ B!TakenBack(k, others)
              \/ /\ UNCHANGED remains
                 /\ IF job[k].own THEN dirs' = [dirs EXCEPT ![k] = 0] /\ lease' = lease
                    ELSE lease' = [lease EXCEPT ![job[k].slot].by = <<>>] /\ dirs' = dirs
       PROVE  Stays
  <2>1. /\ dirs[k] # 0 <=> job[k].own \/ Left(k)
        /\ job[k].own => job[k].slot = B!NoSlot /\ ~Left(k)
    BY <1>10 DEF OnCourse
  <2>2. CASE /\ UNCHANGED remains
             /\ IF job[k].own THEN dirs' = [dirs EXCEPT ![k] = 0] /\ lease' = lease
                ELSE lease' = [lease EXCEPT ![job[k].slot].by = <<>>] /\ dirs' = dirs
    <3>1. \A x \in B!Key : Left(x)' <=> Left(x)
      BY <2>2 DEF Left
    <3>2. CASE job[k].own
      BY <1>0, <1>9, <1>20, <2>1, <2>2, <3>1, <3>2
    <3>3. CASE ~job[k].own
      BY <1>0, <1>9, <1>10, <1>20, <2>1, <2>2, <3>1, <3>3
    <3> QED BY <3>2, <3>3
  <2>3. CASE remains' = B!Stays(k) /\ UNCHANGED <<lease, dirs>>
    <3>1. CASE job[k].own
      <4>1. /\ remains' \in Remains /\ remains'.slots = remains.slots
            /\ remains'.dirs = remains.dirs \cup {k}
        BY <1>0, <2>3, <3>1 DEF B!Stays, Remains
      <4>2. Left(k)' /\ \A x \in B!Key \ {k} : Left(x)' <=> Left(x)
        BY <4>1 DEF Left
      <4> QED BY <1>9, <1>10, <1>20, <2>1, <2>3, <3>1, <4>1, <4>2
    <3>2. CASE ~job[k].own
      <4>1. /\ remains' \in Remains /\ remains'.slots = remains.slots \cup {job[k].slot}
            /\ remains'.dirs = remains.dirs
        <5>1. job[k].slot \in Slot
          BY <1>10, <1>20, <3>2 DEF Start
        <5> QED BY <1>0, <2>3, <3>2, <5>1 DEF B!Stays, Remains
      <4>2. \A x \in B!Key : Left(x)' <=> Left(x)
        BY <4>1 DEF Left
      <4> QED BY <1>9, <1>10, <1>20, <2>1, <2>3, <3>2, <4>1, <4>2
    <3> QED BY <3>1, <3>2
  <2> QED BY <1>20, <2>2, <2>3 DEF B!TakenBack
\* Where a start is, it has a checkout of one kind.
<1>28. ASSUME NEW k \in B!Key, job[k].at \in {"carry", "checkout", "assert", "probe"}
       PROVE  job[k].own \/ job[k].slot # B!NoSlot
  BY <1>10, <1>28 DEF OnCourse, Holding
<1>21. ASSUME NEW k \in B!Key, B!ApplyBaseFails(k) PROVE Stays
  <2>1. /\ job[k].at \in {"carry", "checkout"} /\ B!TakenBack(k, {"carry"}) /\ B!Job(k, B!Idle) /\ tip' = tip
    BY <1>21 DEF B!ApplyBaseFails
  <2> QED BY <1>20, <1>28, <2>1
<1>22. ASSUME NEW k \in B!Key, B!WorktreeAdd(k) PROVE Stays
  <2>1. /\ job[k].at = "add" /\ UNCHANGED <<tip, lease, remains>> /\ dirs[k] = 0
        /\ dirs' = [dirs EXCEPT ![k] = clone[k[1]].ref]
        /\ B!Job(k, [job[k] EXCEPT !.at = "assert", !.own = TRUE])
    BY <1>22 DEF B!WorktreeAdd, B!At
  <2>2. job[k].slot = B!NoSlot /\ ~job[k].own /\ ~Left(k)
    BY <1>10, <2>1 DEF OnCourse, Before
  <2> DEFINE j == [job[k] EXCEPT !.at = "assert", !.own = TRUE]
  <2>3. /\ j \in Start /\ j.slot = B!NoSlot /\ j.own /\ j.at = "assert" /\ j.base = job[k].base
        /\ j.warned = job[k].warned /\ j.asked = job[k].asked
    BY <1>10, <2>2 DEF Start, Based
  <2>4. clone[k[1]].ref \in Nat \ {0} /\ B!Job(k, j)
    BY <1>0, <1>1, <2>1 DEF Cloned
  <2> HIDE DEF j
  <2>5. OnCourse(j, clone[k[1]].ref, IF j.slot # B!NoSlot THEN lease'[j.slot].head ELSE clone[k[1]].ref, Left(k))
    BY <1>0, <1>10, <2>1, <2>2, <2>3, <2>4 DEF OnCourse, Before, Based, Holding
  <2> QED BY <1>8, <1>11, <2>1, <2>2, <2>3, <2>4, <2>5
<1>29. ASSUME NEW k \in B!Key, B!PathExists(k) \/ B!WorktreeAddFails(k) PROVE Stays
  <2>1. job[k].at = "add" /\ UNCHANGED <<tip, lease>> /\ B!Job(k, B!Idle)
    BY <1>29 DEF B!PathExists, B!WorktreeAddFails, B!At
  <2>2. job[k].slot = B!NoSlot /\ ~job[k].own /\ (dirs[k] # 0 <=> Left(k))
    BY <1>10, <2>1 DEF OnCourse, Before
  <2>3. CASE UNCHANGED <<dirs, remains>>
    <3>1. \A x \in B!Key : Left(x)' <=> Left(x)
      BY <2>3 DEF Left
    <3> QED BY <1>0, <1>9, <1>10, <2>1, <2>2, <2>3, <3>1
  <2>4. CASE /\ dirs' = [dirs EXCEPT ![k] = clone[k[1]].ref]
             /\ remains' = [remains EXCEPT !.dirs = @ \cup {k}]
    <3>1. clone[k[1]].ref \in Nat \ {0}
      BY <1>0, <1>1, <2>1 DEF Cloned
    <3>2. remains' \in Remains /\ remains'.slots = remains.slots /\ remains'.dirs = remains.dirs \cup {k}
      BY <1>0, <2>4 DEF Remains
    <3>3. Left(k)' /\ \A x \in B!Key \ {k} : Left(x)' <=> Left(x)
      BY <3>2 DEF Left
    <3> QED BY <1>9, <2>1, <2>2, <2>4, <3>1, <3>2, <3>3
  <2> QED BY <1>29, <2>3, <2>4 DEF B!PathExists, B!WorktreeAddFails
<1>23. ASSUME NEW k \in B!Key, B!Refused(k) \/ B!NotIsolated(k) \/ B!Released(k) PROVE Stays
  <2>1. B!Job(k, B!Idle) /\ tip' = tip /\ job[k].at \in {"assert", "probe"}
    BY <1>23 DEF B!Refused, B!NotIsolated, B!Released, B!At
  <2>2. job[k].own \/ job[k].slot # B!NoSlot
    BY <1>28, <2>1
  <2>3. CASE B!Refused(k)
    BY <1>20, <2>1, <2>2, <2>3 DEF B!Refused
  <2>4. CASE B!NotIsolated(k)
    BY <1>20, <2>1, <2>2, <2>4 DEF B!NotIsolated
  <2>5. CASE B!Released(k)
    <3>1. /\ UNCHANGED remains
          /\ IF job[k].own THEN dirs' = [dirs EXCEPT ![k] = 0] /\ lease' = lease
             ELSE lease' = [lease EXCEPT ![job[k].slot].by = <<>>] /\ dirs' = dirs
      BY <2>5 DEF B!Released
    <3> QED BY <1>20, <2>1, <2>2, <3>1
  <2> QED BY <1>23, <2>3, <2>4, <2>5
<1>24. ASSUME NEW k \in B!Key, B!CreateWorktree(k) \/ B!AtWork(k) \/ B!ReleaseWorktree(k) PROVE BaseInv'
  <2>1. Stays
    BY <1>13, <1>14, <1>16, <1>17, <1>19, <1>21, <1>22, <1>23, <1>24, <1>26, <1>27, <1>29
       DEF B!AtWork, B!Gets, B!Refuses
  <2>2. tip' = tip
    BY <1>24 DEF B!AtWork, B!Gets, B!Refuses, B!CreateWorktree, B!ReleaseWorktree, B!FreshBase, B!TreehouseGet,
       B!TreehouseFails, B!TreehouseLoses, B!ApplyBase, B!Checkout, B!CarryFails, B!ApplyBaseFails, B!PathExists,
       B!WorktreeAdd, B!WorktreeAddFails, B!Asserted, B!Refused, B!NotIsolated, B!Released, B!NotReleased
  <2>3. /\ \E j : job' = [job EXCEPT ![k] = j]
        /\ job[k].at = "idle" => clone[k[1]].ref # 0
    <3>1. CASE B!CreateWorktree(k)
      <4>1. clone[k[1]].st = "ready"
        BY <3>1 DEF B!CreateWorktree
      <4> QED BY <1>0, <1>1, <3>1, <4>1 DEF B!CreateWorktree, B!WithProjectLock, B!Job, Cloned
    <3>2. CASE B!ReleaseWorktree(k)
      BY <3>2 DEF B!ReleaseWorktree, B!WithProjectLock, B!Job
    <3>3. CASE B!Gets(k)
      BY <3>3 DEF B!Gets, B!FreshBase, B!TreehouseGet, B!TreehouseFails, B!TreehouseLoses, B!ApplyBase, B!Checkout,
         B!CarryFails, B!WorktreeAdd, B!At, B!Job
    <3>4. CASE B!Refuses(k)
      BY <3>4 DEF B!Refuses, B!ApplyBaseFails, B!PathExists, B!WorktreeAddFails, B!Refused, B!NotIsolated, B!At, B!Job
    <3>5. CASE B!Asserted(k) \/ B!Released(k) \/ B!NotReleased(k)
      BY <3>5 DEF B!Asserted, B!Released, B!NotReleased, B!At, B!Job
    <3> QED BY <1>24, <3>1, <3>2, <3>3, <3>4, <3>5 DEF B!AtWork
  <2>4. ASSUME clone' = clone \/ clone' = [clone EXCEPT ![k[1]].ref = tip]
        PROVE  clone' \in [Board -> [st : {"none", "cloning", "ready", "torn"}, ref : Nat]] /\ Cloned'
    <3>1. clone[k[1]].ref # 0
      BY <1>0, <2>3 DEF Cloned
    <3>2. /\ clone' \in [Board -> [st : {"none", "cloning", "ready", "torn"}, ref : Nat]]
          /\ \A w \in Board : clone'[w].st = clone[w].st /\ (clone[w].ref # 0 => clone'[w].ref # 0)
          /\ clone'[k[1]].ref # 0
      <4>1. CASE clone' = clone
        BY <1>0, <3>1, <4>1
      <4>2. CASE clone' = [clone EXCEPT ![k[1]].ref = tip]
        BY <1>0, <1>1, <4>2
      <4> QED BY <2>4, <4>1, <4>2
    <3>3. \A x \in B!Key \ {k} : job'[x] = job[x]
      BY <1>0, <2>3
    <3> QED BY <1>0, <1>1, <3>2, <3>3 DEF Cloned
  <2>5. CASE B!FreshBase(k)
    <3>1. pool' = pool /\ (clone' = clone \/ clone' = [clone EXCEPT ![k[1]].ref = tip])
      BY <2>5 DEF B!FreshBase, B!Fetched
    <3> QED BY <1>0, <2>1, <2>2, <2>4, <3>1 DEF Stays, BaseInv, GroundShape
  <2>6. CASE B!ApplyBase(k)
    <3>1. clone' = clone /\ pool' = [pool EXCEPT !.base[k[2]] = clone[k[1]].ref]
      BY <2>6 DEF B!ApplyBase
    <3>2. clone[k[1]].ref \in Nat
      BY <1>0, <1>1
    <3>3. pool' \in [origin : Nat, base : [B!Card -> Nat]]
      BY <1>0, <3>1, <3>2
    <3> QED BY <1>0, <2>1, <2>2, <2>4, <3>1, <3>3 DEF Stays, BaseInv, GroundShape
  <2>7. CASE ~B!FreshBase(k) /\ ~B!ApplyBase(k)
    <3>1. clone' = clone /\ pool' = pool
      BY <1>24, <2>7 DEF B!AtWork, B!Gets, B!Refuses, B!CreateWorktree, B!ReleaseWorktree, B!TreehouseGet,
         B!TreehouseFails, B!TreehouseLoses, B!Checkout, B!CarryFails, B!ApplyBaseFails, B!PathExists, B!WorktreeAdd,
         B!WorktreeAddFails, B!Asserted, B!Refused, B!NotIsolated, B!Released, B!NotReleased
    <3> QED BY <1>2, <2>1, <2>2, <2>4, <3>1
  <2> QED BY <2>5, <2>6, <2>7
<1>25. CASE UNCHANGED B!vars
  BY <1>2, <1>3, <1>4, <1>25 DEF B!vars
<1> QED BY <1>5, <1>6, <1>7, <1>24, <1>25 DEF B!Next

\* A worker stands on the commit its own start took; unless the card was warned, that is no
\* older than origin was when it was asked for; and what is leased or made is a start's or a
\* worker's, but for the slots and directories that a command failed to take back, which no
\* start gets again (worktrees.js 103, 163, 220-244).
THEOREM StartsStandFresh ==
  B!BaseAssumption => (B!Spec => [](B!OnFetchedTip /\ B!FreshOrWarned /\ B!NothingLeft))
<1> SUFFICES ASSUME B!BaseAssumption
             PROVE  B!Spec => [](B!OnFetchedTip /\ B!FreshOrWarned /\ B!NothingLeft)
  OBVIOUS
<1>1. ASSUME BaseInv PROVE B!OnFetchedTip /\ B!FreshOrWarned /\ B!NothingLeft
  <2>1. Leaseholds /\ GroundShape /\ B!NoSlot \notin Slot
        /\ \A k \in B!Key : OnCourse(job[k], dirs[k], B!Head_(k), Left(k))
    BY <1>1 DEF BaseInv, Underway, B!BaseAssumption
  <2>2. B!OnFetchedTip /\ B!FreshOrWarned
    BY <2>1 DEF OnCourse, Based, B!OnFetchedTip, B!FreshOrWarned, B!Stands
  <2>3. B!NothingLeft
    <3>1. \A k \in B!Key : job[k].slot = B!NoSlot => job[k].slot \notin remains.slots
      BY <2>1 DEF GroundShape, Remains
    <3> QED BY <2>1, <3>1 DEF OnCourse, Left, Leaseholds, B!NothingLeft
  <2> QED BY <2>2, <2>3
<1>2. B!BaseAssumption /\ BaseInv /\ [B!Next]_B!vars => BaseInv'
  BY BaseKeeps
<1> QED BY <1>1, <1>2, BaseInit, PTL DEF B!Spec
=============================================================================

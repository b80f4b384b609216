--------------------------- MODULE GameFieldProofs ---------------------------
(***************************************************************************)
(* Theorems about GameField for every map, any number of players, monsters  *)
(* and reserved skills.  The inductive invariant adds to the properties what *)
(* the timers refer to, who is attached to what, and who may share a name.   *)
(***************************************************************************)
EXTENDS GameField, FiniteSetTheorems, SequenceTheorems, TLAPS

-----------------------------------------------------------------------------
(* The inductive invariant, in named parts.                                  *)

(* A timer reserved by a skill: on the monster, or on the character.          *)
Timer ==
  [kind : {"hit"}, object : MonsterSlots, id : 1..MaxIds]
  \cup [kind : {"kill"}, object : CharacterSlots, id : 1..MaxIds,
        monster : MonsterSlots, monsterId : 1..MaxIds]

(* Timers reserved at one tick.                                               *)
Batches(T) == Seq(T) \ {<<>>}

TypeInv ==
  /\ TypeOK /\ timers \in Seq(Batches(Timer))
  /\ phase = "packets" => timers # <<>>

(* What a slot in use is: a character is some player's, a monster nobody's. *)
ObjectInv ==
  \A o \in Slots :
    /\ object[o].state # "free" =>
         /\ object[o].id # 0
         /\ o \in CharacterSlots => object[o].player \in Players
    /\ o \in MonsterSlots => object[o].host = None /\ object[o].player = None
    /\ object[o].host # None => character[object[o].host] = o

(* The player's character lives, is attached to him, and is his.            *)
CharacterInv ==
  \A p \in Players : InField(p) =>
    /\ Alive(character[p])
    /\ object[character[p]].host = p /\ object[character[p]].player = p

MonstersAlive ==
  \A e \in monsters : Alive(e[2]) /\ object[e[2]].id = e[1]

(* Kills reserved: each for a monster of its own, which FindMonster still returns. *)
KillsMeetMonsters ==
  ~overkill =>
    /\ \A i \in DOMAIN timers : \A j \in DOMAIN timers[i] :
         timers[i][j].kind = "kill" =>
           <<timers[i][j].monsterId, timers[i][j].monster>> \in monsters
    /\ \A i, k \in DOMAIN timers : \A j \in DOMAIN timers[i], l \in DOMAIN timers[k] :
         /\ timers[i][j].kind = "kill" /\ timers[k][l].kind = "kill"
         /\ timers[i][j].monsterId = timers[k][l].monsterId
         => i = k /\ j = l
MonsterOrRespawn == 
  IsFiniteSet(monsters) /\ (overkill \/ Cardinality(monsters) + respawns = 1)

(* An id is never given to a second monster; a living character is attached  *)
(* to the player it names; and whoever has two characters has come back.      *)
NamesInv ==
  /\ \A x \in MonsterSlots : object[x].id <= idGen
  /\ \A x, y \in MonsterSlots : object[x].id = object[y].id /\ object[x].id # 0 => x = y
  /\ \A x \in CharacterSlots : Alive(x) => object[x].host = object[x].player
  /\ \A x \in CharacterSlots : \A p \in Players :
       /\ object[x].state = "destroyed" /\ object[x].player = p /\ InField(p)
       => p \in reentered

IInv ==
  /\ NamesInv /\ TypeInv /\ ObjectInv /\ CharacterInv /\ SectorsFollowObjects
  /\ MonstersAlive /\ KillsMeetMonsters /\ MonsterOrRespawn

-----------------------------------------------------------------------------
Used(o) == object[o].state # "free"

Names == Players \cup 1..MaxIds

(* The field starts with one monster and nobody to see it. *)
LEMMA InitIInv == Init => IInv
<1> SUFFICES ASSUME Init PROVE IInv
  OBVIOUS
<1> USE FieldAssumption, SectorAssumption
<1>1. PICK m \in MonsterSlots :
        /\ object = [o \in Slots |-> IF o = m THEN NewMonster(1) ELSE Unused]
        /\ objects = [s \in Sectors |-> IF s = SpawnSector THEN {m} ELSE {}]
        /\ monsters = {<<1, m>>}
  BY DEF Init
<1>2. m \in Slots /\ m \notin CharacterSlots /\ SpawnSector \in Sectors /\ 1 \in 1..MaxIds
  BY DEF Slots
<1>3. TypeInv
  <2>1. object \in [Slots -> ObjectType]
    BY <1>1, <1>2 DEF ObjectType, NewMonster, Unused
  <2>2. monsters \subseteq (1..MaxIds) \X MonsterSlots
    BY <1>1, <1>2
  <2>3. timers \in Seq(Batches(Timer)) /\ removeObjects \in Seq(Slots)
    BY DEF Init
  <2>4. /\ objects \in [Sectors -> SUBSET Slots] /\ hosts \in [Sectors -> SUBSET Players]
        /\ character \in [Players -> CharacterSlots \cup {None}]
        /\ view \in [Players -> SUBSET (Players \cup 1..MaxIds)]
        /\ late \in [Players -> SUBSET (Players \cup 1..MaxIds)]
    BY <1>1, <1>2 DEF Init
  <2> QED BY <1>2, <2>1, <2>2, <2>3, <2>4 DEF Init, TypeInv, TypeOK
<1>4. ObjectInv
  BY <1>1, <1>2 DEF ObjectInv, NewMonster, Unused
<1>5. CharacterInv
  BY DEF Init, CharacterInv, InField
<1>6. SectorsFollowObjects
  BY <1>1, <1>2 DEF Init, SectorsFollowObjects, InField, NewMonster, Unused
<1>7. MonstersAlive
  BY <1>1, <1>2 DEF MonstersAlive, Alive, NewMonster
<1>8. KillsMeetMonsters
  BY DEF Init, KillsMeetMonsters
<1>9. MonsterOrRespawn
  <2>1. IsFiniteSet(monsters) /\ Cardinality(monsters) = 1
    BY <1>1, FS_Singleton
  <2> QED BY <2>1 DEF Init, MonsterOrRespawn
<1>10. NamesInv
  <2>1. \A x \in Slots : /\ object[x].id = IF x = m THEN 1 ELSE 0
                         /\ object[x].state = IF x = m THEN "alive" ELSE "free"
    BY <1>1, <1>2 DEF NewMonster, Unused
  <2>2. idGen = 1 /\ MonsterSlots \subseteq Slots /\ \A x \in CharacterSlots : x \in Slots /\ x # m
    BY <1>2 DEF Init, Slots
  <2> QED BY <1>1, <2>1, <2>2 DEF NamesInv, Alive
<1> QED BY <1>3, <1>4, <1>5, <1>6, <1>7, <1>8, <1>9, <1>10 DEF IInv

(* What the helpers on ranges return: sectors, players, objects in use, and   *)
(* names for them.                                                            *)
LEMMA Ranges ==
  ASSUME IInv
  PROVE  /\ \A s \in Sectors : aroundSectors[s] \subseteq Sectors
         /\ \A R \in SUBSET Sectors :
              /\ HostsIn(R) \subseteq Players
              /\ ObjectsIn(R) \subseteq {o \in Slots : Used(o)}
         /\ \A o \in Slots : Used(o) => Key(o) \in Names
<1>1. \A s \in Sectors : aroundSectors[s] \subseteq Sectors
  BY DEF aroundSectors
<1>2. ASSUME NEW R \in SUBSET Sectors PROVE HostsIn(R) \subseteq Players
  BY DEF HostsIn, IInv, TypeInv, TypeOK
<1>3. ASSUME NEW R \in SUBSET Sectors PROVE ObjectsIn(R) \subseteq {o \in Slots : Used(o)}
  BY DEF ObjectsIn, IInv, SectorsFollowObjects, Used
<1>4. ASSUME NEW o \in Slots, Used(o) PROVE Key(o) \in Names
  <2>1. object[o] \in ObjectType
    BY DEF IInv, TypeInv, TypeOK
  <2> QED BY <1>4, <2>1, FieldAssumption DEF Key, Names, Used, IInv, ObjectInv, ObjectType
<1> QED BY <1>1, <1>2, <1>3, <1>4

(* Telling clients of an object keeps what they show a set of names.          *)
LEMMA Tellings ==
  ASSUME NEW v \in [Players -> SUBSET Names], NEW qs, NEW k
  PROVE  /\ Hidden(v, qs, k) \in [Players -> SUBSET Names]
         /\ k \in Names => Shown(v, qs, k) \in [Players -> SUBSET Names]
BY DEF Hidden, Shown

(* OnPlayerEnter: the new character is attached to its player, its sector     *)
(* lists both, and another character of his that still is in the field makes  *)
(* him one who has come back.                                                 *)
LEMMA EnterStep ==
  ASSUME IInv, NEW p \in Players, Enter(p)
  PROVE  IInv'
<1> USE FieldAssumption, SectorAssumption
<1>1. PICK o \in CharacterSlots, s \in EntrySectors :
        LET others == ObjectsIn(aroundSectors[s]) IN
        /\ object[o].state = "free"
        /\ object' = [object EXCEPT ![o] =
             [state |-> "alive", id |-> idGen + 1, sector |-> s, host |-> p,
              player |-> p, hp |-> 0]]
        /\ objects' = [objects EXCEPT ![s] = @ \cup {o}]
        /\ hosts' = [hosts EXCEPT ![s] = @ \cup {p}]
        /\ character' = [character EXCEPT ![p] = o]
        /\ view' = [Shown(view, HostsIn(aroundSectors[s]), p) EXCEPT ![p] = Keys(others)]
        /\ late' = [Hidden(late, HostsIn(aroundSectors[s]), p) EXCEPT ![p] =
             Keys({x \in others : ~Alive(x)}) \ Keys({x \in others : Alive(x)})]
  BY DEF Enter
<1>2. /\ o \in Slots /\ s \in Sectors /\ o \notin MonsterSlots /\ o # None /\ p # None
      /\ idGen + 1 \in 1..MaxIds
      /\ character[p] = None
      /\ UNCHANGED <<phase, monsters, removeObjects, timers, respawns, overkill>>
      /\ idGen' = idGen + 1
      /\ reentered' = IF \E x \in CharacterSlots : object[x].state = "destroyed" /\ object[x].player = p
                      THEN reentered \cup {p} ELSE reentered
  BY DEF Enter, Slots, IInv, TypeInv, TypeOK
<1>3. TypeInv'
  <2>1. object' \in [Slots -> ObjectType]
    <3> DEFINE new == [state |-> "alive", id |-> idGen + 1, sector |-> s, host |-> p,
             player |-> p, hp |-> 0]
    <3>1. new \in ObjectType
      BY <1>2 DEF ObjectType
    <3>2. object' = [object EXCEPT ![o] = new]
      BY <1>1
    <3> HIDE DEF new
    <3> QED BY <3>1, <3>2 DEF IInv, TypeInv, TypeOK
  <2>2. /\ objects' \in [Sectors -> SUBSET Slots] /\ hosts' \in [Sectors -> SUBSET Players]
        /\ character' \in [Players -> CharacterSlots \cup {None}]
    BY <1>1, <1>2 DEF IInv, TypeInv, TypeOK
  <2>3. /\ view' \in [Players -> SUBSET Names]
        /\ late' \in [Players -> SUBSET Names]
    <3> DEFINE others == ObjectsIn(aroundSectors[s])
    <3>1. \A O \in SUBSET others : Keys(O) \subseteq Names
      BY <1>2, Ranges DEF Keys
    <3>2. /\ Shown(view, HostsIn(aroundSectors[s]), p) \in [Players -> SUBSET Names]
          /\ Hidden(late, HostsIn(aroundSectors[s]), p) \in [Players -> SUBSET Names]
      <4>1. view \in [Players -> SUBSET Names] /\ late \in [Players -> SUBSET Names] /\ p \in Names
        BY DEF IInv, TypeInv, TypeOK, Names
      <4> QED BY <4>1, Tellings
    <3>3. /\ view' = [Shown(view, HostsIn(aroundSectors[s]), p) EXCEPT ![p] = Keys(others)]
          /\ late' = [Hidden(late, HostsIn(aroundSectors[s]), p) EXCEPT ![p] =
               Keys({x \in others : ~Alive(x)}) \ Keys({x \in others : Alive(x)})]
      BY <1>1
    <3>4. Keys(others) \subseteq Names /\ Keys({x \in others : ~Alive(x)}) \subseteq Names
      BY <3>1
    <3> HIDE DEF others
    <3> QED BY <3>2, <3>3, <3>4
  <2> QED BY <1>2, <2>1, <2>2, <2>3 DEF IInv, TypeInv, TypeOK, Names, Enter
<1>4. /\ \A x \in Slots \ {o} : object'[x] = object[x]
      /\ object'[o].state = "alive" /\ object'[o].id = idGen + 1 /\ object'[o].sector = s
      /\ object'[o].host = p /\ object'[o].player = p
  BY <1>1, <1>2 DEF IInv, TypeInv, TypeOK
<1>5. /\ character'[p] = o /\ \A q \in Players \ {p} : character'[q] = character[q]
      /\ \A q \in Players : InField(q) => character[q] # o /\ character[q] \in Slots
  BY <1>1, <1>2 DEF IInv, TypeInv, TypeOK, CharacterInv, InField, Alive, Slots
<1>6. ObjectInv'
  <2>1. \A x \in Slots : object[x].host = p => x = o
    BY <1>2 DEF IInv, ObjectInv, Slots
  <2>2. idGen + 1 # 0
    BY <1>2
  <2>3. \A x \in Slots : object[x].host \in Players \cup {None}
    BY DEF IInv, TypeInv, TypeOK, ObjectType
  <2> QED BY <1>2, <1>4, <1>5, <2>1, <2>2, <2>3 DEF IInv, ObjectInv
<1>7. CharacterInv'
  BY <1>2, <1>4, <1>5 DEF IInv, CharacterInv, InField, Alive
<1>8. SectorsFollowObjects'
  <2> SUFFICES ASSUME NEW t \in Sectors
               PROVE  /\ objects'[t] = {x \in Slots : object'[x].state # "free" /\ object'[x].sector = t}
                      /\ hosts'[t] = {q \in Players : InField(q)' /\ object'[character'[q]].sector = t}
    BY DEF SectorsFollowObjects
  <2>1. /\ objects'[t] = IF t = s THEN objects[t] \cup {o} ELSE objects[t]
        /\ hosts'[t] = IF t = s THEN hosts[t] \cup {p} ELSE hosts[t]
    BY <1>1, <1>2 DEF IInv, TypeInv, TypeOK
  <2>2. /\ objects[t] = {x \in Slots : object[x].state # "free" /\ object[x].sector = t}
        /\ hosts[t] = {q \in Players : InField(q) /\ object[character[q]].sector = t}
    BY DEF IInv, SectorsFollowObjects
  <2>3. objects'[t] = {x \in Slots : object'[x].state # "free" /\ object'[x].sector = t}
    BY <1>1, <1>2, <1>4, <2>1, <2>2
  <2>4. hosts'[t] = {q \in Players : InField(q)' /\ object'[character'[q]].sector = t}
    BY <1>2, <1>4, <1>5, <2>1, <2>2 DEF InField
  <2> QED BY <2>3, <2>4
<1>9. MonstersAlive'
  BY <1>2, <1>4 DEF IInv, MonstersAlive, TypeInv, TypeOK, Alive, Slots
<1>10. KillsMeetMonsters' /\ MonsterOrRespawn'
  BY <1>2 DEF IInv, KillsMeetMonsters, MonsterOrRespawn
<1>11. NamesInv'
  <2>1. \A x \in MonsterSlots : object'[x] = object[x] /\ object[x].id \in Nat
    <3>1. \A x \in MonsterSlots : x \in Slots \ {o}
      BY <1>2 DEF Slots
    <3>2. \A x \in Slots : object[x].id \in Nat
      BY DEF IInv, TypeInv, TypeOK, ObjectType
    <3> QED BY <1>4, <3>1, <3>2
  <2>2. idGen \in Nat /\ \A x \in CharacterSlots : x \in Slots
    BY DEF IInv, TypeInv, TypeOK, Slots
  <2>3. /\ \A x \in MonsterSlots : object'[x].id <= idGen'
        /\ \A x, y \in MonsterSlots : object'[x].id = object'[y].id /\ object'[x].id # 0 => x = y
    BY <1>2, <2>1, <2>2 DEF IInv, NamesInv
  <2>4. \A x \in CharacterSlots : object'[x].state = "alive" => object'[x].host = object'[x].player
    BY <1>4, <2>2 DEF IInv, NamesInv, Alive
  <2>5. ASSUME NEW x \in CharacterSlots, NEW q \in Players,
               object'[x].state = "destroyed", object'[x].player = q, InField(q)'
        PROVE  q \in reentered'
    <3>1. x # o /\ object'[x] = object[x]
      BY <1>4, <2>2, <2>5
    <3> QED BY <1>2, <1>5, <2>5, <3>1 DEF IInv, NamesInv, InField
  <2> QED BY <2>3, <2>4, <2>5 DEF NamesInv, Alive
<1> QED BY <1>3, <1>6, <1>7, <1>8, <1>9, <1>10, <1>11 DEF IInv

(* What DestroyObject does to its object, and to no other.                    *)
LEMMA Destroying ==
  ASSUME IInv, NEW o \in Slots, DestroyObject(o)
  PROVE  /\ object' \in [Slots -> ObjectType]
         /\ \A x \in Slots \ {o} : object'[x] = object[x]
         /\ object'[o].id = object[o].id /\ object'[o].sector = object[o].sector
         /\ object'[o].player = object[o].player /\ object'[o].host = None
         /\ object'[o].state = IF Alive(o) THEN "destroyed" ELSE object[o].state
         /\ removeObjects' \in Seq(Slots)
         /\ view' \in [Players -> SUBSET Names] /\ late' \in [Players -> SUBSET Names]
<1>1. object \in [Slots -> ObjectType] /\ removeObjects \in Seq(Slots)
  BY DEF IInv, TypeInv, TypeOK
<1>2. object' = [object EXCEPT ![o].state = IF @ = "alive" THEN "destroyed" ELSE @,
                               ![o].host = None]
  BY DEF DestroyObject
<1>3. /\ object' \in [Slots -> ObjectType]
      /\ \A x \in Slots \ {o} : object'[x] = object[x]
      /\ object'[o].id = object[o].id /\ object'[o].sector = object[o].sector
      /\ object'[o].player = object[o].player /\ object'[o].host = None
      /\ object'[o].state = IF Alive(o) THEN "destroyed" ELSE object[o].state
  BY <1>1, <1>2 DEF ObjectType, Alive
<1>4. removeObjects' \in Seq(Slots)
  BY <1>1 DEF DestroyObject
<1>5. /\ view' \in [Players -> SUBSET Names] /\ late' \in [Players -> SUBSET Names]
  <2>1. view \in [Players -> SUBSET Names] /\ late \in [Players -> SUBSET Names]
    BY DEF IInv, TypeInv, TypeOK, Names
  <2> DEFINE qs == HostsIn(aroundSectors[object[o].sector])
  <2>2. /\ Hidden(view, qs, Key(o)) \in [Players -> SUBSET Names]
        /\ Hidden(late, qs, Key(o)) \in [Players -> SUBSET Names]
    BY <2>1, Tellings
  <2>3. /\ view' = [p \in Players |-> IF p = object[o].player THEN {} ELSE Hidden(view, qs, Key(o))[p]]
        /\ late' = [p \in Players |-> IF p = object[o].player THEN {} ELSE Hidden(late, qs, Key(o))[p]]
    BY DEF DestroyObject
  <2> HIDE DEF qs
  <2> QED BY <2>2, <2>3
<1> QED BY <1>3, <1>4, <1>5

(* OnPlayerLeave: the player is detached from the sector of his character     *)
(* before the character is marked.                                            *)
LEMMA LeaveStep ==
  ASSUME IInv, NEW p \in Players, Leave(p)
  PROVE  IInv'
<1> USE FieldAssumption, SectorAssumption
<1> DEFINE o == character[p]
<1>1. /\ o \in CharacterSlots /\ o \in Slots /\ o \notin MonsterSlots /\ InField(p)
      /\ hosts' = [hosts EXCEPT ![object[o].sector] = @ \ {p}]
      /\ DestroyObject(o)
      /\ character' = [character EXCEPT ![p] = None]
      /\ UNCHANGED <<phase, objects, monsters, timers, respawns, idGen, overkill, reentered>>
  BY DEF Leave, IInv, TypeInv, TypeOK, InField, Slots
<1>2. /\ Alive(o) /\ object[o].host = p /\ object[o].sector \in Sectors
      /\ character'[p] = None /\ \A q \in Players \ {p} : character'[q] = character[q]
      /\ \A q \in Players : InField(q) => character[q] \in Slots
      /\ \A q \in Players \ {p} : InField(q) => character[q] # o
  BY <1>1 DEF IInv, CharacterInv, TypeInv, TypeOK, ObjectType, InField, Slots
<1> HIDE DEF o
<1>3. TypeInv'
  <2>1. hosts' \in [Sectors -> SUBSET Players] /\ character' \in [Players -> CharacterSlots \cup {None}]
    BY <1>1, <1>2 DEF IInv, TypeInv, TypeOK
  <2> QED BY <1>1, <2>1, Destroying DEF IInv, TypeInv, TypeOK, Names
<1>4. ObjectInv'
  <2>1. \A x \in Slots \ {o} : object[x].host # p
    BY <1>1, <1>2 DEF IInv, ObjectInv, o
  <2>2. \A x \in Slots : object[x].host \in Players \cup {None}
    BY DEF IInv, TypeInv, TypeOK, ObjectType
  <2> QED BY <1>1, <1>2, <2>1, <2>2, Destroying DEF IInv, ObjectInv, Alive
<1>5. CharacterInv'
  BY <1>1, <1>2, Destroying DEF IInv, CharacterInv, InField, Alive
<1>6. SectorsFollowObjects'
  <2> SUFFICES ASSUME NEW t \in Sectors
               PROVE  /\ objects'[t] = {x \in Slots : object'[x].state # "free" /\ object'[x].sector = t}
                      /\ hosts'[t] = {q \in Players : InField(q)' /\ object'[character'[q]].sector = t}
    BY DEF SectorsFollowObjects
  <2>1. /\ objects'[t] = objects[t]
        /\ hosts'[t] = IF t = object[o].sector THEN hosts[t] \ {p} ELSE hosts[t]
    BY <1>1, <1>2 DEF IInv, TypeInv, TypeOK
  <2>2. /\ objects[t] = {x \in Slots : object[x].state # "free" /\ object[x].sector = t}
        /\ hosts[t] = {q \in Players : InField(q) /\ object[character[q]].sector = t}
    BY DEF IInv, SectorsFollowObjects
  <2>3. objects'[t] = {x \in Slots : object'[x].state # "free" /\ object'[x].sector = t}
    BY <1>1, <1>2, <2>1, <2>2, Destroying DEF Alive
  <2>4. hosts'[t] = {q \in Players : InField(q)' /\ object'[character'[q]].sector = t}
    BY <1>1, <1>2, <2>1, <2>2, Destroying DEF InField, o
  <2> QED BY <2>3, <2>4
<1>7. MonstersAlive'
  <2>1. \A m \in MonsterSlots : object'[m] = object[m]
    BY <1>1, Destroying DEF Slots
  <2>2. \A e \in monsters : e[2] \in MonsterSlots
    BY DEF IInv, TypeInv, TypeOK
  <2> QED BY <1>1, <2>1, <2>2 DEF IInv, MonstersAlive, Alive
<1>8. KillsMeetMonsters' /\ MonsterOrRespawn'
  BY <1>1 DEF IInv, KillsMeetMonsters, MonsterOrRespawn
<1>9. NamesInv'
  <2>1. /\ \A x \in MonsterSlots : x \in Slots \ {o}
        /\ \A x \in CharacterSlots : x \in Slots
    BY <1>1 DEF Slots
  <2>2. object[o].player = p
    BY <1>1 DEF IInv, CharacterInv, o
  <2>3. ASSUME NEW x \in CharacterSlots, NEW q \in Players,
               object'[x].state = "destroyed", object'[x].player = q, InField(q)'
        PROVE  q \in reentered
    BY <1>1, <1>2, <2>1, <2>2, <2>3, Destroying DEF IInv, NamesInv, InField
  <2> QED BY <1>1, <2>1, <2>3, Destroying DEF IInv, NamesInv, Alive
<1> QED BY <1>3, <1>4, <1>5, <1>6, <1>7, <1>8, <1>9 DEF IInv

(* A sequence with one element more.                                          *)
LEMMA AppendedBatch ==
  ASSUME NEW B, NEW ts \in Seq(B), NEW r \in B
  PROVE  /\ Append(ts, r) \in Seq(B) /\ Append(ts, r) # <<>>
         /\ Len(Append(ts, r)) = Len(ts) + 1
         /\ DOMAIN ts \subseteq DOMAIN Append(ts, r)
         /\ \A i \in DOMAIN Append(ts, r) :
              Append(ts, r)[i] = IF i = Len(ts) + 1 THEN r ELSE ts[i]
         /\ \A i \in DOMAIN Append(ts, r) : i # Len(ts) + 1 => i \in DOMAIN ts
BY AppendProperties, LenProperties

(* A sequence whose last element was replaced.                                *)
LEMMA ReplacedBatch ==
  ASSUME NEW B, NEW ts \in Seq(B), ts # <<>>, NEW r \in B
  PROVE  LET us == [ts EXCEPT ![Len(ts)] = r] IN
         /\ us \in Seq(B) /\ us # <<>> /\ Len(us) = Len(ts) /\ DOMAIN us = DOMAIN ts
         /\ \A i \in DOMAIN us : us[i] = IF i = Len(ts) THEN r ELSE ts[i]
<1>1. Len(ts) \in 1 .. Len(ts) /\ DOMAIN ts = 1 .. Len(ts) /\ Len(ts) \in Nat \ {0}
  BY EmptySeq, LenProperties
<1> QED BY <1>1, ExceptSeq, LenProperties

(* More timers reserved at the tick of the last batch.                         *)
Extended(ts, r) == [ts EXCEPT ![Len(ts)] = ts[Len(ts)] \o r]

(* Timers reserved at a tick of their own, or at the tick of the last batch,  *)
(* are the last ones; the others stay where they were.                        *)
LEMMA AddedTimers ==
  ASSUME NEW T, NEW ts \in Seq(Batches(T)), NEW r \in Batches(T), NEW us,
         \/ us = Append(ts, r)
         \/ ts # <<>> /\ us = Extended(ts, r)
  PROVE  /\ us \in Seq(Batches(T)) /\ us # <<>>
         /\ \A i \in DOMAIN us : \A j \in DOMAIN us[i] :
              \/ i \in DOMAIN ts /\ j \in DOMAIN ts[i] /\ us[i][j] = ts[i][j]
              \/ /\ i = Len(us) /\ j - (Len(us[i]) - Len(r)) \in DOMAIN r
                 /\ us[i][j] = r[j - (Len(us[i]) - Len(r))]
<1> DEFINE Goal(vs) ==
         /\ vs \in Seq(Batches(T)) /\ vs # <<>>
         /\ \A i \in DOMAIN vs : \A j \in DOMAIN vs[i] :
              \/ i \in DOMAIN ts /\ j \in DOMAIN ts[i] /\ vs[i][j] = ts[i][j]
              \/ /\ i = Len(vs) /\ j - (Len(vs[i]) - Len(r)) \in DOMAIN r
                 /\ vs[i][j] = r[j - (Len(vs[i]) - Len(r))]
<1>1. Goal(Append(ts, r))
  <2> DEFINE vs == Append(ts, r)
  <2>1. /\ vs \in Seq(Batches(T)) /\ vs # <<>> /\ Len(vs) = Len(ts) + 1
        /\ \A i \in DOMAIN vs : vs[i] = IF i = Len(ts) + 1 THEN r ELSE ts[i]
        /\ \A i \in DOMAIN vs : i # Len(ts) + 1 => i \in DOMAIN ts
    BY AppendedBatch
  <2>2. Len(r) \in Nat /\ DOMAIN r = 1 .. Len(r)
    BY DEF Batches
  <2> HIDE DEF vs
  <2> QED BY <2>1, <2>2 DEF vs
<1>2. ASSUME ts # <<>> PROVE Goal(Extended(ts, r))
  <2> DEFINE g == ts[Len(ts)]
             h == g \o r
             vs == [ts EXCEPT ![Len(ts)] = h]
  <2>1. /\ Len(ts) \in DOMAIN ts /\ g \in Batches(T)
    BY <1>2, EmptySeq, LenProperties
  <2>2. h \in Batches(T) /\ Len(h) = Len(g) + Len(r) /\ Len(g) \in Nat /\ Len(r) \in Nat
        /\ DOMAIN h = 1 .. Len(h) /\ DOMAIN g = 1 .. Len(g) /\ DOMAIN r = 1 .. Len(r)
    BY <2>1 DEF Batches
  <2>3. \A j \in DOMAIN h : h[j] = IF j \in DOMAIN g THEN g[j] ELSE r[j - Len(g)]
    BY <2>1 DEF Batches
  <2> HIDE DEF g, h
  <2>4. /\ vs \in Seq(Batches(T)) /\ vs # <<>> /\ Len(vs) = Len(ts) /\ DOMAIN vs = DOMAIN ts
        /\ \A i \in DOMAIN vs : vs[i] = IF i = Len(ts) THEN h ELSE ts[i]
    BY <1>2, <2>2, ReplacedBatch
  <2> HIDE DEF vs
  <2>5. Goal(vs)
    <3>1. ASSUME NEW i \in DOMAIN vs, NEW j \in DOMAIN vs[i], i = Len(vs)
          PROVE  \/ j \in DOMAIN ts[i] /\ vs[i][j] = ts[i][j]
                 \/ /\ j - (Len(vs[i]) - Len(r)) \in DOMAIN r
                    /\ vs[i][j] = r[j - (Len(vs[i]) - Len(r))]
      <4>1. vs[i] = h /\ ts[i] = g /\ Len(h) - Len(r) = Len(g)
        BY <2>2, <2>4, <3>1 DEF g
      <4>2. j \in DOMAIN g \/ j - Len(g) \in DOMAIN r
        BY <2>2, <4>1
      <4> QED BY <2>3, <4>1, <4>2
    <3> QED BY <2>4, <3>1
  <2> QED BY <2>5 DEF vs, h, g, Extended
<1> HIDE DEF Goal
<1>3. Goal(us)
  BY <1>1, <1>2
<1> QED BY <1>3 DEF Goal

(* Handle_C_SKILL: a kill is reserved for a monster FindMonster returns, and  *)
(* for none that has one, unless overkill records it.                         *)
LEMMA CastStep ==
  ASSUME IInv, NEW p \in Players, Cast(p)
  PROVE  IInv'
<1> USE FieldAssumption, SectorAssumption
<1> DEFINE c == character[p]
<1>1. PICK entry \in monsters :
       LET m == entry[2]
           hit == [kind |-> "hit", object |-> m, id |-> object[m].id]
           kill == [kind |-> "kill", object |-> c, id |-> object[c].id,
                    monster |-> m, monsterId |-> object[m].id]
           reserved == IF object[m].hp - 1 <= 0 THEN <<hit, kill>> ELSE <<hit>>
       IN /\ object[m].sector \in aroundSectors[object[c].sector]
          /\ timers' = IF phase = "packets"
                       THEN [timers EXCEPT ![Len(timers)] = @ \o reserved]
                       ELSE Append(timers, reserved)
          /\ overkill' = (overkill \/
               /\ object[m].hp - 1 <= 0
               /\ \E i \in DOMAIN timers : \E j \in DOMAIN timers[i] :
                    /\ timers[i][j].kind = "kill"
                    /\ timers[i][j].monsterId = object[m].id)
  BY DEF Cast
<1>2. /\ c # None /\ phase \in {"jobs", "packets"} /\ phase' = "packets"
      /\ UNCHANGED <<object, objects, hosts, character, monsters, removeObjects,
                     respawns, idGen, view, late, reentered>>
  BY DEF Cast
<1> DEFINE m == entry[2]
           hit == [kind |-> "hit", object |-> m, id |-> object[m].id]
           kill == [kind |-> "kill", object |-> c, id |-> object[c].id,
                    monster |-> m, monsterId |-> object[m].id]
           reserved == IF object[m].hp - 1 <= 0 THEN <<hit, kill>> ELSE <<hit>>
<1>3. /\ entry = <<entry[1], m>> /\ m \in MonsterSlots /\ m \in Slots
      /\ Alive(m) /\ object[m].id = entry[1] /\ entry[1] \in 1..MaxIds
  BY DEF IInv, TypeInv, TypeOK, MonstersAlive, Slots
<1>4. c \in CharacterSlots /\ object[c].id \in 1..MaxIds
  <2>1. c \in CharacterSlots /\ c \in Slots /\ Alive(c)
    BY <1>2 DEF IInv, TypeInv, TypeOK, CharacterInv, InField, Slots
  <2>2. object[c] \in ObjectType
    BY <2>1 DEF IInv, TypeInv, TypeOK
  <2> QED BY <2>1, <2>2 DEF IInv, ObjectInv, ObjectType, Alive
<1>5. hit \in Timer /\ kill \in Timer
  BY <1>3, <1>4 DEF Timer
<1>6. reserved \in Batches(Timer)
  <2> HIDE DEF hit, kill
  <2> QED BY <1>5 DEF Batches
<1>7. /\ timers' \in Seq(Batches(Timer)) /\ timers' # <<>>
      /\ \A i \in DOMAIN timers' : \A j \in DOMAIN timers'[i] :
           \/ i \in DOMAIN timers /\ j \in DOMAIN timers[i] /\ timers'[i][j] = timers[i][j]
           \/ /\ i = Len(timers') /\ j - (Len(timers'[i]) - Len(reserved)) \in DOMAIN reserved
              /\ timers'[i][j] = reserved[j - (Len(timers'[i]) - Len(reserved))]
  <2>1. \/ timers' = Append(timers, reserved)
        \/ timers # <<>> /\ timers' = Extended(timers, reserved)
    BY <1>1 DEF IInv, TypeInv, Extended
  <2>2. timers \in Seq(Batches(Timer))
    BY DEF IInv, TypeInv
  <2> HIDE DEF reserved
  <2> QED BY <1>6, <2>1, <2>2, AddedTimers
<1>8. TypeInv'
  <2>1. overkill' \in BOOLEAN
    BY <1>1 DEF IInv, TypeInv, TypeOK
  <2> QED BY <1>2, <1>7, <2>1 DEF IInv, TypeInv, TypeOK
<1>9. ObjectInv' /\ CharacterInv' /\ SectorsFollowObjects' /\ MonstersAlive' /\ NamesInv'
  BY <1>2 DEF IInv, ObjectInv, CharacterInv, SectorsFollowObjects, MonstersAlive, NamesInv,
              InField, Alive
<1>10. KillsMeetMonsters'
  <2> SUFFICES ASSUME ~overkill' PROVE KillsMeetMonsters'
    BY DEF KillsMeetMonsters
  <2> DEFINE Kill(ts, i, j) == i \in DOMAIN ts /\ j \in DOMAIN ts[i] /\ ts[i][j].kind = "kill"
  <2>1. /\ ~overkill
        /\ reserved = <<hit, kill>> =>
             \A i, j : Kill(timers, i, j) => timers[i][j].monsterId # entry[1]
    BY <1>1, <1>3
  <2>2. \A i, j : Kill(timers', i, j) =>
          \/ Kill(timers, i, j) /\ timers'[i][j] = timers[i][j]
          \/ /\ reserved = <<hit, kill>> /\ timers'[i][j] = kill
             /\ i = Len(timers') /\ j = Len(timers'[i])
    <3> HIDE DEF hit, kill, reserved
    <3> SUFFICES ASSUME NEW i, NEW j, Kill(timers', i, j), 
                        i = Len(timers'), j - (Len(timers'[i]) - Len(reserved)) \in DOMAIN reserved,
                        timers'[i][j] = reserved[j - (Len(timers'[i]) - Len(reserved))]
                 PROVE  /\ reserved = <<hit, kill>> /\ timers'[i][j] = kill
                        /\ i = Len(timers') /\ j = Len(timers'[i])
      BY <1>7
    <3>1. hit.kind = "hit" /\ (reserved = <<hit, kill>> \/ reserved = <<hit>>)
      BY DEF hit, reserved
    <3>2. timers'[i] \in Seq(Timer) /\ Len(timers'[i]) \in Nat /\ j \in Nat
      <4>1. timers'[i] \in Batches(Timer)
        BY <1>7, ElementOfSeq, LenProperties
      <4> QED BY <4>1, LenProperties DEF Batches
    <3> HIDE DEF hit, kill
    <3> DEFINE k == j - (Len(timers'[i]) - Len(reserved))
    <3>3. reserved[k].kind = "kill" /\ k \in DOMAIN reserved
      OBVIOUS
    <3>4. reserved = <<hit, kill>>
      <4> HIDE DEF k
      <4> QED BY <3>1, <3>3
    <3>5. k = 2 /\ Len(reserved) = 2
      <4> HIDE DEF k
      <4> QED BY <3>1, <3>3, <3>4
    <3>6. reserved[2] = kill
      BY <3>4
    <3>7. timers'[i][j] = kill
      BY <3>5, <3>6
    <3>8. j = Len(timers'[i])
      BY <3>2, <3>5
    <3> QED BY <3>4, <3>7, <3>8
  <2>3. \A i, j : Kill(timers, i, j) => 
          /\ <<timers[i][j].monsterId, timers[i][j].monster>> \in monsters
          /\ \A k, l : Kill(timers, k, l) /\ timers[i][j].monsterId = timers[k][l].monsterId
               => i = k /\ j = l
    BY <2>1 DEF IInv, KillsMeetMonsters
  <2>4. kill.monsterId = entry[1] /\ kill.monster = m /\ <<entry[1], m>> \in monsters
    BY <1>3
  <2> HIDE DEF kill, hit, reserved, m, c
  <2>5. \A i, j : Kill(timers', i, j) => 
          /\ <<timers'[i][j].monsterId, timers'[i][j].monster>> \in monsters
          /\ \A k, l : Kill(timers', k, l) /\ timers'[i][j].monsterId = timers'[k][l].monsterId
               => i = k /\ j = l
    BY <2>1, <2>2, <2>3, <2>4
  <2> QED BY <1>2, <2>5 DEF KillsMeetMonsters
<1>11. MonsterOrRespawn'
  BY <1>1, <1>2 DEF IInv, MonsterOrRespawn
<1> QED BY <1>8, <1>9, <1>10, <1>11 DEF IInv

(* A sequence without its n-th element.                                       *)
LEMMA RemoveAtProperties ==
  ASSUME NEW T, NEW s \in Seq(T), NEW n \in DOMAIN s
  PROVE  /\ RemoveAt(s, n) \in Seq(T) /\ Len(RemoveAt(s, n)) = Len(s) - 1
         /\ \A j \in DOMAIN RemoveAt(s, n) :
              RemoveAt(s, n)[j] = s[IF j < n THEN j ELSE j + 1]
<1> DEFINE a == SubSeq(s, 1, n - 1)
           b == SubSeq(s, n + 1, Len(s))
<1>1. /\ n \in 1 .. Len(s) /\ Len(s) \in Nat
      /\ \A i \in 1 .. Len(s) : s[i] \in T
  BY LenProperties, ElementOfSeq
<1>2. a \in Seq(T) /\ Len(a) = n - 1 /\ \A i \in 1 .. n - 1 : a[i] = s[i]
  BY <1>1, SubSeqProperties
<1>3. b \in Seq(T) /\ Len(b) = Len(s) - n /\ \A i \in 1 .. Len(s) - n : b[i] = s[n + i]
  BY <1>1, SubSeqProperties
<1> HIDE DEF a, b
<1>4. /\ a \o b \in Seq(T) /\ Len(a \o b) = Len(s) - 1 /\ DOMAIN (a \o b) = 1 .. Len(s) - 1
      /\ \A i \in 1 .. Len(s) - 1 : (a \o b)[i] = IF i <= n - 1 THEN a[i] ELSE b[i - (n - 1)]
  BY <1>1, <1>2, <1>3, ConcatProperties, LenProperties
<1>5. \A i \in 1 .. Len(s) - 1 : (a \o b)[i] = s[IF i < n THEN i ELSE i + 1]
  <2> SUFFICES ASSUME NEW i \in 1 .. Len(s) - 1
               PROVE  (a \o b)[i] = s[IF i < n THEN i ELSE i + 1]
    OBVIOUS
  <2>1. i \in Int /\ n \in Int
    BY <1>1
  <2>2. ASSUME i < n PROVE (a \o b)[i] = s[i]
    BY <1>1, <1>2, <1>4, <2>2
  <2>3. ASSUME i >= n PROVE (a \o b)[i] = s[i + 1]
    <3> DEFINE k == i - (n - 1)
    <3>1. k \in 1 .. Len(s) - n /\ n + k = i + 1 /\ ~(i <= n - 1)
      BY <1>1, <2>3
    <3>2. (a \o b)[i] = b[k]
      BY <1>4, <3>1
    <3> HIDE DEF k
    <3>3. b[k] = s[n + k]
      BY <1>3, <3>1
    <3> QED BY <3>1, <3>2, <3>3
  <2>4. i < n \/ i >= n
    BY <2>1
  <2>5. i >= n => ~(i < n)
    BY <2>1
  <2> QED BY <2>2, <2>3, <2>4, <2>5
<1> QED BY <1>4, <1>5 DEF RemoveAt, a, b

(* What is left when the n-th timer of the first batch is taken out, and where *)
(* a timer was before that.                                                    *)
Left(ts, n) == RemoveAt(Head(ts), n)
Without(ts, n) == IF Left(ts, n) = <<>> THEN Tail(ts) ELSE <<Left(ts, n)>> \o Tail(ts)
OldBatch(ts, n, i) == IF Left(ts, n) = <<>> THEN i + 1 ELSE i
OldPlace(ts, n, i, j) == IF Left(ts, n) # <<>> /\ i = 1 /\ j >= n THEN j + 1 ELSE j

(* Every timer that is left was somewhere before, and not where the fired one *)
(* was.                                                                       *)
LEMMA RemovedTimer ==
  ASSUME NEW T, NEW ts \in Seq(Batches(T)), ts # <<>>, NEW n \in DOMAIN Head(ts)
  PROVE  /\ Without(ts, n) \in Seq(Batches(T))
         /\ \A i \in DOMAIN Without(ts, n) : \A j \in DOMAIN Without(ts, n)[i] :
              /\ OldBatch(ts, n, i) \in DOMAIN ts
              /\ OldPlace(ts, n, i, j) \in DOMAIN ts[OldBatch(ts, n, i)]
              /\ Without(ts, n)[i][j] = ts[OldBatch(ts, n, i)][OldPlace(ts, n, i, j)]
              /\ OldBatch(ts, n, i) = 1 => OldPlace(ts, n, i, j) # n
<1> DEFINE us == Without(ts, n)
           rest == Left(ts, n)
           tail == Tail(ts)
           B == Batches(T)
<1>1. /\ Head(ts) \in B /\ Head(ts) = ts[1]
      /\ tail \in Seq(B) /\ Len(ts) \in Nat \ {0} /\ Len(tail) = Len(ts) - 1
      /\ DOMAIN ts = 1 .. Len(ts) /\ DOMAIN tail = 1 .. Len(ts) - 1
      /\ \A i \in 1 .. Len(ts) - 1 : tail[i] = ts[i + 1]
  BY HeadTailProperties, EmptySeq, LenProperties
<1>2. Head(ts) \in Seq(T)
  BY <1>1 DEF Batches
<1>3. /\ rest \in Seq(T) /\ Len(rest) = Len(Head(ts)) - 1
      /\ \A j \in DOMAIN rest : rest[j] = Head(ts)[IF j < n THEN j ELSE j + 1]
      /\ DOMAIN rest = 1 .. Len(Head(ts)) - 1 /\ DOMAIN Head(ts) = 1 .. Len(Head(ts))
      /\ Len(Head(ts)) \in Nat
  BY <1>2, RemoveAtProperties, LenProperties DEF Left
<1> HIDE DEF tail, B
<1>4. CASE rest = <<>>
  <2>1. us = tail
    BY <1>4 DEF Without, tail
  <2>2. \A i \in DOMAIN us : OldBatch(ts, n, i) = i + 1 /\ \A j : OldPlace(ts, n, i, j) = j
    BY <1>4 DEF OldBatch, OldPlace
  <2>3. \A i \in DOMAIN us : i + 1 \in DOMAIN ts /\ i + 1 # 1 /\ us[i] = ts[i + 1]
    BY <1>1, <2>1
  <2> HIDE DEF us
  <2> QED BY <1>1, <2>1, <2>2, <2>3 DEF B, us
<1>5. CASE rest # <<>>
  <2>1. us = <<rest>> \o tail
    BY <1>5 DEF Without, tail
  <2>2. rest \in B
    BY <1>3, <1>5 DEF B, Batches
  <2>3. /\ \A i : OldBatch(ts, n, i) = i 
        /\ \A i, j : OldPlace(ts, n, i, j) = IF i = 1 /\ j >= n THEN j + 1 ELSE j
    BY <1>5 DEF OldBatch, OldPlace
  <2>4. ASSUME NEW j \in DOMAIN rest
        PROVE  /\ OldPlace(ts, n, 1, j) \in DOMAIN ts[1]
               /\ rest[j] = ts[1][OldPlace(ts, n, 1, j)] /\ OldPlace(ts, n, 1, j) # n
    <3> HIDE DEF rest
    <3> QED BY <1>1, <1>3, <2>3
  <2> HIDE DEF rest
  <2>5. us \in Seq(B) /\ DOMAIN us = DOMAIN ts /\ us[1] = rest
    BY <1>1, <2>1, <2>2, ConcatProperties, LenProperties
  <2>6. \A i \in DOMAIN us : i # 1 => us[i] = ts[i]
    BY <1>1, <2>1, <2>2, ConcatProperties, LenProperties
  <2> HIDE DEF us
  <2>7. ASSUME NEW i \in DOMAIN us, NEW j \in DOMAIN us[i]
        PROVE  /\ OldBatch(ts, n, i) \in DOMAIN ts
               /\ OldPlace(ts, n, i, j) \in DOMAIN ts[OldBatch(ts, n, i)]
               /\ us[i][j] = ts[OldBatch(ts, n, i)][OldPlace(ts, n, i, j)]
               /\ OldBatch(ts, n, i) = 1 => OldPlace(ts, n, i, j) # n
    <3>1. CASE i = 1
      BY <2>3, <2>4, <2>5, <3>1
    <3>2. CASE i # 1
      BY <2>3, <2>5, <2>6, <3>2
    <3> QED BY <3>1, <3>2
  <2> QED BY <2>5, <2>7 DEF B, us
<1> QED BY <1>4, <1>5

(* What a timer's callback may touch: hits count on the monster, kills        *)
(* destroy it; what is left in the queue was there.                           *)
(* A timer fires: its hit or kill leaves every other kill with its monster,   *)
(* as the kill that fires was the only one reserved for its own.              *)
LEMMA FireTimerStep ==
  ASSUME IInv, FireTimer
  PROVE  IInv'
<1> USE FieldAssumption, SectorAssumption
<1> DEFINE Effect(t) ==
      LET valid == Alive(t.object) /\ object[t.object].id = t.id IN
      \/ /\ valid /\ t.kind = "hit"
         /\ object' = [object EXCEPT ![t.object].hp = @ - 1]
         /\ UNCHANGED <<monsters, removeObjects, respawns, view, late>>
      \/ /\ valid /\ t.kind = "kill" /\ object[t.monster].id = t.monsterId
         /\ DestroyMonster(t.monster)
      \/ /\ valid => t.kind = "kill" /\ object[t.monster].id # t.monsterId
         /\ UNCHANGED <<object, monsters, removeObjects, respawns, view, late>>
<1>1. /\ timers # <<>> /\ timers \in Seq(Batches(Timer))
      /\ UNCHANGED <<objects, hosts, character, idGen, overkill, reentered>>
  BY DEF FireTimer, IInv, TypeInv
<1>2. PICK n \in DOMAIN Head(timers) :
        /\ timers' = Without(timers, n) /\ phase' \in {"timers", "firing"}
        /\ Effect(Head(timers)[n])
  BY Zenon DEF FireTimer, Without, Left
<1> DEFINE t == Head(timers)[n]
<1>3. 1 \in DOMAIN timers /\ Head(timers) = timers[1] /\ t \in Timer
  <2>1. Head(timers) \in Batches(Timer) /\ 1 \in DOMAIN timers /\ Head(timers) = timers[1]
    BY <1>1, HeadTailProperties, EmptySeq, LenProperties
  <2> QED BY <2>1, ElementOfSeq, LenProperties DEF Batches
<1> HIDE DEF t
<1>4. /\ t.object \in Slots
      /\ t.kind = "hit" => t.object \in MonsterSlots
      /\ t.kind = "kill" => t.monster \in MonsterSlots /\ t.monster \in Slots
      /\ t.kind \in {"hit", "kill"}
  BY <1>3 DEF Timer, Slots
<1>5. timers' \in Seq(Batches(Timer)) /\ phase' # "packets"
  BY <1>1, <1>2, RemovedTimer
<1> DEFINE Kill(ts, i, j) == i \in DOMAIN ts /\ j \in DOMAIN ts[i] /\ ts[i][j].kind = "kill"
<1>6. ASSUME NEW i, NEW j, Kill(timers', i, j), ~overkill
      PROVE  /\ <<timers'[i][j].monsterId, timers'[i][j].monster>> \in monsters
             /\ t.kind = "kill" => timers'[i][j].monsterId # t.monsterId
             /\ \A k, l : Kill(timers', k, l) /\ timers'[i][j].monsterId = timers'[k][l].monsterId
                  => i = k /\ j = l
  <2> DEFINE At(k, l) == /\ OldBatch(timers, n, k) \in DOMAIN timers
                         /\ OldPlace(timers, n, k, l) \in DOMAIN timers[OldBatch(timers, n, k)]
                         /\ timers'[k][l] = timers[OldBatch(timers, n, k)][OldPlace(timers, n, k, l)]
                         /\ OldBatch(timers, n, k) = 1 => OldPlace(timers, n, k, l) # n
  <2>1. \A k, l : Kill(timers', k, l) => At(k, l)
    BY <1>1, <1>2, RemovedTimer
  <2>2. ASSUME NEW k, NEW l, Kill(timers, k, l)
        PROVE  /\ <<timers[k][l].monsterId, timers[k][l].monster>> \in monsters
               /\ \A x, y : Kill(timers, x, y) /\ timers[k][l].monsterId = timers[x][y].monsterId
                    => k = x /\ l = y
    BY <1>6, <2>2 DEF IInv, KillsMeetMonsters
  <2>3. t.kind = "kill" => Kill(timers, 1, n) /\ timers[1][n] = t
    BY <1>3 DEF t
  <2>4. <<timers'[i][j].monsterId, timers'[i][j].monster>> \in monsters
    BY <1>6, <2>1, <2>2
  <2>5. t.kind = "kill" => timers'[i][j].monsterId # t.monsterId
    <3> DEFINE a == OldBatch(timers, n, i)
               b == OldPlace(timers, n, i, j)
    <3>1. Kill(timers, a, b) /\ timers[a][b] = timers'[i][j] /\ (a = 1 => b # n)
      BY <1>6, <2>1
    <3>2. t.kind = "kill" /\ timers[a][b].monsterId = t.monsterId => a = 1 /\ b = n
      <4> HIDE DEF a, b, Kill
      <4> QED BY <2>2, <2>3, <3>1
    <3> QED BY <3>1, <3>2
  <2>6. ASSUME NEW k, NEW l, Kill(timers', k, l), timers'[i][j].monsterId = timers'[k][l].monsterId
        PROVE  i = k /\ j = l
    <3>1. /\ OldBatch(timers, n, i) = OldBatch(timers, n, k)
          /\ OldPlace(timers, n, i, j) = OldPlace(timers, n, k, l)
      <4> DEFINE a == OldBatch(timers, n, i)
                 b == OldPlace(timers, n, i, j)
                 c == OldBatch(timers, n, k)
                 d == OldPlace(timers, n, k, l)
      <4>1. Kill(timers, a, b) /\ timers[a][b] = timers'[i][j]
        BY <1>6, <2>1
      <4>2. Kill(timers, c, d) /\ timers[c][d] = timers'[k][l]
        BY <2>1, <2>6
      <4> HIDE DEF a, b, c, d, Kill
      <4>3. a = c /\ b = d
        BY <2>2, <2>6, <4>1, <4>2
      <4> QED BY <4>3 DEF a, b, c, d
    <3>2. i \in Int /\ k \in Int
      BY <1>5, <1>6, <2>6, LenProperties
    <3>3. j \in Int /\ l \in Int
      <4>1. timers'[i] \in Seq(Timer) /\ timers'[k] \in Seq(Timer)
        BY <1>5, <1>6, <2>6, ElementOfSeq, LenProperties DEF Batches
      <4> QED BY <4>1, <1>6, <2>6, LenProperties
    <3>4. i = k
      BY <3>1, <3>2 DEF OldBatch
    <3>5. n \in Int
      <4>1. timers[1] \in Seq(Timer)
        BY <1>1, <1>3, ElementOfSeq, LenProperties DEF Batches
      <4> QED BY <1>3, <4>1, LenProperties
    <3> QED BY <3>1, <3>3, <3>4, <3>5 DEF OldPlace
  <2> QED BY <2>4, <2>5, <2>6
<1> HIDE DEF Effect
<1>7. (monsters' = monsters) => KillsMeetMonsters'
  <2> SUFFICES ASSUME monsters' = monsters, ~overkill PROVE KillsMeetMonsters'
    BY <1>1 DEF KillsMeetMonsters
  <2> QED BY <1>6 DEF KillsMeetMonsters
<1>8. CASE UNCHANGED <<object, monsters, removeObjects, respawns, view, late>>
  <2>1. TypeInv'
    BY <1>1, <1>2, <1>5, <1>8 DEF IInv, TypeInv, TypeOK
  <2>2. /\ ObjectInv' /\ CharacterInv' /\ SectorsFollowObjects' /\ MonstersAlive'
        /\ MonsterOrRespawn' /\ NamesInv'
    BY <1>1, <1>8 DEF IInv, NamesInv, ObjectInv, CharacterInv, SectorsFollowObjects, MonstersAlive,
                      MonsterOrRespawn, InField, Alive
  <2> QED BY <1>7, <1>8, <2>1, <2>2 DEF IInv
<1>9. CASE /\ object' = [object EXCEPT ![t.object].hp = @ - 1]
           /\ UNCHANGED <<monsters, removeObjects, respawns, view, late>>
  <2>1. object' \in [Slots -> ObjectType]
    <3> DEFINE new == [object[t.object] EXCEPT !.hp = @ - 1]
    <3>1. object[t.object] \in ObjectType /\ object \in [Slots -> ObjectType]
      BY <1>4 DEF IInv, TypeInv, TypeOK
    <3>2. new \in ObjectType
      BY <3>1 DEF ObjectType
    <3>3. object' = [object EXCEPT ![t.object] = new]
      BY <1>9
    <3> HIDE DEF new
    <3> QED BY <3>1, <3>2, <3>3
  <2>2. \A o \in Slots :
          /\ object'[o].state = object[o].state /\ object'[o].id = object[o].id
          /\ object'[o].sector = object[o].sector /\ object'[o].host = object[o].host
          /\ object'[o].player = object[o].player
    BY <1>4, <1>9 DEF IInv, TypeInv, TypeOK, ObjectType
  <2>3. TypeInv'
    BY <1>1, <1>2, <1>5, <1>9, <2>1 DEF IInv, TypeInv, TypeOK
  <2>4. ObjectInv'
    BY <1>1, <2>2 DEF IInv, ObjectInv
  <2>5. \A q \in Players : InField(q) => character[q] \in Slots
    BY DEF IInv, TypeInv, TypeOK, InField, Slots
  <2>6. CharacterInv' /\ SectorsFollowObjects'
    BY <1>1, <2>2, <2>5 DEF IInv, CharacterInv, SectorsFollowObjects, InField, Alive
  <2>7. MonstersAlive'
    <3>1. \A e \in monsters : e[2] \in Slots
      BY DEF IInv, TypeInv, TypeOK, Slots
    <3> QED BY <1>9, <2>2, <3>1 DEF IInv, MonstersAlive, Alive
  <2>8. MonsterOrRespawn'
    BY <1>1, <1>9 DEF IInv, MonsterOrRespawn
  <2>9. NamesInv'
    BY <1>1, <2>2 DEF IInv, NamesInv, InField, Alive, Slots
  <2> QED BY <1>7, <1>9, <2>3, <2>4, <2>6, <2>7, <2>8, <2>9 DEF IInv
<1>10. CASE t.kind = "kill" /\ object[t.monster].id = t.monsterId /\ DestroyMonster(t.monster)
  <2> DEFINE m == t.monster
  <2>1. /\ respawns' = respawns + 1 /\ DestroyObject(m)
        /\ monsters' = {e \in monsters : e[1] # t.monsterId}
        /\ m \in MonsterSlots /\ m \in Slots /\ m \notin CharacterSlots
    BY <1>4, <1>10 DEF DestroyMonster
  <2> HIDE DEF m
  <2>2. TypeInv'
    BY <1>1, <1>2, <1>5, <2>1, Destroying DEF IInv, TypeInv, TypeOK, Names
  <2>3. ObjectInv'
    BY <1>1, <2>1, Destroying DEF IInv, ObjectInv, Alive
  <2>4. \A q \in Players : InField(q) => character[q] \in Slots \ {m}
    BY <2>1 DEF IInv, TypeInv, TypeOK, InField, Slots
  <2>5. CharacterInv'
    BY <1>1, <2>1, <2>4, Destroying DEF IInv, CharacterInv, InField, Alive
  <2>6. \A o \in Slots : /\ object'[o].sector = object[o].sector
                         /\ object'[o].state = "free" <=> object[o].state = "free"
    BY <2>1, Destroying DEF Alive
  <2>7. SectorsFollowObjects'
    BY <1>1, <2>4, <2>6 DEF IInv, SectorsFollowObjects, InField
  <2>8. MonstersAlive'
    <3>1. \A e \in monsters : e[2] \in Slots
      BY DEF IInv, TypeInv, TypeOK, Slots
    <3>2. \A e \in monsters' : e \in monsters /\ e[2] # m
      BY <1>10, <2>1 DEF IInv, MonstersAlive, m
    <3> QED BY <2>1, <3>1, <3>2, Destroying DEF IInv, MonstersAlive, Alive
  <2>9. KillsMeetMonsters'
    <3> SUFFICES ASSUME ~overkill PROVE KillsMeetMonsters'
      BY <1>1 DEF KillsMeetMonsters
    <3>1. \A i, j : Kill(timers', i, j) =>
            <<timers'[i][j].monsterId, timers'[i][j].monster>> \in monsters'
      BY <1>6, <1>10, <2>1
    <3> QED BY <1>6, <3>1 DEF KillsMeetMonsters
  <2>10. MonsterOrRespawn'
    <3>1. IsFiniteSet(monsters')
      BY <2>1, FS_Subset DEF IInv, MonsterOrRespawn
    <3>2. ASSUME ~overkill PROVE Cardinality(monsters') + respawns' = 1
      <4>1. <<t.monsterId, m>> \in monsters
        BY <1>3, <1>10, <3>2 DEF IInv, KillsMeetMonsters, t, m
      <4>2. /\ IsFiniteSet(monsters) /\ Cardinality(monsters) \in Nat
            /\ Cardinality(monsters) + respawns = 1 /\ respawns \in Nat
        BY <3>2, FS_CardinalityType DEF IInv, MonsterOrRespawn, TypeInv, TypeOK
      <4>3. Cardinality(monsters) # 0
        BY <4>1, <4>2, FS_EmptySet
      <4>4. Cardinality(monsters) = 1 /\ respawns = 0
        BY <4>2, <4>3
      <4>5. PICK x : monsters = {x}
        BY <4>2, <4>4, FS_Singleton
      <4>6. monsters' = {}
        BY <2>1, <4>1, <4>5
      <4>7. Cardinality(monsters') = 0
        BY <4>6, FS_EmptySet
      <4> QED BY <2>1, <4>4, <4>7
    <3> QED BY <1>1, <3>1, <3>2 DEF MonsterOrRespawn
  <2>11. NamesInv'
    <3>1. \A x \in CharacterSlots : x \in Slots \ {m}
      BY <2>1 DEF Slots
    <3>2. \A x \in MonsterSlots : x \in Slots /\ object'[x].id = object[x].id
      BY <2>1, Destroying DEF Slots
    <3>3. \A x \in CharacterSlots : object'[x] = object[x]
      BY <2>1, <3>1, Destroying
    <3> QED BY <1>1, <3>1, <3>2, <3>3 DEF IInv, NamesInv, InField, Alive
  <2> QED BY <2>2, <2>3, <2>5, <2>7, <2>8, <2>9, <2>10, <2>11 DEF IInv
<1> QED BY <1>2, <1>8, <1>9, <1>10 DEF t, Effect

(* The respawn: the new monster has an id no monster's memory holds.          *)
LEMMA NewMonsterStep ==
  ASSUME IInv, Respawn
  PROVE  IInv'
<1> USE FieldAssumption, SectorAssumption
<1>1. PICK o \in MonsterSlots :
        /\ object[o].state = "free"
        /\ object' = [object EXCEPT ![o] = NewMonster(idGen + 1)]
        /\ objects' = [objects EXCEPT ![SpawnSector] = @ \cup {o}]
        /\ monsters' = monsters \cup {<<idGen + 1, o>>}
  BY DEF Respawn
<1>2. /\ o \in Slots /\ SpawnSector \in Sectors /\ o \notin CharacterSlots /\ o # None
      /\ idGen \in 1..MaxIds /\ idGen + 1 \in 1..MaxIds
      /\ idGen' = idGen + 1 /\ phase' = "timers"
      /\ respawns > 0 /\ respawns' = respawns - 1
      /\ view' = Shown(view, HostsIn(aroundSectors[SpawnSector]), idGen + 1)
      /\ UNCHANGED <<hosts, character, removeObjects, timers, late, overkill, reentered>>
  BY DEF Respawn, Slots, IInv, TypeInv, TypeOK
<1>3. /\ \A x \in Slots \ {o} : object'[x] = object[x]
      /\ object'[o] = NewMonster(idGen + 1)
      /\ object' \in [Slots -> ObjectType]
  <2>1. NewMonster(idGen + 1) \in ObjectType
    BY <1>2 DEF NewMonster, ObjectType
  <2> QED BY <1>1, <1>2, <2>1 DEF IInv, TypeInv, TypeOK
<1>4. /\ object'[o].state = "alive" /\ object'[o].id = idGen + 1 /\ object'[o].sector = SpawnSector
      /\ object'[o].host = None /\ object'[o].player = None
  BY <1>3 DEF NewMonster
<1>5. \A q \in Players : InField(q) => character[q] \in Slots \ {o}
  BY <1>2 DEF IInv, TypeInv, TypeOK, InField, Slots
<1>6. TypeInv'
  <2>1. view' \in [Players -> SUBSET Names]
    <3>1. view \in [Players -> SUBSET Names] /\ idGen + 1 \in Names
      BY <1>2 DEF IInv, TypeInv, TypeOK, Names
    <3> QED BY <1>2, <3>1, Tellings
  <2>2. /\ objects' \in [Sectors -> SUBSET Slots]
        /\ monsters' \subseteq (1..MaxIds) \X MonsterSlots
    BY <1>1, <1>2 DEF IInv, TypeInv, TypeOK
  <2> QED BY <1>2, <1>3, <2>1, <2>2 DEF IInv, TypeInv, TypeOK, Names
<1>7. ObjectInv' /\ CharacterInv'
  BY <1>2, <1>3, <1>4, <1>5 DEF IInv, ObjectInv, CharacterInv, InField, Alive
<1>8. SectorsFollowObjects'
  <2> SUFFICES ASSUME NEW s \in Sectors
               PROVE  /\ objects'[s] = {x \in Slots : object'[x].state # "free" /\ object'[x].sector = s}
                      /\ hosts'[s] = {q \in Players : InField(q)' /\ object'[character'[q]].sector = s}
    BY DEF SectorsFollowObjects
  <2>1. objects'[s] = IF s = SpawnSector THEN objects[s] \cup {o} ELSE objects[s]
    BY <1>1, <1>2 DEF IInv, TypeInv, TypeOK
  <2>2. /\ objects[s] = {x \in Slots : object[x].state # "free" /\ object[x].sector = s}
        /\ hosts[s] = {q \in Players : InField(q) /\ object[character[q]].sector = s}
    BY DEF IInv, SectorsFollowObjects
  <2>3. objects'[s] = {x \in Slots : object'[x].state # "free" /\ object'[x].sector = s}
    BY <1>1, <1>2, <1>3, <1>4, <2>1, <2>2
  <2>4. hosts'[s] = {q \in Players : InField(q)' /\ object'[character'[q]].sector = s}
    BY <1>2, <1>3, <1>5, <2>2 DEF InField
  <2> QED BY <2>3, <2>4
<1>9. MonstersAlive'
  <2>1. \A e \in monsters : e[2] \in Slots \ {o}
    BY <1>1 DEF IInv, MonstersAlive, TypeInv, TypeOK, Alive, Slots
  <2>2. \A e \in monsters' : e \in monsters \/ (e[1] = idGen + 1 /\ e[2] = o)
    <3>1. \A e \in monsters' : e \in monsters \/ e = <<idGen + 1, o>>
      BY <1>1
    <3> QED BY <3>1
  <2> QED BY <1>3, <1>4, <2>1, <2>2 DEF IInv, MonstersAlive, Alive
<1>10. KillsMeetMonsters'
  BY <1>1, <1>2 DEF IInv, KillsMeetMonsters
<1>11. MonsterOrRespawn'
  <2>1. IsFiniteSet(monsters) /\ Cardinality(monsters) \in Nat
    BY FS_CardinalityType DEF IInv, MonsterOrRespawn
  <2>2. IsFiniteSet(monsters')
    BY <1>1, <2>1, FS_AddElement
  <2>3. ASSUME ~overkill PROVE Cardinality(monsters') + respawns' = 1
    <3>1. Cardinality(monsters) = 0 /\ respawns = 1
      BY <1>2, <2>1, <2>3 DEF IInv, MonsterOrRespawn, TypeInv, TypeOK
    <3>2. monsters = {}
      BY <2>1, <3>1, FS_EmptySet
    <3>3. Cardinality(monsters') = 1
      <4>1. monsters' = {<<idGen + 1, o>>}
        BY <1>1, <3>2
      <4> QED BY <4>1, FS_Singleton
    <3> QED BY <1>2, <3>1, <3>3
  <2> QED BY <1>2, <2>2, <2>3 DEF MonsterOrRespawn
<1>12. NamesInv'
  <2>1. /\ \A x \in CharacterSlots : x \in Slots \ {o}
        /\ \A x \in MonsterSlots : x \in Slots /\ object[x].id \in Nat
    BY <1>2 DEF Slots, IInv, TypeInv, TypeOK, ObjectType
  <2>2. \A x \in MonsterSlots : x # o => object'[x].id = object[x].id /\ object[x].id < idGen + 1
    BY <1>2, <1>3, <2>1 DEF IInv, NamesInv
  <2>3. /\ \A x \in MonsterSlots : object'[x].id <= idGen'
        /\ \A x, y \in MonsterSlots : object'[x].id = object'[y].id /\ object'[x].id # 0 => x = y
    BY <1>2, <1>4, <2>1, <2>2 DEF IInv, NamesInv
  <2> QED BY <1>2, <1>3, <2>1, <2>3 DEF IInv, NamesInv, InField, Alive
<1> QED BY <1>6, <1>7, <1>8, <1>9, <1>10, <1>11, <1>12 DEF IInv

(* MovePosition: an object changes sectors with its player.                   *)
LEMMA UpdateStep ==
  ASSUME IInv, Update
  PROVE  IInv'
<1> USE FieldAssumption, SectorAssumption
<1>1. PICK o \in Slots, s \in Walkable : Alive(o) /\ MovePosition(o, s)
  BY DEF Update
<1> DEFINE old == object[o].sector
           p == object[o].host
<1>2. /\ phase' = "update"
      /\ UNCHANGED <<character, monsters, removeObjects, timers, respawns, idGen, overkill,
                     reentered>>
      /\ s \in Sectors /\ old \in Sectors /\ s # old
      /\ p \in Players \cup {None}
  BY <1>1 DEF Update, MovePosition, IInv, TypeInv, TypeOK, ObjectType
<1>3. /\ object' = [object EXCEPT ![o].sector = s]
      /\ objects' = [objects EXCEPT ![old] = @ \ {o}, ![s] = @ \cup {o}]
      /\ hosts' = IF p = None THEN hosts
                  ELSE [hosts EXCEPT ![old] = @ \ {p}, ![s] = @ \cup {p}]
  BY <1>1 DEF MovePosition
<1> HIDE DEF old, p
<1>4. object' \in [Slots -> ObjectType]
  <2> DEFINE new == [object[o] EXCEPT !.sector = s]
  <2>1. object[o] \in ObjectType /\ object \in [Slots -> ObjectType]
    BY DEF IInv, TypeInv, TypeOK
  <2>2. new \in ObjectType
    BY <1>2, <2>1 DEF ObjectType
  <2>3. object' = [object EXCEPT ![o] = new]
    BY <1>3
  <2> HIDE DEF new
  <2> QED BY <2>1, <2>2, <2>3
<1>5. /\ object'[o].sector = s
      /\ \A x \in Slots : x # o => object'[x].sector = object[x].sector
      /\ \A x \in Slots :
           /\ object'[x].state = object[x].state /\ object'[x].id = object[x].id
           /\ object'[x].host = object[x].host /\ object'[x].player = object[x].player
  BY <1>3 DEF IInv, TypeInv, TypeOK, ObjectType
<1>6. \A q \in Players : InField(q) => character[q] \in Slots
  BY DEF IInv, TypeInv, TypeOK, InField, Slots
<1>7. view' \in [Players -> SUBSET Names] /\ late' \in [Players -> SUBSET Names]
  <2> DEFINE left  == Side(old, -(s[1] - old[1]), -(s[2] - old[2]))
             found == Side(s, s[1] - old[1], s[2] - old[2])
             leftHosts  == HostsIn(left) \ {p}
             foundHosts == HostsIn(found) \ {p}
             leftKeys   == Keys(ObjectsIn(left) \ {o})
             alive      == {x \in ObjectsIn(found) : Alive(x)}
             foundKeys  == Keys(ObjectsIn(found) \ {o})
             aliveKeys  == Keys(alive)
             others(v)  == Hidden(v, leftHosts, Key(o))
  <2>1. foundKeys \subseteq Names
    <3>1. found \subseteq Sectors
      BY <1>2, Ranges DEF Side
    <3> HIDE DEF found
    <3> QED BY <3>1, Ranges DEF Keys
  <2>2. /\ view' = [q \in Players |->
                IF q = p THEN (view[p] \ leftKeys) \cup foundKeys
                ELSE Shown(others(view), foundHosts, Key(o))[q]]
        /\ late' = [q \in Players |->
                IF q = p THEN (late[p] \ leftKeys) \cup (foundKeys \ aliveKeys)
                ELSE Hidden(others(late), foundHosts, Key(o))[q]]
    BY <1>1 DEF MovePosition, old, p
  <2>3. Key(o) \in Names
    BY <1>1, Ranges DEF Alive, Used
  <2> HIDE DEF leftKeys, foundKeys, aliveKeys, foundHosts, leftHosts
  <2>4. view \in [Players -> SUBSET Names] /\ late \in [Players -> SUBSET Names]
    BY DEF IInv, TypeInv, TypeOK, Names
  <2>5. others(view) \in [Players -> SUBSET Names] /\ others(late) \in [Players -> SUBSET Names]
    BY <2>4, Tellings
  <2> HIDE DEF others
  <2>6. /\ Shown(others(view), foundHosts, Key(o)) \in [Players -> SUBSET Names]
        /\ Hidden(others(late), foundHosts, Key(o)) \in [Players -> SUBSET Names]
    BY <2>3, <2>5, Tellings
  <2> QED BY <2>1, <2>2, <2>4, <2>6
<1>8. TypeInv'
  <2>1. objects' \in [Sectors -> SUBSET Slots] /\ hosts' \in [Sectors -> SUBSET Players]
    BY <1>2, <1>3 DEF IInv, TypeInv, TypeOK
  <2> QED BY <1>2, <1>4, <1>7, <2>1 DEF IInv, TypeInv, TypeOK, Names
<1>9. ObjectInv' /\ CharacterInv'
  BY <1>2, <1>5, <1>6 DEF IInv, ObjectInv, CharacterInv, InField, Alive
<1>10. SectorsFollowObjects'
  <2> SUFFICES ASSUME NEW t \in Sectors
               PROVE  /\ objects'[t] = {x \in Slots : object'[x].state # "free" /\ object'[x].sector = t}
                      /\ hosts'[t] = {q \in Players : InField(q)' /\ object'[character'[q]].sector = t}
    BY DEF SectorsFollowObjects
  <2>1. objects'[t] = IF t = s THEN objects[t] \cup {o}
                      ELSE IF t = old THEN objects[t] \ {o} ELSE objects[t]
    BY <1>2, <1>3 DEF IInv, TypeInv, TypeOK
  <2>2. hosts'[t] = IF p = None THEN hosts[t]
                    ELSE IF t = s THEN hosts[t] \cup {p}
                    ELSE IF t = old THEN hosts[t] \ {p} ELSE hosts[t]
    BY <1>2, <1>3 DEF IInv, TypeInv, TypeOK
  <2>3. /\ objects[t] = {x \in Slots : object[x].state # "free" /\ object[x].sector = t}
        /\ hosts[t] = {q \in Players : InField(q) /\ object[character[q]].sector = t}
    BY DEF IInv, SectorsFollowObjects
  <2>4. objects'[t] = {x \in Slots : object'[x].state # "free" /\ object'[x].sector = t}
    BY <1>1, <1>2, <1>5, <2>1, <2>3 DEF Alive, old
  <2>5. \A q \in Players : InField(q) => (character[q] = o <=> q = p)
    BY <1>1, <1>2 DEF IInv, ObjectInv, CharacterInv, InField, p
  <2>6. p # None => p \in Players /\ InField(p) /\ character[p] = o
    BY <1>2 DEF IInv, ObjectInv, InField, p, Slots
  <2>7. hosts'[t] = {q \in Players : InField(q)' /\ object'[character'[q]].sector = t}
    BY <1>2, <1>5, <1>6, <2>2, <2>3, <2>5, <2>6 DEF InField, old
  <2> QED BY <2>4, <2>7
<1>11. MonstersAlive'
  <2>1. \A e \in monsters : e[2] \in Slots
    BY DEF IInv, TypeInv, TypeOK, Slots
  <2> QED BY <1>2, <1>5, <2>1 DEF IInv, MonstersAlive, Alive
<1>12. KillsMeetMonsters' /\ MonsterOrRespawn'
  BY <1>2 DEF IInv, KillsMeetMonsters, MonsterOrRespawn
<1>13. NamesInv'
  BY <1>2, <1>5 DEF IInv, NamesInv, InField, Alive, Slots
<1> QED BY <1>8, <1>9, <1>10, <1>11, <1>12, <1>13 DEF IInv

(* Release frees only what was marked: neither a character in play nor a      *)
(* monster FindMonster returns.                                               *)
LEMMA ReleaseStep ==
  ASSUME IInv, Release
  PROVE  IInv'
<1> USE FieldAssumption, SectorAssumption
<1> DEFINE released == Range(removeObjects)
<1>1. /\ \A x \in released : object[x].state = "destroyed"
      /\ object' = [o \in Slots |->
            IF o \notin released THEN object[o]
            ELSE IF o \in CharacterSlots THEN Unused
            ELSE [object[o] EXCEPT !.state = "free"]]
      /\ objects' = [s \in Sectors |-> objects[s] \ released]
      /\ removeObjects' = <<>> /\ phase' = "jobs"
      /\ UNCHANGED <<hosts, character, monsters, timers, respawns, idGen, view, late,
                     overkill, reentered>>
  BY DEF Release, Range
<1> HIDE DEF released
<1>2. object' \in [Slots -> ObjectType]
  <2>1. Unused \in ObjectType
    BY DEF Unused, ObjectType
  <2>2. \A o \in Slots : object[o] \in ObjectType
    BY DEF IInv, TypeInv, TypeOK
  <2>3. \A o \in ObjectType : [o EXCEPT !.state = "free"] \in ObjectType
    BY DEF ObjectType
  <2> QED BY <1>1, <2>1, <2>2, <2>3
<1>3. /\ \A x \in Slots : x \notin released => object'[x] = object[x]
      /\ \A x \in Slots : x \in released =>
           /\ object'[x].state = "free"
           /\ object'[x].host = None \/ object'[x].host = object[x].host
           /\ object'[x].player = None \/ object'[x].player = object[x].player
  BY <1>1 DEF Unused, IInv, TypeInv, TypeOK, ObjectType
<1>4. /\ \A q \in Players : InField(q) => character[q] \in Slots \ released
      /\ \A e \in monsters : e[2] \in Slots \ released
  <2>1. \A q \in Players : InField(q) => character[q] \in Slots /\ Alive(character[q])
    BY DEF IInv, TypeInv, TypeOK, CharacterInv, InField, Slots
  <2>2. \A e \in monsters : e[2] \in Slots /\ Alive(e[2])
    BY DEF IInv, TypeInv, TypeOK, MonstersAlive, Slots
  <2> QED BY <1>1, <2>1, <2>2 DEF Alive
<1>5. TypeInv'
  <2>1. objects' \in [Sectors -> SUBSET Slots] /\ removeObjects' \in Seq(Slots)
    BY <1>1 DEF IInv, TypeInv, TypeOK
  <2> QED BY <1>1, <1>2, <2>1 DEF IInv, TypeInv, TypeOK
<1>6. ObjectInv'
  BY <1>1, <1>3 DEF IInv, ObjectInv
<1>7. CharacterInv' /\ MonstersAlive'
  BY <1>1, <1>3, <1>4 DEF IInv, CharacterInv, MonstersAlive, InField, Alive
<1>8. SectorsFollowObjects'
  BY <1>1, <1>3, <1>4 DEF IInv, SectorsFollowObjects, InField
<1>9. KillsMeetMonsters' /\ MonsterOrRespawn'
  BY <1>1 DEF IInv, KillsMeetMonsters, MonsterOrRespawn
<1>10. NamesInv'
  <2>1. \A x \in MonsterSlots : x \in Slots /\ object'[x].id = object[x].id
    BY <1>1 DEF Slots, IInv, TypeInv, TypeOK, ObjectType
  <2>2. \A x \in CharacterSlots : x \in Slots
    BY DEF Slots
  <2> QED BY <1>1, <1>3, <2>1, <2>2 DEF IInv, NamesInv, InField, Alive
<1> QED BY <1>5, <1>6, <1>7, <1>8, <1>9, <1>10 DEF IInv

(* Every step preserves the invariant.                                        *)
LEMMA InductiveStep == IInv /\ [Next]_vars => IInv'
<1>1. ASSUME IInv, Next PROVE IInv'
  BY <1>1, EnterStep, LeaveStep, CastStep, FireTimerStep, NewMonsterStep, UpdateStep,
     ReleaseStep DEF Next
<1>2. ASSUME IInv, UNCHANGED vars PROVE IInv'
  BY <1>2 DEF vars, IInv, NamesInv, TypeInv, TypeOK, ObjectInv, CharacterInv, SectorsFollowObjects,
     MonstersAlive, KillsMeetMonsters, MonsterOrRespawn, InField, Alive
<1> QED BY <1>1, <1>2

(* The inductive invariant holds throughout.                                  *)
THEOREM Inductive == Spec => []IInv
BY InitIInv, InductiveStep, PTL DEF Spec

(* Every variable of the field has its type, at every step.                   *)
THEOREM Types == Spec => []TypeOK
<1>1. IInv => TypeOK
  BY DEF IInv, TypeInv
<1> QED BY <1>1, Inductive, PTL

(* A sector lists exactly the objects that say they are in it and the players *)
(* whose character is, for every map and any number of players, monsters and  *)
(* pending skills.                                                            *)
THEOREM SectorsFollow == Spec => []SectorsFollowObjects
<1>1. IInv => SectorsFollowObjects
  BY DEF IInv
<1> QED BY <1>1, Inductive, PTL

(* FindMonster returns living monsters only, and but for an overkill the      *)
(* field has one monster or one respawn to come.                              *)
THEOREM MonsterSurvives == Spec => []OneMonster
<1>1. IInv => OneMonster
  BY DEF IInv, OneMonster, MonstersAlive, MonsterOrRespawn
<1> QED BY <1>1, Inductive, PTL

-----------------------------------------------------------------------------
(* What the clients show.  Who is around whom is mutual.                       *)
LEMMA AroundIsMutual ==
  ASSUME NEW s \in Sectors, NEW t \in Sectors
  PROVE  t \in aroundSectors[s] <=> s \in aroundSectors[t]
<1>1. s[1] \in Int /\ s[2] \in Int /\ t[1] \in Int /\ t[2] \in Int
  BY FieldAssumption DEF Sectors
<1>2. /\ t \in aroundSectors[s] <=> t[1] - s[1] \in -1..1 /\ t[2] - s[2] \in -1..1
      /\ s \in aroundSectors[t] <=> s[1] - t[1] \in -1..1 /\ s[2] - t[2] \in -1..1
  BY DEF aroundSectors
<1> QED BY <1>1, <1>2

(* The ranges MovePosition selects for a move of one sector are exactly what  *)
(* comes into reach, and what goes out of it.                                 *)
LEMMA SidesOfAStep ==
  ASSUME NEW s \in Sectors, NEW t \in Sectors,
         t[1] - s[1] \in -1..1, t[2] - s[2] \in -1..1
  PROVE  /\ Side(t, t[1] - s[1], t[2] - s[2]) = aroundSectors[t] \ aroundSectors[s]
         /\ Side(s, -(t[1] - s[1]), -(t[2] - s[2])) = aroundSectors[s] \ aroundSectors[t]
<1>1. s[1] \in Int /\ s[2] \in Int /\ t[1] \in Int /\ t[2] \in Int
  BY FieldAssumption DEF Sectors
<1>2. \A x \in Sectors : x[1] \in Int /\ x[2] \in Int
  BY FieldAssumption DEF Sectors
<1>3. \A x \in Sectors :
        /\ x \in aroundSectors[s] <=> x[1] - s[1] \in -1..1 /\ x[2] - s[2] \in -1..1
        /\ x \in aroundSectors[t] <=> x[1] - t[1] \in -1..1 /\ x[2] - t[2] \in -1..1
  BY DEF aroundSectors
<1>4. aroundSectors[s] \subseteq Sectors /\ aroundSectors[t] \subseteq Sectors
  BY DEF aroundSectors
<1> DEFINE dy == t[1] - s[1]
           dx == t[2] - s[2]
<1>5. ASSUME NEW a \in -1..1, NEW d \in -1..1
      PROVE  /\ a + d \notin -1..1 <=> d \in {-1, 1} /\ a = d
             /\ a - d \notin -1..1 <=> -d \in {-1, 1} /\ a = -d
  OBVIOUS
<1>6. dx \in -1..1 /\ dy \in -1..1 /\ t[1] = s[1] + dy /\ t[2] = s[2] + dx
  BY <1>1
<1> HIDE DEF dx, dy
<1>a. ASSUME NEW x \in Sectors, x \in aroundSectors[t]
      PROVE  x \in Side(t, dy, dx) <=> x \notin aroundSectors[s]
  <2> DEFINE a == x[1] - t[1]
             b == x[2] - t[2]
  <2>1. a \in -1..1 /\ b \in -1..1
    BY <1>3, <1>a
  <2>2. x[1] - s[1] = a + dy /\ x[2] - s[2] = b + dx
    <3>1. /\ x[1] \in Int /\ x[2] \in Int /\ dy \in Int /\ dx \in Int
          /\ s[1] \in Int /\ s[2] \in Int
      BY <1>1, <1>2, <1>6
    <3> QED BY <1>6, <3>1
  <2>3. x \in Side(t, dy, dx) <=> (dx \in {-1, 1} /\ b = dx) \/ (dy \in {-1, 1} /\ a = dy)
    BY <1>a DEF Side
  <2> HIDE DEF a, b
  <2>4. x \notin aroundSectors[s] <=> a + dy \notin -1..1 \/ b + dx \notin -1..1
    BY <1>3, <2>2
  <2> QED BY <1>5, <1>6, <2>1, <2>3, <2>4
<1>b. ASSUME NEW x \in Sectors, x \in aroundSectors[s]
      PROVE  x \in Side(s, -dy, -dx) <=> x \notin aroundSectors[t]
  <2> DEFINE a == x[1] - s[1]
             b == x[2] - s[2]
  <2>1. a \in -1..1 /\ b \in -1..1
    BY <1>3, <1>b
  <2>2. x[1] - t[1] = a - dy /\ x[2] - t[2] = b - dx
    <3>1. /\ x[1] \in Int /\ x[2] \in Int /\ dy \in Int /\ dx \in Int
          /\ s[1] \in Int /\ s[2] \in Int
      BY <1>1, <1>2, <1>6
    <3> QED BY <1>6, <3>1
  <2>3. x \in Side(s, -dy, -dx) <=> (-dx \in {-1, 1} /\ b = -dx) \/ (-dy \in {-1, 1} /\ a = -dy)
    BY <1>b DEF Side
  <2> HIDE DEF a, b
  <2>4. x \notin aroundSectors[t] <=> a - dy \notin -1..1 \/ b - dx \notin -1..1
    BY <1>3, <2>2
  <2> QED BY <1>5, <1>6, <2>1, <2>3, <2>4
<1>7. /\ Side(t, dy, dx) \subseteq aroundSectors[t] 
      /\ Side(s, -dy, -dx) \subseteq aroundSectors[s]
  BY DEF Side
<1>8. /\ Side(t, dy, dx) = aroundSectors[t] \ aroundSectors[s]
      /\ Side(s, -dy, -dx) = aroundSectors[s] \ aroundSectors[t]
  BY <1>4, <1>7, <1>a, <1>b
<1> QED BY <1>8 DEF dx, dy

(* A name that was not given twice names a living object and no other.        *)
LEMMA OneOfAName ==
  ASSUME IInv, NEW x \in Slots, NEW y \in Slots, Alive(x), Used(y),
         Key(x) = Key(y), Key(x) \notin reentered
  PROVE  x = y
<1>1. /\ object[x] \in ObjectType /\ object[y] \in ObjectType
      /\ object[x].state = "alive" /\ object[y].state \in {"alive", "destroyed"}
  BY DEF IInv, TypeInv, TypeOK, ObjectType, Alive, Used
<1>2. CASE x \in MonsterSlots /\ y \in MonsterSlots
  BY <1>1, <1>2, FieldAssumption DEF IInv, NamesInv, ObjectInv, Key
<1>3. CASE x \in CharacterSlots /\ y \in CharacterSlots
  <2> DEFINE p == object[x].player
  <2>1. p = object[y].player /\ p \notin reentered /\ p \in Players
    BY <1>1, <1>3 DEF Key, IInv, ObjectInv
  <2>2. character[p] = x
    BY <1>1, <1>3, <2>1, FieldAssumption DEF IInv, NamesInv, ObjectInv, Alive
  <2>3. object[y].state = "alive"
    BY <1>1, <1>3, <2>1, <2>2, FieldAssumption DEF IInv, NamesInv, InField
  <2>4. character[p] = y
    BY <1>3, <2>1, <2>3, FieldAssumption DEF IInv, NamesInv, ObjectInv, Alive
  <2> QED BY <2>2, <2>4
<1>4. CASE ~(x \in MonsterSlots <=> y \in MonsterSlots)
  <2>1. \A z \in {x, y} : /\ z \in CharacterSlots => object[z].player \in Players
                          /\ object[z].id \in 1..MaxIds
    BY <1>1, FieldAssumption DEF IInv, ObjectInv, ObjectType
  <2> QED BY <1>4, <2>1, FieldAssumption DEF Key, Slots
<1> QED BY <1>2, <1>3, <1>4 DEF Slots

(* Whom a packet sent to the hosts around a sector reaches, and what a player *)
(* has around him.                                                            *)
LEMMA AroundAPlayer ==
  ASSUME IInv, NEW q \in Players, InField(q)
  PROVE  LET c == character[q]
             here == object[c].sector
         IN  /\ c \in Slots /\ here \in Sectors
             /\ \A s \in Sectors : q \in HostsIn(aroundSectors[s]) <=> here \in aroundSectors[s]
             /\ Around(q) = {x \in Slots : Alive(x) /\ x # c
                                           /\ object[x].sector \in aroundSectors[here]}
<1> DEFINE c == character[q]
           here == object[c].sector
<1>1. c \in Slots /\ here \in Sectors
  BY DEF IInv, TypeInv, TypeOK, InField, Slots, ObjectType
<1>2. \A t \in Sectors : q \in hosts[t] <=> t = here
  BY DEF IInv, SectorsFollowObjects
<1>3. \A s \in Sectors : q \in HostsIn(aroundSectors[s]) <=> here \in aroundSectors[s]
  <2> HIDE DEF here
  <2> QED BY <1>2, Ranges DEF HostsIn
<1>4. Around(q) = {x \in Slots : Alive(x) /\ x # c /\ object[x].sector \in aroundSectors[here]}
  <2>1. aroundSectors[here] \subseteq Sectors
    BY <1>1, Ranges
  <2>2. \A x : x \in ObjectsIn(aroundSectors[here]) <=>
               x \in Slots /\ object[x].state # "free" /\ object[x].sector \in aroundSectors[here]
    <3> HIDE DEF here
    <3> QED BY <2>1 DEF ObjectsIn, IInv, SectorsFollowObjects, TypeInv, TypeOK, ObjectType
  <2> QED BY <2>2 DEF Around, Alive
<1> QED BY <1>1, <1>3, <1>4

(* The same of every player, now and after a step.                            *)
Surroundings ==
  \A q \in Players : InField(q) =>
    LET c == character[q]
        here == object[c].sector
    IN  /\ c \in Slots /\ here \in Sectors
        /\ \A s \in Sectors : q \in HostsIn(aroundSectors[s]) <=> here \in aroundSectors[s]
        /\ Around(q) = {x \in Slots : Alive(x) /\ x # c
                                      /\ object[x].sector \in aroundSectors[here]}

(* What the invariant says of every player's surroundings,                    *)
LEMMA SurroundingsNow == IInv => Surroundings
BY AroundAPlayer DEF Surroundings

(* and of his surroundings after a step.                                      *)
LEMMA SurroundingsNext == IInv' => Surroundings'
BY SurroundingsNow, PTL

(* SeesWhatIsAround, player by player.                                        *)
Seen(q) ==
  /\ Keys(Around(q)) \subseteq view[q] \cup reentered
  /\ view[q] \ Keys(Around(q)) \subseteq late[q] \cup reentered

Sees(q) == InField(q) => Seen(q)

(* A destroyed object goes from the screens of those who had it around.       *)
LEMMA SeenDestroyed ==
  ASSUME IInv, IInv', NEW o \in Slots, DestroyObject(o), UNCHANGED reentered,
         \A x \in Slots : Alive(x) /\ x # o /\ Key(x) = Key(o) => Key(o) \in reentered,
         NEW q \in Players, InField(q), Seen(q),
         character'[q] = character[q], character[q] # o, object[o].player # q
  PROVE  Seen(q)'
<1> DEFINE c == character[q]
           here == object[c].sector
           told == HostsIn(aroundSectors[object[o].sector])
<1>1. /\ c \in Slots /\ here \in Sectors /\ object[o].sector \in Sectors
      /\ q \in told <=> here \in aroundSectors[object[o].sector]
      /\ Around(q) = {x \in Slots : Alive(x) /\ x # c
                                    /\ object[x].sector \in aroundSectors[here]}
  <2>1. object[o].sector \in Sectors
    BY DEF IInv, TypeInv, TypeOK, ObjectType
  <2> QED BY <2>1, AroundAPlayer
<1>2. Around(q)' = {x \in Slots : object'[x].state = "alive" /\ x # c
                                  /\ object'[x].sector \in aroundSectors[here]}
  <2>1. InField(q)' /\ character'[q] = c /\ object'[c].sector = here
    BY <1>1, Destroying DEF InField
  <2>2. Around(q)' = {x \in Slots : Alive(x)' /\ x # character'[q]
                         /\ object'[x].sector \in aroundSectors[object'[character'[q]].sector]}
    BY <2>1, SurroundingsNext DEF Surroundings
  <2> QED BY <2>1, <2>2 DEF Alive
<1>3. \A x \in Slots : /\ object'[x].sector = object[x].sector /\ Key(x)' = Key(x)
                       /\ object'[x].state = "alive" <=> Alive(x) /\ x # o
  BY Destroying DEF Key, Alive
<1>4. Around(q)' = Around(q) \ {o}
  <2> HIDE DEF c, here
  <2> QED BY <1>1, <1>2, <1>3
<1>5. /\ view'[q] = IF q \in told THEN view[q] \ {Key(o)} ELSE view[q]
      /\ late'[q] = IF q \in told THEN late[q] \ {Key(o)} ELSE late[q]
  BY DEF DestroyObject, Hidden
<1>6. o \in Around(q) => q \in told
  BY <1>1, AroundIsMutual
<1> HIDE DEF c, here, told
<1>7. Keys(Around(q)') = {Key(x) : x \in Around(q) \ {o}} /\ Around(q) \subseteq Slots
  BY <1>1, <1>3, <1>4 DEF Keys
<1>8. Keys(Around(q))' = {Key(x) : x \in Around(q) \ {o}}
  BY <1>1, <1>3, <1>4 DEF Keys
<1>9. Keys(Around(q)) = {Key(x) : x \in Around(q)} /\ \A x \in Around(q) : Alive(x) /\ x \in Slots
  BY <1>1 DEF Keys
<1>10. ASSUME NEW k \in Keys(Around(q))' PROVE k \in view'[q] \cup reentered
  BY <1>5, <1>8, <1>9 DEF Seen
<1>11. ASSUME NEW k \in view'[q], k \notin Keys(Around(q))' PROVE k \in late'[q] \cup reentered
  BY <1>5, <1>6, <1>8, <1>9, <1>11 DEF Seen
<1> QED BY <1>10, <1>11 DEF Seen

(* A player nothing changes for but what became of objects that were not      *)
(* alive: he shows what he showed.                                            *)
LEMMA SeenUnchanged ==
  ASSUME IInv, IInv', NEW q \in Players, InField(q), Seen(q),
         character'[q] = character[q], view'[q] = view[q], late'[q] = late[q],
         UNCHANGED reentered,
         \A x \in Slots : Alive(x) => /\ Alive(x)' /\ object'[x].sector = object[x].sector
                                      /\ Key(x)' = Key(x),
         \A x \in Slots : Alive(x)' => Alive(x)
  PROVE  Seen(q)'
<1> DEFINE c == character[q]
           here == object[c].sector
<1>1. /\ c \in Slots /\ Alive(c)
      /\ Around(q) = {x \in Slots : Alive(x) /\ x # c /\ object[x].sector \in aroundSectors[here]}
  BY AroundAPlayer DEF IInv, CharacterInv
<1>2. Around(q)' = {x \in Slots : Alive(x)' /\ x # c /\ object'[x].sector \in aroundSectors[here]}
  <2>1. InField(q)' /\ character'[q] = c /\ object'[c].sector = here
    BY <1>1 DEF InField
  <2>2. Around(q)' = {x \in Slots : Alive(x)' /\ x # character'[q]
                         /\ object'[x].sector \in aroundSectors[object'[character'[q]].sector]}
    BY <2>1, SurroundingsNext DEF Surroundings
  <2> QED BY <2>1, <2>2
<1> HIDE DEF c, here
<1>3. Around(q)' = Around(q) /\ \A x \in Around(q) : Key(x)' = Key(x)
  BY <1>1, <1>2
<1>4. Keys(Around(q))' = Keys(Around(q))
  BY <1>3 DEF Keys
<1> QED BY <1>4 DEF Seen

(* An object appears: everyone around shows it.                               *)
LEMMA SeenAppeared ==
  ASSUME IInv, IInv', NEW o \in Slots, ~Alive(o), Alive(o)',
         NEW s \in Sectors, object'[o].sector = s,
         NEW qs, qs = HostsIn(aroundSectors[s]),
         NEW k, k = Key(o)',
         \A x \in Slots \ {o} : object'[x] = object[x],
         reentered \subseteq reentered',
         NEW q \in Players, InField(q), Seen(q), character'[q] = character[q],
         view'[q] = IF q \in qs THEN view[q] \cup {k} ELSE view[q],
         late'[q] \in {late[q], IF q \in qs THEN late[q] \ {k} ELSE late[q]}
  PROVE  Seen(q)'
<1> DEFINE c == character[q]
           here == object[c].sector
<1>1. /\ c \in Slots /\ Alive(c) /\ here \in Sectors
      /\ q \in qs <=> here \in aroundSectors[s]
      /\ Around(q) = {x \in Slots : Alive(x) /\ x # c /\ object[x].sector \in aroundSectors[here]}
  BY AroundAPlayer DEF IInv, CharacterInv
<1>2. Around(q)' = {x \in Slots : Alive(x)' /\ x # c /\ object'[x].sector \in aroundSectors[here]}
  <2>1. InField(q)' /\ character'[q] = c /\ object'[c].sector = here
    BY <1>1 DEF InField
  <2>2. Around(q)' = {x \in Slots : Alive(x)' /\ x # character'[q]
                         /\ object'[x].sector \in aroundSectors[object'[character'[q]].sector]}
    BY <2>1, SurroundingsNext DEF Surroundings
  <2> QED BY <2>1, <2>2
<1>3. s \in aroundSectors[here] <=> q \in qs
  BY <1>1, AroundIsMutual
<1>4. c # o /\ \A x \in Slots \ {o} : (Alive(x)' <=> Alive(x)) /\ Key(x)' = Key(x)
  BY <1>1 DEF Alive, Key
<1> HIDE DEF c, here
<1>5. Around(q)' = IF q \in qs THEN Around(q) \cup {o} ELSE Around(q)
  BY <1>1, <1>2, <1>3, <1>4
<1>6. o \notin Around(q) /\ Around(q) \subseteq Slots
  BY <1>1
<1>7. Keys(Around(q))' = IF q \in qs THEN Keys(Around(q)) \cup {k} ELSE Keys(Around(q))
  BY <1>4, <1>5, <1>6 DEF Keys
<1> QED BY <1>7 DEF Seen


(* A player sees what is around him when he comes in, and the others see him. *)
LEMMA EnterSeen ==
  ASSUME IInv, IInv', NEW p \in Players, Enter(p), \A q \in Players : Sees(q),
         NEW q \in Players
  PROVE  Sees(q)'
<1>1. PICK o \in CharacterSlots, s \in EntrySectors :
        LET others == ObjectsIn(aroundSectors[s]) IN
        /\ object[o].state = "free"
        /\ object' = [object EXCEPT ![o] =
             [state |-> "alive", id |-> idGen + 1, sector |-> s, host |-> p,
              player |-> p, hp |-> 0]]
        /\ character' = [character EXCEPT ![p] = o]
        /\ view' = [Shown(view, HostsIn(aroundSectors[s]), p) EXCEPT ![p] = Keys(others)]
        /\ late' = [Hidden(late, HostsIn(aroundSectors[s]), p) EXCEPT ![p] =
             Keys({x \in others : ~Alive(x)}) \ Keys({x \in others : Alive(x)})]
  BY DEF Enter
<1> DEFINE qs == HostsIn(aroundSectors[s])
           others == ObjectsIn(aroundSectors[s])
<1>2. /\ o \in Slots /\ s \in Sectors /\ o # None /\ p # None
      /\ character[p] = None /\ reentered \subseteq reentered'
  BY FieldAssumption, SectorAssumption DEF Enter, Slots
<1>3. /\ \A x \in Slots \ {o} : object'[x] = object[x]
      /\ object'[o].state = "alive" /\ object'[o].sector = s /\ object'[o].player = p
      /\ ~Alive(o) /\ Alive(o)' /\ Key(o)' = p
  BY <1>1, <1>2 DEF IInv, TypeInv, TypeOK, Alive, Key
<1>4. CASE q # p
  <2> SUFFICES ASSUME InField(q)' PROVE Seen(q)'
    BY DEF Sees
  <2>1. character'[q] = character[q] /\ InField(q) /\ Seen(q)
    BY <1>1, <1>4 DEF Sees, InField, IInv, TypeInv, TypeOK
  <2>2. /\ view'[q] = IF q \in qs THEN view[q] \cup {p} ELSE view[q]
        /\ late'[q] = IF q \in qs THEN late[q] \ {p} ELSE late[q]
    BY <1>1, <1>4 DEF Shown, Hidden
  <2> HIDE DEF qs
  <2>3. qs = HostsIn(aroundSectors[s])
    BY DEF qs
  <2> QED BY <1>2, <1>3, <2>1, <2>2, <2>3, SeenAppeared
<1>5. CASE q = p
  <2>1. /\ view'[p] = Keys(others)
        /\ late'[p] = Keys({x \in others : ~Alive(x)}) \ Keys({x \in others : Alive(x)})
        /\ character'[p] = o
    BY <1>1 DEF Shown, Hidden, IInv, TypeInv, TypeOK
  <2>2. Around(p)' = {x \in Slots : Alive(x)' /\ x # o /\ object'[x].sector \in aroundSectors[s]}
    <3>1. InField(p)' /\ object'[character'[p]].sector = s
      BY <1>2, <1>3, <2>1 DEF InField
    <3>2. Around(p)' = {x \in Slots : Alive(x)' /\ x # character'[p]
                         /\ object'[x].sector \in aroundSectors[object'[character'[p]].sector]}
      BY <3>1, SurroundingsNext DEF Surroundings
    <3> QED BY <2>1, <3>1, <3>2
  <2>3. others = {x \in Slots : Used(x) /\ object[x].sector \in aroundSectors[s]}
    <3>1. aroundSectors[s] \subseteq Sectors
      BY <1>2, Ranges
    <3>2. \A x : x \in others <=>
                 x \in Slots /\ object[x].state # "free" /\ object[x].sector \in aroundSectors[s]
      BY <3>1 DEF ObjectsIn, IInv, SectorsFollowObjects, TypeInv, TypeOK, ObjectType
    <3> HIDE DEF others
    <3> QED BY <3>2 DEF Used
  <2> HIDE DEF others
  <2>4. \A x \in Slots \ {o} : (Alive(x)' <=> Alive(x)) /\ Key(x)' = Key(x)
    BY <1>3 DEF Alive, Key
  <2>5. Around(p)' = {x \in others : Alive(x)}
    BY <1>3, <2>2, <2>3, <2>4 DEF Alive, Used
  <2>6. Keys(Around(p))' = Keys({x \in others : Alive(x)})
    BY <1>3, <2>3, <2>4, <2>5 DEF Keys
  <2>7. Keys(others) = Keys({x \in others : Alive(x)}) \cup Keys({x \in others : ~Alive(x)})
    BY DEF Keys
  <2> QED BY <1>5, <2>1, <2>6, <2>7 DEF Sees, Seen
<1> QED BY <1>4, <1>5

(* The character of a player who leaves goes from the others' screens.        *)
LEMMA LeaveSeen ==
  ASSUME IInv, IInv', NEW p \in Players, Leave(p), \A q \in Players : Sees(q),
         NEW q \in Players
  PROVE  Sees(q)'
<1> DEFINE o == character[p]
<1>1. /\ o # None /\ DestroyObject(o) /\ character' = [character EXCEPT ![p] = None]
      /\ UNCHANGED reentered
  BY DEF Leave
<1>2. /\ o \in Slots /\ o \in CharacterSlots /\ Alive(o) /\ object[o].player = p /\ object[o].host = p
      /\ InField(p)
  BY <1>1 DEF IInv, TypeInv, TypeOK, CharacterInv, InField, Slots
<1>3. \A x \in Slots : Alive(x) /\ x # o /\ Key(x) = Key(o) => Key(o) \in reentered
  BY <1>2, OneOfAName DEF Alive, Used
<1> SUFFICES ASSUME InField(q)' PROVE Seen(q)'
  BY DEF Sees
<1>4. character'[q] = character[q] /\ q # p /\ InField(q) /\ Seen(q)
  BY <1>1 DEF Sees, InField, IInv, TypeInv, TypeOK
<1>5. character[q] # o
  BY <1>2, <1>4 DEF IInv, CharacterInv
<1> HIDE DEF o
<1> QED BY <1>1, <1>2, <1>3, <1>4, <1>5, SeenDestroyed

(* A timer hits a monster, or destroys it for everyone around.                *)
LEMMA FireTimerSeen ==
  ASSUME IInv, IInv', FireTimer, \A q \in Players : Sees(q), NEW q \in Players
  PROVE  Sees(q)'
<1> DEFINE Effect(t) ==
      LET valid == Alive(t.object) /\ object[t.object].id = t.id IN
      \/ /\ valid /\ t.kind = "hit"
         /\ object' = [object EXCEPT ![t.object].hp = @ - 1]
         /\ UNCHANGED <<monsters, removeObjects, respawns, view, late>>
      \/ /\ valid /\ t.kind = "kill" /\ object[t.monster].id = t.monsterId
         /\ DestroyMonster(t.monster)
      \/ /\ valid => t.kind = "kill" /\ object[t.monster].id # t.monsterId
         /\ UNCHANGED <<object, monsters, removeObjects, respawns, view, late>>
<1>1. /\ timers # <<>> /\ timers \in Seq(Batches(Timer))
      /\ UNCHANGED <<objects, hosts, character, idGen, overkill, reentered>>
  BY DEF FireTimer, IInv, TypeInv
<1>2. PICK n \in DOMAIN Head(timers) : Effect(Head(timers)[n])
  BY Zenon DEF FireTimer
<1> DEFINE t == Head(timers)[n]
<1>3. t \in Timer
  <2>1. Head(timers) \in Batches(Timer)
    BY <1>1, HeadTailProperties
  <2> QED BY <2>1, ElementOfSeq, LenProperties DEF Batches
<1>4. Effect(t)
  BY <1>2
<1> HIDE DEF t
<1> SUFFICES ASSUME InField(q)' PROVE Seen(q)'
  BY DEF Sees
<1>5. character'[q] = character[q] /\ InField(q) /\ Seen(q)
  BY <1>1 DEF Sees, InField
<1>6. CASE t.kind = "hit" /\ object' = [object EXCEPT ![t.object].hp = @ - 1] /\ UNCHANGED <<view, late>>
  <2>1. \A x \in Slots : /\ object'[x].sector = object[x].sector /\ object'[x].id = object[x].id
                         /\ object'[x].state = object[x].state
                         /\ object'[x].player = object[x].player
    BY <1>6 DEF IInv, TypeInv, TypeOK, ObjectType
  <2>2. \A x \in Slots : (Alive(x)' <=> Alive(x)) /\ Key(x)' = Key(x)
    BY <2>1 DEF Alive, Key
  <2> QED BY <1>1, <1>5, <1>6, <2>1, <2>2, SeenUnchanged
<1>7. CASE t.kind = "kill" /\ object[t.monster].id = t.monsterId /\ DestroyMonster(t.monster)
  <2> DEFINE o == t.monster
  <2>1. o \in MonsterSlots /\ o \in Slots /\ object[o].id \in 1..MaxIds
    BY <1>3, <1>7 DEF Timer, Slots
  <2>2. \A x \in Slots : Alive(x) /\ x # o /\ Key(x) = Key(o) => Key(o) \in reentered
    <3> SUFFICES ASSUME NEW x \in Slots, Alive(x), Key(x) = Key(o) PROVE x = o
      OBVIOUS
    <3>1. Key(o) = object[o].id /\ Key(o) \in 1..MaxIds
      BY <2>1, FieldAssumption DEF Key
    <3>2. CASE x \in CharacterSlots
      BY <3>1, <3>2, FieldAssumption DEF Key, IInv, ObjectInv, Alive
    <3>3. CASE x \in MonsterSlots
      BY <2>1, <3>1, <3>3, FieldAssumption DEF Key, IInv, NamesInv
    <3> QED BY <3>2, <3>3 DEF Slots
  <2>3. character[q] # o /\ object[o].player # q
    BY <1>5, <2>1, FieldAssumption DEF InField, IInv, TypeInv, TypeOK, ObjectInv
  <2>4. DestroyObject(o)
    BY <1>7 DEF DestroyMonster
  <2> HIDE DEF o
  <2> QED BY <1>1, <1>5, <2>1, <2>2, <2>3, <2>4, SeenDestroyed
<1>8. CASE UNCHANGED <<object, view, late>>
  <2>1. \A x \in Slots : (Alive(x)' <=> Alive(x)) /\ Key(x)' = Key(x)
    BY <1>8 DEF Alive, Key
  <2> QED BY <1>1, <1>5, <1>8, <2>1, SeenUnchanged
<1> QED BY <1>4, <1>6, <1>7, <1>8

(* A skill reserves, and shows nobody anything.                               *)
LEMMA CastSeen ==
  ASSUME IInv, IInv', NEW p \in Players, Cast(p), \A q \in Players : Sees(q),
         NEW q \in Players
  PROVE  Sees(q)'
<1>1. UNCHANGED <<object, character, view, late, reentered>>
  BY DEF Cast
<1>2. \A x \in Slots : (Alive(x)' <=> Alive(x)) /\ Key(x)' = Key(x)
  BY <1>1 DEF Alive, Key
<1> SUFFICES ASSUME InField(q)' PROVE Seen(q)'
  BY DEF Sees
<1>3. InField(q) /\ Seen(q)
  BY <1>1 DEF Sees, InField
<1> QED BY <1>1, <1>2, <1>3, SeenUnchanged

(* A monster comes back, for everyone around its spawn point.                 *)
LEMMA RespawnSeen ==
  ASSUME IInv, IInv', Respawn, \A q \in Players : Sees(q), NEW q \in Players
  PROVE  Sees(q)'
<1>1. PICK o \in MonsterSlots :
        /\ object[o].state = "free" /\ object' = [object EXCEPT ![o] = NewMonster(idGen + 1)]
  BY DEF Respawn
<1> DEFINE qs == HostsIn(aroundSectors[SpawnSector])
<1>2. /\ o \in Slots /\ SpawnSector \in Sectors
      /\ view' = Shown(view, HostsIn(aroundSectors[SpawnSector]), idGen + 1)
      /\ UNCHANGED <<character, late, reentered>>
  BY SectorAssumption DEF Respawn, Slots
<1>3. /\ \A x \in Slots \ {o} : object'[x] = object[x]
      /\ ~Alive(o) /\ Alive(o)' /\ Key(o)' = idGen + 1 /\ object'[o].sector = SpawnSector
  BY <1>1, <1>2, FieldAssumption DEF IInv, TypeInv, TypeOK, Alive, Key, NewMonster
<1>4. view'[q] = IF q \in qs THEN view[q] \cup {idGen + 1} ELSE view[q]
  BY <1>2 DEF Shown
<1> SUFFICES ASSUME InField(q)' PROVE Seen(q)'
  BY DEF Sees
<1>5. InField(q) /\ Seen(q)
  BY <1>2 DEF Sees, InField
<1> HIDE DEF qs
<1>6. qs = HostsIn(aroundSectors[SpawnSector])
  BY DEF qs
<1> QED BY <1>2, <1>3, <1>4, <1>5, <1>6, SeenAppeared

(* What is released was gone already.                                         *)
LEMMA ReleaseSeen ==
  ASSUME IInv, IInv', Release, \A q \in Players : Sees(q), NEW q \in Players
  PROVE  Sees(q)'
<1> DEFINE released == Range(removeObjects)
<1>1. /\ object' = [o \in Slots |->
            IF o \notin released THEN object[o]
            ELSE IF o \in CharacterSlots THEN Unused
            ELSE [object[o] EXCEPT !.state = "free"]]
      /\ UNCHANGED <<character, view, late, reentered>>
  BY DEF Release
<1>2. \A x \in released : ~Alive(x)
  BY DEF Release, Range, Alive
<1> HIDE DEF released
<1>3. /\ \A x \in Slots : Alive(x) => object'[x] = object[x]
      /\ \A x \in Slots : Alive(x)' => Alive(x)
  <2>1. \A x \in Slots : object'[x] = IF x \notin released THEN object[x]
            ELSE IF x \in CharacterSlots THEN Unused
            ELSE [object[x] EXCEPT !.state = "free"]
    BY <1>1
  <2>2. ASSUME NEW x \in Slots, x \in released PROVE object'[x].state = "free"
    <3>1. object[x] \in ObjectType
      BY DEF IInv, TypeInv, TypeOK
    <3>2. [object[x] EXCEPT !.state = "free"].state = "free" /\ Unused.state = "free"
      BY <3>1 DEF Unused, ObjectType
    <3>3. object'[x] \in {Unused, [object[x] EXCEPT !.state = "free"]}
      BY <2>1, <2>2
    <3> QED BY <3>2, <3>3
  <2> QED BY <1>2, <2>1, <2>2 DEF Alive
<1>4. \A x \in Slots : Alive(x) => /\ Alive(x)' /\ object'[x].sector = object[x].sector
                                   /\ Key(x)' = Key(x)
  BY <1>3 DEF Alive, Key
<1> SUFFICES ASSUME InField(q)' PROVE Seen(q)'
  BY DEF Sees
<1>5. InField(q) /\ Seen(q)
  BY <1>1 DEF Sees, InField
<1> QED BY <1>1, <1>3, <1>4, <1>5, SeenUnchanged


(* An object walks into a sector next to its own: those it goes out of reach  *)
(* of no longer show it, those it comes into reach of do, and its own player  *)
(* shows what is around where it has come.                                    *)
LEMMA UpdateSeen ==
  ASSUME MaxStep = 1, IInv, IInv', Update, \A q \in Players : Sees(q), NEW q \in Players
  PROVE  Sees(q)'
<1>1. PICK o \in Slots, s \in Walkable :
        /\ Alive(o) /\ MovePosition(o, s)
        /\ s[1] - object[o].sector[1] \in -1..1 /\ s[2] - object[o].sector[2] \in -1..1
  <2>1. /\ Section \subseteq Walkable /\ -MaxStep..MaxStep = -1..1
    BY SectorAssumption
  <2> QED BY <2>1 DEF Update
<1> DEFINE old == object[o].sector
           p == object[o].host
           left == Side(old, -(s[1] - old[1]), -(s[2] - old[2]))
           found == Side(s, s[1] - old[1], s[2] - old[2])
           leftHosts  == HostsIn(left) \ {p}
           foundHosts == HostsIn(found) \ {p}
           leftKeys   == Keys(ObjectsIn(left) \ {o})
           alive      == {x \in ObjectsIn(found) : Alive(x)}
           foundKeys  == Keys(ObjectsIn(found) \ {o})
           others(v)  == Hidden(v, leftHosts, Key(o))
<1>2. /\ UNCHANGED <<character, reentered>>
      /\ s \in Sectors /\ old \in Sectors /\ s # old
      /\ p \in Players \cup {None}
  BY <1>1, SectorAssumption DEF Update, MovePosition, IInv, TypeInv, TypeOK, ObjectType
<1>3. /\ object' = [object EXCEPT ![o].sector = s]
      /\ view' = [r \in Players |->
                IF r = p THEN (view[p] \ leftKeys) \cup foundKeys
                ELSE Shown(others(view), foundHosts, Key(o))[r]]
      /\ late' = [r \in Players |->
                IF r = p THEN (late[p] \ leftKeys) \cup (foundKeys \ Keys(alive))
                ELSE Hidden(others(late), foundHosts, Key(o))[r]]
  BY <1>1 DEF MovePosition
<1>4. found = aroundSectors[s] \ aroundSectors[old] /\ left = aroundSectors[old] \ aroundSectors[s]
  BY <1>1, <1>2, SidesOfAStep
<1>5. aroundSectors[s] \subseteq Sectors /\ aroundSectors[old] \subseteq Sectors
  BY <1>2, Ranges
<1>6. \A R \in SUBSET Sectors : \A x :
        x \in ObjectsIn(R) <=> x \in Slots /\ Used(x) /\ object[x].sector \in R
  BY DEF ObjectsIn, IInv, SectorsFollowObjects, Used, TypeInv, TypeOK, ObjectType
<1>7. \A r \in Players : \A R \in SUBSET Sectors :
        InField(r) => (r \in HostsIn(R) <=> object[character[r]].sector \in R)
  BY DEF HostsIn, IInv, SectorsFollowObjects
<1>8. /\ object'[o].sector = s
      /\ \A x \in Slots : x # o => object'[x].sector = object[x].sector
      /\ \A x \in Slots : Key(x)' = Key(x) /\ (Alive(x)' <=> Alive(x))
  <2>1. /\ object'[o].sector = s
        /\ \A x \in Slots : x # o => object'[x].sector = object[x].sector
        /\ \A x \in Slots : /\ object'[x].state = object[x].state /\ object'[x].id = object[x].id
                            /\ object'[x].player = object[x].player
    BY <1>3 DEF IInv, TypeInv, TypeOK, ObjectType
  <2> QED BY <2>1 DEF Key, Alive
<1> SUFFICES ASSUME InField(q)' PROVE Seen(q)'
  BY DEF Sees
<1> DEFINE c == character[q]
           here == object[c].sector
<1>9. /\ InField(q) /\ Seen(q) /\ c \in Slots /\ here \in Sectors
      /\ Around(q) = {x \in Slots : Alive(x) /\ x # c /\ object[x].sector \in aroundSectors[here]}
  BY <1>2, AroundAPlayer DEF Sees, InField
<1>10. Around(q)' = {x \in Slots : Alive(x) /\ x # c
                        /\ object'[x].sector \in aroundSectors[object'[c].sector]}
  <2>1. Around(q)' = {x \in Slots : Alive(x)' /\ x # character'[q]
                         /\ object'[x].sector \in aroundSectors[object'[character'[q]].sector]}
    BY SurroundingsNext DEF Surroundings
  <2> QED BY <1>2, <1>8, <2>1
<1>11. c = o <=> q = p
  BY <1>1, <1>9, <1>2, FieldAssumption DEF IInv, ObjectInv, CharacterInv, InField
<1>12. \A x \in Slots : Used(x) /\ Key(x) = Key(o) /\ Key(o) \notin reentered => x = o
  BY <1>1, OneOfAName
<1>13. old \in aroundSectors[old]
  <2>1. old[1] \in Int /\ old[2] \in Int
    BY <1>2, FieldAssumption DEF Sectors
  <2> HIDE DEF old
  <2> QED BY <1>2, <2>1 DEF aroundSectors
<1>14. Keys(Around(q))' = {Key(x) : x \in Around(q)'}
  <2>1. Around(q)' \subseteq Slots
    BY <1>10
  <2> QED BY <1>8, <2>1 DEF Keys
<1> HIDE DEF left, found, c, here, old
<1>15. CASE q # p
  <2>1. object'[c].sector = here /\ c # o
    BY <1>8, <1>9, <1>11, <1>15 DEF here
  <2>2. Around(q)' = IF s \in aroundSectors[here] THEN Around(q) \cup {o} ELSE Around(q) \ {o}
    BY <1>1, <1>8, <1>9, <1>10, <2>1
  <2>3. o \in Around(q) <=> old \in aroundSectors[here]
    BY <1>1, <1>9, <2>1 DEF old
  <2>4. /\ q \in leftHosts <=> old \in aroundSectors[here] /\ s \notin aroundSectors[here]
        /\ q \in foundHosts <=> s \in aroundSectors[here] /\ old \notin aroundSectors[here]
    <3>1. /\ here \in aroundSectors[old] <=> old \in aroundSectors[here]
          /\ here \in aroundSectors[s] <=> s \in aroundSectors[here]
      BY <1>2, <1>9, AroundIsMutual
    <3>2. /\ q \in HostsIn(left) <=> here \in left
          /\ q \in HostsIn(found) <=> here \in found
      BY <1>4, <1>5, <1>7, <1>9 DEF c, here
    <3> QED BY <1>4, <1>15, <3>1, <3>2
  <2>5. /\ view'[q] = IF q \in foundHosts THEN view[q] \cup {Key(o)}
                      ELSE IF q \in leftHosts THEN view[q] \ {Key(o)} ELSE view[q]
        /\ late'[q] = IF q \in leftHosts \/ q \in foundHosts THEN late[q] \ {Key(o)} ELSE late[q]
    <3> HIDE DEF leftHosts, foundHosts, leftKeys, foundKeys, alive
    <3>1. ~(q \in leftHosts /\ q \in foundHosts)
      BY <2>4
    <3> QED BY <1>3, <1>15, <3>1 DEF Shown, Hidden
  <2> HIDE DEF leftHosts, foundHosts, leftKeys, foundKeys, alive
  <2>6. \A x \in Around(q) : x \in Slots /\ Used(x)
    BY <1>9 DEF Alive, Used
  <2>7. /\ Keys(Around(q))' = {Key(x) : x \in Around(q)'}
        /\ Keys(Around(q)) = {Key(x) : x \in Around(q)}
    BY <1>14 DEF Keys
  <2>8. ASSUME NEW k \in Keys(Around(q))' PROVE k \in view'[q] \cup reentered
    BY <1>9, <1>12, <2>2, <2>3, <2>4, <2>5, <2>6, <2>7 DEF Seen
  <2>9. ASSUME NEW k \in view'[q], k \notin Keys(Around(q))' PROVE k \in late'[q] \cup reentered
    BY <1>9, <2>2, <2>3, <2>4, <2>5, <2>7, <2>9 DEF Seen
  <2> QED BY <1>2, <2>8, <2>9 DEF Seen
<1>16. CASE q = p
  <2>1. c = o /\ here = old /\ object'[c].sector = s
    BY <1>8, <1>11, <1>16 DEF old, here
  <2>2. /\ view'[q] = (view[q] \ leftKeys) \cup foundKeys
        /\ late'[q] = (late[q] \ leftKeys) \cup (foundKeys \ Keys(alive))
    BY <1>3, <1>16
  <2>3. /\ Around(q) = {x \in Slots : Alive(x) /\ x # o /\ object[x].sector \in aroundSectors[old]}
        /\ Around(q)' = {x \in Slots : Alive(x) /\ x # o /\ object[x].sector \in aroundSectors[s]}
    BY <1>8, <1>9, <1>10, <2>1
  <2>4. /\ Keys(Around(q))' = {Key(x) : x \in Around(q)'}
        /\ Keys(Around(q)) = {Key(x) : x \in Around(q)}
    BY <1>14 DEF Keys
  <2>5. /\ leftKeys = {Key(x) : x \in {y \in Slots \ {o} : Used(y) /\ object[y].sector \in left}}
        /\ foundKeys = {Key(x) : x \in {y \in Slots \ {o} : Used(y) /\ object[y].sector \in found}}
        /\ Keys(alive) = {Key(x) : x \in {y \in Slots \ {o} : Alive(y) /\ object[y].sector \in found}}
    <3>1. left \subseteq Sectors /\ found \subseteq Sectors
      BY <1>4, <1>5
    <3>2. /\ ObjectsIn(left) \ {o} = {y \in Slots \ {o} : Used(y) /\ object[y].sector \in left}
          /\ ObjectsIn(found) \ {o} = {y \in Slots \ {o} : Used(y) /\ object[y].sector \in found}
      BY <1>6, <3>1
    <3>3. o \notin ObjectsIn(found)
      BY <1>4, <1>6, <1>13, <3>1 DEF old
    <3>4. alive = {y \in Slots \ {o} : Alive(y) /\ object[y].sector \in found}
      BY <3>2, <3>3 DEF Alive, Used
    <3> QED BY <3>2, <3>4 DEF Keys
  <2> HIDE DEF leftKeys, foundKeys, alive, old
  <2>6. \A x \in Slots : Alive(x) => Used(x)
    BY DEF Alive, Used
  <2>7. \A x, y \in Slots : Alive(x) /\ Used(y) /\ Key(x) = Key(y) /\ Key(x) \notin reentered => x = y
    BY OneOfAName
  <2>8. ASSUME NEW x \in Slots, Alive(x), x # o, object[x].sector \in aroundSectors[s],
               Key(x) \notin reentered
        PROVE  Key(x) \in view'[q]
    <3>1. CASE object[x].sector \in found
      BY <2>2, <2>5, <2>6, <2>8, <3>1
    <3>2. CASE object[x].sector \notin found
      <4>1. x \in Around(q) /\ object[x].sector \notin left
        BY <1>4, <2>3, <2>8, <3>2
      <4>2. Key(x) \in view[q]
        BY <1>9, <2>4, <2>8, <4>1 DEF Seen
      <4>3. Key(x) \notin leftKeys
        BY <2>5, <2>7, <2>8, <4>1
      <4> QED BY <2>2, <4>2, <4>3
    <3> QED BY <3>1, <3>2
  <2>9. ASSUME NEW k \in view'[q], k \notin reentered,
               \A x \in Slots : Alive(x) /\ x # o /\ object[x].sector \in aroundSectors[s] => Key(x) # k
        PROVE  k \in late'[q]
    <3>1. CASE k \in foundKeys
      <4>1. k \notin Keys(alive)
        BY <1>4, <2>5, <2>9
      <4> QED BY <2>2, <3>1, <4>1
    <3>2. CASE k \in view[q] /\ k \notin leftKeys
      <4>1. k \notin Keys(Around(q))
        <5> SUFFICES ASSUME NEW x \in Around(q), k = Key(x) PROVE FALSE
          BY <2>4
        <5>1. x \in Slots /\ Alive(x) /\ x # o /\ object[x].sector \in aroundSectors[old]
          BY <2>3
        <5> QED BY <1>4, <2>5, <2>6, <2>9, <3>2, <5>1
      <4> QED BY <1>9, <2>2, <2>9, <3>2, <4>1 DEF Seen
    <3> QED BY <2>2, <2>9, <3>1, <3>2
  <2>10. ASSUME NEW k \in Keys(Around(q))' PROVE k \in view'[q] \cup reentered
    BY <2>3, <2>4, <2>8
  <2>11. ASSUME NEW k \in view'[q], k \notin Keys(Around(q))' PROVE k \in late'[q] \cup reentered
    BY <2>3, <2>4, <2>9, <2>11
  <2> QED BY <1>2, <2>10, <2>11 DEF Seen
<1> QED BY <1>15, <1>16


(* Every step keeps SeesWhatIsAround where no object crosses more than a      *)
(* sector in a frame.                                                         *)
LEMMA SeesStep ==
  ASSUME MaxStep = 1, IInv, IInv', \A q \in Players : Sees(q), [Next]_vars
  PROVE  \A q \in Players : Sees(q)'
<1> SUFFICES ASSUME NEW q \in Players PROVE Sees(q)'
  OBVIOUS
<1>1. CASE Next
  BY <1>1, EnterSeen, LeaveSeen, CastSeen, FireTimerSeen, RespawnSeen, UpdateSeen, ReleaseSeen
     DEF Next
<1>2. CASE UNCHANGED vars
  <2>1. UNCHANGED <<object, character, view, late, reentered>>
    BY <1>2 DEF vars
  <2>2. \A x \in Slots : (Alive(x)' <=> Alive(x)) /\ Key(x)' = Key(x)
    BY <2>1 DEF Alive, Key
  <2> SUFFICES ASSUME InField(q)' PROVE Seen(q)'
    BY DEF Sees
  <2>3. InField(q) /\ Seen(q)
    BY <2>1 DEF Sees, InField
  <2> QED BY <2>1, <2>2, <2>3, SeenUnchanged
<1> QED BY <1>1, <1>2

(* Each client shows exactly what is around its player, but for what was      *)
(* destroyed before he came near and for those who came back: for every map   *)
(* and population, as long as no object crosses more than one sector in a     *)
(* frame (MovePosition tells nobody of a longer way).                         *)
THEOREM ClientsSee ==
  ASSUME MaxStep = 1
  PROVE  Spec => []SeesWhatIsAround
<1>1. Init => \A q \in Players : Sees(q)
  BY DEF Init, Sees, InField
<1>2. IInv /\ IInv' /\ (\A q \in Players : Sees(q)) /\ [Next]_vars => (\A q \in Players : Sees(q))'
  BY SeesStep
<1>3. (\A q \in Players : Sees(q)) => SeesWhatIsAround
  BY DEF Sees, Seen, SeesWhatIsAround
<1> QED BY <1>1, <1>2, <1>3, Inductive, PTL DEF Spec


=============================================================================

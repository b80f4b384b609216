------------------------------ MODULE GameField ------------------------------
(***************************************************************************)
(* One field of the game server (GameGroup on GameGroupBase): the objects  *)
(* in their sectors, the players attached to them, what each client has    *)
(* been told to show, the timers and the frame that runs them.             *)
(*                                                                         *)
(* A field is one thread, so every handler is one step; what interleaves   *)
(* is their order.  A frame runs the jobs, then the packets, then the      *)
(* timers that are due, then OnUpdate of every object, and only at its end *)
(* gives the destroyed objects back to their pools: until then a destroyed *)
(* object still is in its sector, and pointers to it are still around.     *)
(*                                                                         *)
(* Positions are sectors; hit points count hits; time is the order of the  *)
(* ticks at which timers were reserved.  Monsters' attacks and the paths   *)
(* objects follow are left out: an object may walk anywhere.               *)
(***************************************************************************)
EXTENDS Integers, FiniteSets, Sequences, SequencesExt

CONSTANTS
  Players,         \* who may enter the field (GameHost)
  CharacterSlots,  \* memory of the pool of characters
  MonsterSlots,    \* memory of the pool of monsters
  Height, Width,   \* the map, in sectors
  Walkable,        \* sectors with movable tiles
  Section,         \* those the monster walks in
  EntrySectors,    \* where a player may appear (spawnInfo)
  SpawnSector,     \* spawn point of the field's monster
  MaxHp,           \* hits a monster takes
  MaxStep,         \* bound: sectors an object crosses in a frame
  MaxIds,          \* bound: objects ever created
  MaxPending,      \* bound: skills whose timers have not fired
  None

ASSUME FieldAssumption ==
  /\ {Height, Width, MaxHp, MaxStep, MaxIds, MaxPending} \subseteq Nat \ {0}
  /\ CharacterSlots \cap MonsterSlots = {} /\ MonsterSlots # {}
  /\ None \notin CharacterSlots \cup MonsterSlots \cup Players
  /\ Players \cap 1..MaxIds = {}   \* packets tell players' ids from monsters'

Slots == CharacterSlots \cup MonsterSlots

Sectors == (1..Height) \X (1..Width)

ASSUME SectorAssumption == 
  /\ Walkable \subseteq Sectors /\ Section \subseteq Walkable
  /\ EntrySectors \cup {SpawnSector} \subseteq Walkable

VARIABLES
  phase,     \* what the thread has come to in its frame: what comes before
             \* is over, what comes after may come next
  object,    \* the memory of each slot
  objects,   \* Sector::_classifiedObjects
  hosts,     \* Sector::hosts
  character, \* Player::curCharacter of the players in _players
  monsters,  \* FieldManager::_monsters: id -> Monster*
  removeObjects, \* _removeObjects
  timers,    \* the 0.8 s timers, in groups reserved at one tick
  respawns,  \* the 5 s timers of DestroyMonster
  idGen,     \* _objectIdGenerator (and monsterIdGenerator)
  view,      \* what each client shows: its own character apart
  late,      \* history: what it shows of objects destroyed before it came near
  overkill,  \* history: a second kill was reserved for one monster
  reentered  \* history: players who came back before their old character had
             \* left its sector: two objects went by one name

vars == <<phase, object, objects, hosts, character, monsters, removeObjects,
          timers, respawns, idGen, view, late, overkill, reentered>>

-----------------------------------------------------------------------------
(* Sectors *)

\* The range AROUND: the sector and its neighbours.
aroundSectors ==
  [s \in Sectors |-> {t \in Sectors : /\ t[1] - s[1] \in -1..1
                                    /\ t[2] - s[2] \in -1..1}]

\* mutant: a diagonal move selects nothing.
Side_NoDiagonal(s, dy, dx) ==
  {t \in aroundSectors[s] : \/ dy = 0 /\ dx \in {-1, 1} /\ t[2] - s[2] = dx
                            \/ dx = 0 /\ dy \in {-1, 1} /\ t[1] - s[1] = dy}

\* The part of them that MovePosition's ranges select: the column on the side
\* dx, the row on the side dy, both when the move is diagonal, none for a
\* difference that is not one sector.
Side(s, dy, dx) ==
  {t \in aroundSectors[s] : \/ dx \in {-1, 1} /\ t[2] - s[2] = dx
                            \/ dy \in {-1, 1} /\ t[1] - s[1] = dy}

HostsIn(range) == UNION {hosts[s] : s \in range}

ObjectsIn(range) == UNION {objects[s] : s \in range}

Alive(o) == object[o].state = "alive"

\* What the packets name an object by: the player's id, the monster's id.
Key(o) == IF o \in CharacterSlots THEN object[o].player ELSE object[o].id

Keys(S) == {Key(o) : o \in S}

\* Clients qs are told of a living object shown (S_SPAWN_...) or of one that
\* is gone (S_DESTROY_...).
Shown(v, qs, k) == [q \in Players |-> IF q \in qs THEN v[q] \cup {k} ELSE v[q]]

Hidden(v, qs, k) == [q \in Players |-> IF q \in qs THEN v[q] \ {k} ELSE v[q]]

-----------------------------------------------------------------------------
(* Creating and destroying objects *)

\* A monster of the pool in its spawn point (CreateObject<Monster>).
NewMonster(id) ==
  [state |-> "alive", id |-> id, sector |-> SpawnSector, host |-> None,
   player |-> None, hp |-> MaxHp]

Unused == [state |-> "free", id |-> 0, sector |-> SpawnSector, host |-> None,
           player |-> None, hp |-> 0]

\* GameGroup::Init: the field starts with its monster.
Init ==
  /\ phase = "jobs"
  /\ \E m \in MonsterSlots :
       /\ object = [o \in Slots |-> IF o = m THEN NewMonster(1) ELSE Unused]
       /\ objects = [s \in Sectors |-> IF s = SpawnSector THEN {m} ELSE {}]
       /\ monsters = {<<1, m>>}
  /\ hosts = [s \in Sectors |-> {}]
  /\ character = [p \in Players |-> None]
  /\ removeObjects = <<>> /\ timers = <<>> /\ respawns = 0
  /\ idGen = 1
  /\ view = [p \in Players |-> {}] /\ late = [p \in Players |-> {}]
  /\ overkill = FALSE /\ reentered = {}

\* DestroyObject: the object is marked, everyone around it is told, and it
\* waits for the end of the frame.  Nothing keeps it from being marked again,
\* nor a slot that was already released from being marked.  A player leaves
\* with his character, and with all he saw.
DestroyObject(o) ==
  LET told(v) == [p \in Players |->
        IF p = object[o].player THEN {}
        ELSE Hidden(v, HostsIn(aroundSectors[object[o].sector]), Key(o))[p]]
  IN /\ object' = [object EXCEPT ![o].state = IF @ = "alive" THEN "destroyed" ELSE @,
                                 ![o].host = None]
     /\ removeObjects' = Append(removeObjects, o)
     /\ view' = told(view)
     /\ late' = told(late)

\* OnEnter with OnPlayerEnter: the character is created (everyone around is
\* told), the player is attached to it, and is told of every object around
\* that is not its own, those destroyed earlier in the frame included.
Enter(p) ==
  /\ phase = "jobs" /\ character[p] = None /\ idGen < MaxIds
  /\ \E o \in CharacterSlots, s \in EntrySectors :
       LET others == ObjectsIn(aroundSectors[s]) IN
       /\ object[o].state = "free"
       /\ object' = [object EXCEPT ![o] =
            [state |-> "alive", id |-> idGen + 1, sector |-> s, host |-> p,
             player |-> p, hp |-> 0]]
       /\ objects' = [objects EXCEPT ![s] = @ \cup {o}]
       /\ hosts' = [hosts EXCEPT ![s] = @ \cup {p}]
       /\ character' = [character EXCEPT ![p] = o]
       /\ view' = [Shown(view, HostsIn(aroundSectors[s]), p) EXCEPT ![p] = Keys(others)]
       /\ late' = [Hidden(late, HostsIn(aroundSectors[s]), p) EXCEPT ![p] =
            Keys({x \in others : ~Alive(x)}) \ Keys({x \in others : Alive(x)})]
  /\ idGen' = idGen + 1
  /\ reentered' = IF \E o \in CharacterSlots : object[o].state = "destroyed" /\ object[o].player = p
                  THEN reentered \cup {p} ELSE reentered
  /\ UNCHANGED <<phase, monsters, removeObjects, timers, respawns, overkill>>

\* mutant: the host is not detached from the sector of its character.
Leave_Attached(p) ==
  LET o == character[p] IN
  /\ phase \in {"jobs", "packets"} /\ o # None
  /\ DestroyObject(o)
  /\ character' = [character EXCEPT ![p] = None]
  /\ UNCHANGED <<phase, objects, hosts, monsters, timers, respawns, idGen, overkill, reentered>>

\* OnLeave with OnPlayerLeave, from the job of a closed session or from
\* MoveGroup in a packet handler.
Leave(p) ==
  LET o == character[p] IN
  /\ phase \in {"jobs", "packets"} /\ o # None
  /\ hosts' = [hosts EXCEPT ![object[o].sector] = @ \ {p}]
  /\ DestroyObject(o)
  /\ character' = [character EXCEPT ![p] = None]
  /\ UNCHANGED <<phase, objects, monsters, timers, respawns, idGen, overkill, reentered>>

Pending == FlattenSeq(timers)

\* Handle_C_SKILL on a monster it finds within reach: the damage is reserved
\* on the monster and, when this hit would be its last, its destruction on the
\* character.
Cast(p) ==
  LET c == character[p] IN
  /\ phase \in {"jobs", "packets"} /\ c # None
  /\ Len(SelectSeq(Pending, LAMBDA t : t.kind = "hit")) < MaxPending
  /\ \E entry \in monsters :
       LET m == entry[2]
           hit == [kind |-> "hit", object |-> m, id |-> object[m].id]
           kill == [kind |-> "kill", object |-> c, id |-> object[c].id,
                    monster |-> m, monsterId |-> object[m].id]
           reserved == IF object[m].hp - 1 <= 0 THEN <<hit, kill>> ELSE <<hit>>
       IN /\ object[m].sector \in aroundSectors[object[c].sector]
          /\ timers' = IF phase = "packets"
                       THEN [timers EXCEPT ![Len(timers)] = @ \o reserved]
                       ELSE Append(timers, reserved)
          /\ overkill' = (overkill \/
               /\ object[m].hp - 1 <= 0
               /\ \E i \in DOMAIN timers : \E j \in DOMAIN timers[i] :
                    /\ timers[i][j].kind = "kill"
                    /\ timers[i][j].monsterId = object[m].id)
  /\ phase' = "packets"
  /\ UNCHANGED <<object, objects, hosts, character, monsters, removeObjects,
                 respawns, idGen, view, late, reentered>>

\* FieldManager::DestroyMonster: the respawn is reserved and the monster goes.
DestroyMonster(m) ==
  /\ respawns' = respawns + 1
  /\ monsters' = {e \in monsters : e[1] # object[m].id}
  /\ DestroyObject(m)

\* process_timer_event: the timers of the earliest tick, in any order; a tick
\* that has begun is finished.  One whose object was destroyed, or is another
\* by now, is dropped.  The memory of an object that was released still says
\* destroyed; that of the monster of a kill is only asked for its id.
FireTimer ==
  /\ phase # "update" /\ timers # <<>>
  /\ \E i \in DOMAIN Head(timers) :
       LET t == Head(timers)[i]
           rest == RemoveAt(Head(timers), i)
           valid == Alive(t.object) /\ object[t.object].id = t.id
       IN /\ timers' = IF rest = <<>> THEN Tail(timers) ELSE <<rest>> \o Tail(timers)
          /\ phase' = IF rest = <<>> THEN "timers" ELSE "firing"
          /\ \/ /\ valid /\ t.kind = "hit"
                /\ object' = [object EXCEPT ![t.object].hp = @ - 1]
                /\ UNCHANGED <<monsters, removeObjects, respawns, view, late>>
             \/ /\ valid /\ t.kind = "kill" /\ object[t.monster].id = t.monsterId
                /\ DestroyMonster(t.monster)
             \/ /\ valid => t.kind = "kill" /\ object[t.monster].id # t.monsterId
                /\ UNCHANGED <<object, monsters, removeObjects, respawns, view, late>>
  /\ UNCHANGED <<objects, hosts, character, idGen, overkill, reentered>>

\* mutant: the timer stays in the queue after it was called.
Respawn_Again ==
  /\ phase \notin {"firing", "update"} /\ respawns > 0 /\ idGen < MaxIds
  /\ \E o \in MonsterSlots :
       /\ object[o].state = "free"
       /\ object' = [object EXCEPT ![o] = NewMonster(idGen + 1)]
       /\ objects' = [objects EXCEPT ![SpawnSector] = @ \cup {o}]
       /\ monsters' = monsters \cup {<<idGen + 1, o>>}
  /\ view' = Shown(view, HostsIn(aroundSectors[SpawnSector]), idGen + 1)
  /\ idGen' = idGen + 1 /\ phase' = "timers"
  /\ UNCHANGED <<hosts, character, removeObjects, timers, respawns, late, overkill, reentered>>

\* The timer of DestroyMonster: a new monster at the spawn point.  The field
\* manager is never destroyed.
Respawn ==
  /\ phase \notin {"firing", "update"} /\ respawns > 0 /\ idGen < MaxIds
  /\ \E o \in MonsterSlots :
       /\ object[o].state = "free"
       /\ object' = [object EXCEPT ![o] = NewMonster(idGen + 1)]
       /\ objects' = [objects EXCEPT ![SpawnSector] = @ \cup {o}]
       /\ monsters' = monsters \cup {<<idGen + 1, o>>}
  /\ view' = Shown(view, HostsIn(aroundSectors[SpawnSector]), idGen + 1)
  /\ respawns' = respawns - 1
  /\ idGen' = idGen + 1 /\ phase' = "timers"
  /\ UNCHANGED <<hosts, character, removeObjects, timers, late, overkill, reentered>>

\* OnUpdate of a living object that follows its path into another sector:
\* MovePosition.  Hosts it goes out of reach of are told, and its own host of
\* what goes out of his; then the same for what comes into reach.
MovePosition(o, s) ==
  LET old   == object[o].sector
      dy    == s[1] - old[1]
      dx    == s[2] - old[2]
      p     == object[o].host
      left  == Side(old, -dy, -dx)
      found == Side(s, dy, dx)
      leftHosts  == HostsIn(left) \ {p}
      foundHosts == HostsIn(found) \ {p}
      leftKeys   == Keys(ObjectsIn(left) \ {o})
      alive      == {x \in ObjectsIn(found) : Alive(x)}
      foundKeys  == Keys(ObjectsIn(found) \ {o})
  IN /\ s # old
     /\ object' = [object EXCEPT ![o].sector = s]
     /\ objects' = [objects EXCEPT ![old] = @ \ {o}, ![s] = @ \cup {o}]
     /\ hosts' = IF p = None THEN hosts
                 ELSE [hosts EXCEPT ![old] = @ \ {p}, ![s] = @ \cup {p}]
     /\ LET others(v) == Hidden(v, leftHosts, Key(o))
        IN /\ view' = [q \in Players |->
                IF q = p THEN (view[p] \ leftKeys) \cup foundKeys
                ELSE Shown(others(view), foundHosts, Key(o))[q]]
           /\ late' = [q \in Players |->
                IF q = p THEN (late[p] \ leftKeys) \cup (foundKeys \ Keys(alive))
                ELSE Hidden(others(late), foundHosts, Key(o))[q]]

Update ==
  /\ phase # "firing" /\ phase' = "update"
  /\ \E o \in Slots :
       /\ Alive(o)
       /\ \E s \in IF o \in MonsterSlots THEN Section ELSE Walkable :
            /\ s[1] - object[o].sector[1] \in -MaxStep..MaxStep
            /\ s[2] - object[o].sector[2] \in -MaxStep..MaxStep
            /\ MovePosition(o, s)
  /\ UNCHANGED <<character, monsters, removeObjects, timers, respawns, idGen,
                 overkill, reentered>>

\* The destroyed objects go back to their pools.  A slot that is there twice,
\* or was released before, is freed twice: what the pool does from then on is
\* undefined, and the model stops.  A monster's memory is still asked for its
\* id and place by the kills that have not fired; a character's is not.
Release ==
  /\ phase # "firing" /\ phase' = "jobs"
  /\ IsInjective(removeObjects)
  /\ \A i \in DOMAIN removeObjects : object[removeObjects[i]].state = "destroyed"
  /\ LET released == Range(removeObjects) IN
       /\ object' = [o \in Slots |->
            IF o \notin released THEN object[o]
            ELSE IF o \in CharacterSlots THEN Unused
            ELSE [object[o] EXCEPT !.state = "free"]]
       /\ objects' = [s \in Sectors |-> objects[s] \ released]
  /\ removeObjects' = <<>>
  /\ UNCHANGED <<hosts, character, monsters, timers, respawns, idGen, view, late,
                 overkill, reentered>>

Next ==
  \/ \E p \in Players : Enter(p) \/ Leave(p) \/ Cast(p)
  \/ FireTimer \/ Respawn \/ Update \/ Release

Spec == Init /\ [][Next]_vars

-----------------------------------------------------------------------------
(* Properties *)

ObjectType ==
  [state : {"free", "alive", "destroyed"}, id : 0..MaxIds, sector : Sectors,
   host : Players \cup {None}, player : Players \cup {None}, hp : Int]

\* Every variable has its type.
TypeOK ==
  /\ phase \in {"jobs", "packets", "timers", "firing", "update"}
  /\ object \in [Slots -> ObjectType]
  /\ objects \in [Sectors -> SUBSET Slots]
  /\ hosts \in [Sectors -> SUBSET Players]
  /\ character \in [Players -> CharacterSlots \cup {None}]
  /\ monsters \subseteq (1..MaxIds) \X MonsterSlots
  /\ removeObjects \in Seq(Slots)
  /\ respawns \in Nat /\ idGen \in 1..MaxIds
  /\ view \in [Players -> SUBSET (Players \cup 1..MaxIds)]
  /\ late \in [Players -> SUBSET (Players \cup 1..MaxIds)]
  /\ overkill \in BOOLEAN /\ reentered \subseteq Players

InField(p) == character[p] # None

\* A sector lists the objects that say they are in it, destroyed ones included
\* until they are released, and the players whose character is: these get the
\* packets that are sent to it.
SectorsFollowObjects ==
  \A s \in Sectors :
    /\ objects[s] = {o \in Slots : object[o].state # "free" /\ object[o].sector = s}
    /\ hosts[s] = {p \in Players : InField(p) /\ object[character[p]].sector = s}

\* The living objects around a player's character, but his own.
Around(p) ==
  {o \in ObjectsIn(aroundSectors[object[character[p]].sector]) \ {character[p]} : Alive(o)}

\* Each client shows what is around its player, wherever the two have come
\* from (GameObject.cpp 52-150).  Only what was destroyed before he came near,
\* in the frame in which he did, is shown beyond that, and stays on his screen.
\* The other exception is a player who came back in the frame in which he left:
\* going out of reach of his old character hides the new one.
SeesWhatIsAround ==
  \A p \in Players : InField(p) =>
    /\ Keys(Around(p)) \subseteq view[p] \cup reentered
    /\ view[p] \ Keys(Around(p)) \subseteq late[p] \cup reentered

\* FindMonster returns living monsters, whatever became of their slots; and the
\* field has one monster or one respawn to come, unless a skill was used on a
\* monster whose destruction was already reserved.
OneMonster ==
  /\ \A e \in monsters : Alive(e[2]) /\ object[e[2]].id = e[1]
  /\ overkill \/ Cardinality(monsters) + respawns = 1

\* FieldManager.cpp:31: a monster comes back 5 seconds after it was destroyed,
\* one for one.
RespawnsOnce == Cardinality(monsters) + respawns = 1

=============================================================================

--------------------------- MODULE CharacterStore ---------------------------
(***************************************************************************)
(* How characters come from the game server's database to its players and  *)
(* go back.  A login reads an account's characters into the slots their     *)
(* idx names; the lobby creates new ones and enters a field with any slot   *)
(* the client asks for; a field saves what is played when the player        *)
(* leaves.  Reads are made at once by the group that handles the packet,    *)
(* writes are jobs queued for DBWriter's thread: a read may come before a   *)
(* write that was asked for earlier.                                        *)
(*                                                                         *)
(* Groups are threads; their handlers interleave with DBWriter's.  Level,  *)
(* experience, position and hit points are one number that only grows.     *)
(* The lock-free queue is taken as first in, first out (LockFreeQueue says *)
(* where it is not), moving between groups as GroupBase shows it: the old  *)
(* group's Leave, then the new one's Enter.                                *)
(***************************************************************************)
EXTENDS Integers, Sequences, SequencesExt, FiniteSetsExt

CONSTANTS
  Sessions,       \* connections to the game server
  Accounts,       \* who logs in; stands for Player::id too
  Fields,         \* groups CANYON and CEMETERY
  MaxId,          \* bound: character ids
  MaxCharacters,  \* characterInfos.size()
  Fresh,          \* what numCharacters, never set, may be in a new player
  MaxLevel,       \* bound: progress of a character beyond a new one's
  MaxLogins,      \* bound: logins
  MaxJobs,        \* bound: jobs in DBWriter's queue
  None

ASSUME StoreAssumption ==
  /\ {MaxId, MaxCharacters, MaxLevel, MaxLogins, MaxJobs} \subseteq Nat \ {0}
  /\ Fresh # {} /\ Fresh \subseteq 0 .. MaxCharacters
  /\ None \notin Accounts \cup Fields \cup Int \cup [player : Accounts, idx : Nat, level : Nat]
  /\ Fields \cap {"login", "lobby"} = {}

Login == "login"
Lobby == "lobby"
Groups == {Login, Lobby} \cup Fields
Ids == 0 .. MaxId
Slots == 0 .. MaxCharacters - 1
Levels == 0 .. MaxLevel
Row == [player : Accounts, idx : Slots, level : Levels]
Job == [op : {"insert", "update"}, id : Ids, player : Accounts \cup {None}, idx : Slots,
        level : Levels]

\* CharacterInfo, and whose login or creation filled it: nobody's as Player()
\* value-initialises it.
Info == [id : Ids, idx : Slots, level : Levels, owner : Accounts \cup {None}]
Unset == [id |-> 0, idx |-> 0, level |-> 0, owner |-> None]

VARIABLES
  rows,        \* table character: id -> its row
  jobs,        \* DBWriter::_queue
  signalled,   \* the queue's auto-reset event
  writer,      \* DBWriter's thread: "wait", or "drain" in its inner loop
  signalling,  \* groups that have pushed a job and not set the event yet
  place,       \* the group a session belongs to
  logins,      \* logins so far
  account,     \* Player::accountId
  infos,       \* Player::characterInfos, slot -> info
  count,       \* Player::numCharacters; MaxCharacters stands for all beyond
  curIndex,    \* Player::curIndex
  playing,     \* progress of Player::curCharacter, while in a field
  shared,      \* history: ids that more than one character goes by
  stale,       \* history: accounts with a copy behind the database or the queue
  holed        \* history: accounts whose idx may not be 0, 1, 2 ... without gap

tableVars == <<rows, jobs, signalled, writer, signalling>>
playerVars == <<place, logins, account, infos, count, curIndex, playing>>
historyVars == <<shared, stale, holed>>
vars == <<tableVars, playerVars, historyVars>>

\* Players nobody has logged in to.
Nobody == [s \in Sessions |-> None]
NoInfos == [s \in Sessions |-> [i \in Slots |-> Unset]]
NoIndex == [s \in Sessions |-> 0]
Entrance == [s \in Sessions |-> Login]

Init ==
  /\ rows = [c \in Ids |-> None]
  /\ jobs = <<>> /\ signalled = FALSE /\ writer = "wait" /\ signalling = {}
  /\ place = Entrance /\ logins = 0 /\ account = Nobody /\ infos = NoInfos
  /\ count \in [Sessions -> Fresh] /\ curIndex = NoIndex /\ playing = Nobody
  /\ shared = {} /\ stale = {} /\ holed = {}

-----------------------------------------------------------------------------
(* The database and DBWriter *)

\* Writes asked for and not in the database yet.
Pending == ToSet(jobs)

\* DBWriter::Write, up to the push; JobQueue::Enqueue sets the event next.
Write(g, job) ==
  /\ Len(jobs) < MaxJobs
  /\ jobs' = Append(jobs, job)
  /\ signalling' = signalling \cup {g}

SetEvent(g) ==
  /\ g \in signalling /\ signalling' = signalling \ {g}
  /\ signalled' = TRUE
  /\ UNCHANGED <<rows, jobs, writer, playerVars, historyVars>>

Wake ==
  /\ writer = "wait" /\ signalled
  /\ writer' = "drain" /\ signalled' = FALSE
  /\ UNCHANGED <<rows, jobs, signalling, playerVars, historyVars>>

\* The insert of an id that is taken fails and is only printed; the update
\* goes by the id alone.
Written(job) ==
  CASE job.op = "insert" /\ rows[job.id] = None ->
         [rows EXCEPT ![job.id] = [player |-> job.player, idx |-> job.idx, level |-> job.level]]
    [] job.op = "update" /\ rows[job.id] # None ->
         [rows EXCEPT ![job.id].level = job.level]
    [] OTHER -> rows

Execute_Once ==   \* mutant: one job for every wake-up
  /\ writer = "drain" /\ jobs # <<>> /\ jobs' = Tail(jobs)
  /\ rows' = Written(Head(jobs)) /\ writer' = "wait"
  /\ UNCHANGED <<signalled, signalling, playerVars, historyVars>>

\* The inner loop goes on while the queue has jobs.
Execute ==
  /\ writer = "drain" /\ jobs # <<>> /\ jobs' = Tail(jobs)
  /\ rows' = Written(Head(jobs))
  /\ UNCHANGED <<signalled, writer, signalling, playerVars, historyVars>>

Drained ==
  /\ writer = "drain" /\ jobs = <<>>
  /\ writer' = "wait"
  /\ UNCHANGED <<rows, jobs, signalled, signalling, playerVars, historyVars>>

-----------------------------------------------------------------------------
(* Login and lobby *)

\* The rows of a player, and those of them that go to a slot.
RowsOf(a) == {c \in Ids : rows[c] # None /\ rows[c].player = a}
RowsAt(a, i) == {c \in RowsOf(a) : rows[c].idx = i}
ReadRow(c) ==
  [id |-> c, idx |-> rows[c].idx, level |-> rows[c].level, owner |-> rows[c].player]

\* Who has something of an account in memory.
Holds(s, a) == account[s] = a \/ \E i \in Slots : infos[s][i].owner = a

AtMost(n) == IF n <= MaxCharacters THEN n ELSE MaxCharacters

\* A login whose token is the account's: nothing asks whether the account is
\* in the game already, or whether what it left has been saved. Of the rows
\* with one idx the slot keeps the last, in an order the query leaves open.
GameLogin(s, a) ==
  LET behind == \/ \E t \in Sessions \ {s} : Holds(t, a)
                \/ \E j \in Pending : j.player = a
  IN  /\ place[s] = Login /\ place' = [place EXCEPT ![s] = Lobby]
      /\ logins < MaxLogins /\ logins' = logins + 1
      /\ account' = [account EXCEPT ![s] = a]
      /\ \E last \in [Slots -> Ids] :
           /\ \A i \in Slots : RowsAt(a, i) # {} => last[i] \in RowsAt(a, i)
           /\ infos' = [infos EXCEPT ![s] =
                 [i \in Slots |-> IF RowsAt(a, i) = {} THEN infos[s][i] ELSE ReadRow(last[i])]]
      /\ count' = [count EXCEPT ![s] = AtMost(@ + Cardinality(RowsOf(a)))]
      /\ stale' = IF behind THEN stale \cup {a} ELSE stale
      /\ holed' = IF behind \/ count[s] # 0 THEN holed \cup {a} ELSE holed
      /\ UNCHANGED <<tableVars, curIndex, playing, shared>>

NextId_Last ==   \* mutant: the largest id itself
  LET taken == {c \in Ids : rows[c] # None}
  IN  IF taken = {} THEN 0 ELSE Max(taken)

\* Factory::Create increments a copy of _idGen, and Instance() asks the
\* database for MAX(id) every time: instance stays null.
NextId == Max({-1} \cup {c \in Ids : rows[c] # None}) + 1

\* The new character's slot and idx are numCharacters, whatever is there.
CreateCharacter(s) ==
  LET a == account[s]
      i == count[s]
      clash == \E j \in Pending : j.op = "insert" /\ j.id = NextId
  IN  /\ place[s] = Lobby /\ a # None /\ Lobby \notin signalling
      /\ NextId \in Ids /\ i \in Slots
      /\ infos' = [infos EXCEPT ![s][i] = [id |-> NextId, idx |-> i, level |-> 0, owner |-> a]]
      /\ count' = [count EXCEPT ![s] = i + 1]
      /\ Write(Lobby, [op |-> "insert", id |-> NextId, player |-> a, idx |-> i, level |-> 0])
      /\ shared' = IF clash THEN shared \cup {NextId} ELSE shared
      /\ holed' = IF clash THEN holed \cup {a} ELSE holed
      /\ UNCHANGED <<rows, signalled, writer, place, logins, account, curIndex, playing,
                     stale>>

\* MoveGroup to the field the slot says, whose Enter job comes next: the slot
\* is the client's choice, filled or not.
GameEnter(s, i, f) ==
  /\ place[s] = Lobby /\ Lobby \notin signalling
  /\ curIndex' = [curIndex EXCEPT ![s] = i]
  /\ place' = [place EXCEPT ![s] = f]
  /\ UNCHANGED <<tableVars, logins, account, infos, count, playing, historyVars>>

-----------------------------------------------------------------------------
(* Fields *)

\* GetCurInfo, which the Character played is a copy of.
Cur(s) == infos[s][curIndex[s]]

\* OnPlayerEnter: the character starts as the player's info says. One of a
\* slot nothing filled has id 0 and idx 0: it will be saved as those.
EnterField(s) ==
  LET unset == Cur(s).owner = None
  IN  /\ place[s] \in Fields \ signalling /\ playing[s] = None
      /\ playing' = [playing EXCEPT ![s] = Cur(s).level]
      /\ shared' = IF unset THEN shared \cup {0} ELSE shared
      /\ stale' = IF unset THEN stale \cup ({infos[s][0].owner} \ {None}) ELSE stale
      /\ UNCHANGED <<tableVars, place, logins, account, infos, count, curIndex, holed>>

Progress(s) ==
  /\ playing[s] # None /\ place[s] \notin signalling
  /\ playing[s] < MaxLevel
  /\ playing' = [playing EXCEPT ![s] = @ + 1]
  /\ UNCHANGED <<tableVars, place, logins, account, infos, count, curIndex, historyVars>>

\* OnPlayerLeave queues the save of what was played.
Save(s) ==
  /\ playing[s] # None /\ place[s] \notin signalling
  /\ Write(place[s], [op |-> "update", id |-> Cur(s).id, player |-> Cur(s).owner,
                      idx |-> 0, level |-> playing[s]])
  /\ playing' = [playing EXCEPT ![s] = None]
  /\ UNCHANGED <<rows, signalled, writer, historyVars>>

MoveField_NoInfo(s, g) ==   \* mutant: what was played stays in the character
  /\ Save(s)
  /\ place' = [place EXCEPT ![s] = g]
  /\ UNCHANGED <<infos, logins, account, count, curIndex>>

\* Handle_C_MOVE_FIELD, to any group, this one too: MoveGroup runs
\* OnPlayerLeave, where the slot the character's idx names takes over what was
\* played, and queues the Enter job of the other group.
MoveField(s, g) ==
  /\ Save(s)
  /\ infos' = [infos EXCEPT ![s][Cur(s).idx].level = playing[s]]
  /\ place' = [place EXCEPT ![s] = g]
  /\ UNCHANGED <<logins, account, count, curIndex>>

RemoveHost_KeepsInfos(s) ==   \* mutant: the next session's player starts with what this one's had
  /\ place' = [place EXCEPT ![s] = Login]
  /\ account' = [account EXCEPT ![s] = None]
  /\ \E n \in Fresh : count' = [count EXCEPT ![s] = n]
  /\ curIndex' = [curIndex EXCEPT ![s] = 0]
  /\ UNCHANGED infos

\* The player of a session that is over goes back to its pool, and one for the
\* next session (OnAccept) starts in the login group.
RemoveHost(s) ==
  /\ place' = [place EXCEPT ![s] = Login]
  /\ account' = [account EXCEPT ![s] = None]
  /\ infos' = [infos EXCEPT ![s] = [i \in Slots |-> Unset]]
  /\ \E n \in Fresh : count' = [count EXCEPT ![s] = n]
  /\ curIndex' = [curIndex EXCEPT ![s] = 0]

\* The connection ends: outside the fields, or before the Enter job, there is
\* nothing to save.
Close(s) ==
  /\ account[s] # None /\ playing[s] = None
  /\ RemoveHost(s)
  /\ UNCHANGED <<tableVars, logins, playing, historyVars>>

\* In a field it is the Leave job that counts, whenever the field runs it:
\* OnPlayerLeave, then OnDisconnect. A closed session it has not run for yet is
\* one that sends nothing.
Leave(s) ==
  /\ Save(s) /\ RemoveHost(s)
  /\ UNCHANGED logins

\* The process ends: by an update the database refuses, which nothing catches,
\* by a login that fails, or by an index a client sent or numCharacters gave
\* that is beyond its vector. Queue and players are gone, the rows are not.
Crash ==
  /\ jobs' = <<>> /\ signalled' = FALSE /\ writer' = "wait" /\ signalling' = {}
  /\ place' = Entrance /\ account' = Nobody /\ infos' = NoInfos
  /\ count' \in [Sessions -> Fresh] /\ curIndex' = NoIndex /\ playing' = Nobody
  /\ shared' = {} /\ stale' = {}
  /\ UNCHANGED <<rows, logins, holed>>

-----------------------------------------------------------------------------
Next ==
  \/ \E g \in Groups : SetEvent(g)
  \/ Wake \/ Execute \/ Drained \/ Crash
  \/ \E s \in Sessions :
       \/ \E a \in Accounts : GameLogin(s, a)
       \/ CreateCharacter(s)
       \/ \E i \in Slots, f \in Fields : GameEnter(s, i, f)
       \/ EnterField(s) \/ Progress(s)
       \/ \E g \in Groups : MoveField(s, g)
       \/ Close(s) \/ Leave(s)

Spec == Init /\ [][Next]_vars

-----------------------------------------------------------------------------
(* Every variable has its type.                                             *)
TypeOK ==
  /\ rows \in [Ids -> Row \cup {None}]
  /\ jobs \in Seq(Job)
  /\ signalled \in BOOLEAN /\ writer \in {"wait", "drain"}
  /\ signalling \subseteq Groups /\ logins \in 0 .. MaxLogins
  /\ \A s \in Sessions :
       /\ place[s] \in Groups
       /\ account[s] \in Accounts \cup {None}
       /\ infos[s] \in [Slots -> Info] /\ count[s] \in 0 .. MaxCharacters
       /\ curIndex[s] \in Slots /\ playing[s] \in Levels \cup {None}
  /\ shared \subseteq Ids /\ stale \subseteq Accounts /\ holed \subseteq Accounts

\* One character's id, of an account none of whose copies is behind.
Safe(c, a) == c \notin shared /\ a \notin stale

\* What the database has of a character never goes back, through any number
\* of fields, saves and logins (GameGroup.cpp 146-192): except for an account
\* that logged in over another session or a save of its own, whose next save
\* is what was read too early; for an id that was given to two characters;
\* and for id 0, and the account that shares the slots, once a client has
\* entered with a slot that nothing filled (LobbyGroup.cpp 75-79).
ProgressIsKept ==
  [][\A c \in Ids :
       rows[c] # None /\ Safe(c, rows[c].player)
       => rows'[c].player = rows[c].player /\ rows'[c].level >= rows[c].level]_vars

\* A character a slot was filled with is its account's row with the slot's
\* number, or is about to be (LobbyGroup.cpp 44-73): except for an id given out
\* while the insert of the same id was still queued, whose insert fails
\* unnoticed (and id 0, once it is shared with a slot that nothing filled).
CharactersAreStored ==
  \A s \in Sessions, i \in Slots :
    LET info == infos[s][i]
    IN  info.owner # None /\ info.id \notin shared =>
          \/ /\ rows[info.id] # None
             /\ rows[info.id].player = info.owner /\ rows[info.id].idx = i
          \/ \E j \in Pending : /\ j.op = "insert" /\ j.id = info.id
                                 /\ j.player = info.owner /\ j.idx = i

\* The lobby lists the slots below numCharacters (LobbyGroup.cpp 26-42): they
\* are the player's characters, all of them and no slot that nothing filled,
\* through creations, saves and logins; except for an account one of whose
\* inserts failed unnoticed, that was read over another session or a queued
\* write, or whose player's numCharacters was not 0 when it logged in.
ListIsWhole ==
  \A s \in Sessions : account[s] \notin holed \cup {None} =>
    /\ \A i \in Slots : infos[s][i].owner # None <=> i < count[s]
    /\ \A c \in RowsOf(account[s]) : infos[s][rows[c].idx].id = c

\* DBWriter's thread does not sleep over a queued write (DBWriter.cpp 8-20):
\* the event is set, or the group that pushed is about to set it.
WriterIsWoken ==
  writer = "wait" /\ jobs # <<>> => signalled \/ signalling # {}
=============================================================================
